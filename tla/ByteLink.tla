------------------------------ MODULE ByteLink ------------------------------
(***************************************************************************)
(* What the UART link promises to the lock driver: a stream of bytes that  *)
(* arrives in the order it was submitted, frame after frame, nothing       *)
(* invented, repeated or overtaken.  A restart of the controller may cut   *)
(* off what has not been transmitted yet, and only that.                   *)
(*                                                                         *)
(* UartDriver.tla implements this specification.                           *)
(***************************************************************************)
EXTENDS Naturals, Sequences

CONSTANTS Frame,   \* the payloads the lock driver can submit
          Size     \* Size[f]: how many bytes frame f has

VARIABLES sent,    \* the bytes submitted and not cut off by a restart
          got      \* the bytes that have left the controller

linkVars == <<sent, got>>

Byte == Frame \X Nat

\* The bytes of frame f; a byte is named by its frame and its position.
FrameBytes(f) == [i \in 1 .. Size[f] |-> <<f, i>>]

LinkInit == sent = <<>> /\ got = <<>>

Submit(f) == sent' = sent \o FrameBytes(f) /\ UNCHANGED got

Deliver == /\ Len(got) < Len(sent)
           /\ got' = Append(got, sent[Len(got) + 1])
           /\ UNCHANGED sent

Cut == sent' = got /\ UNCHANGED got

LinkNext == (\E f \in Frame : Submit(f)) \/ Deliver \/ Cut

LinkSpec == LinkInit /\ [][LinkNext]_linkVars /\ WF_linkVars(Deliver)
=============================================================================
