----------------------------- MODULE JoinRetry -----------------------------
(***************************************************************************)
(* Joining a network as the user of the lock sees it: after a restart the  *)
(* device tries until it is on a network.  It gives up only when a start   *)
(* of commissioning fails, may not come back when it loses the network,    *)
(* and once it has given up only a restart makes it try again.             *)
(*                                                                         *)
(* Commissioning.tla implements this specification.                        *)
(***************************************************************************)
EXTENDS Naturals

VARIABLES phase,   \* "down", "trying", "on" or "off" (on no network, not trying)
          errors,  \* starts of commissioning that failed
          leaves   \* times the network was lost

joinVars == <<phase, errors, leaves>>

JoinInit == phase = "down" /\ errors = 0 /\ leaves = 0

Boot    == phase = "down" /\ phase' = "trying" /\ UNCHANGED <<errors, leaves>>
Join    == phase = "trying" /\ phase' = "on" /\ UNCHANGED <<errors, leaves>>
Restart == phase /= "down" /\ phase' = "down" /\ UNCHANGED <<errors, leaves>>

GiveUp == phase = "trying" /\ phase' = "off"
          /\ errors' = errors + 1 /\ UNCHANGED leaves

\* A start that fails while the device is on the network does no harm yet.
StartFails == phase = "on" /\ errors' = errors + 1 /\ UNCHANGED <<phase, leaves>>

Lose == phase = "on" /\ phase' \in {"trying", "off"}
        /\ leaves' = leaves + 1 /\ UNCHANGED errors

JoinNext == Boot \/ Join \/ Restart \/ GiveUp \/ StartFails \/ Lose

\* It does not stay down, and it does not try for ever.
JoinSpec == /\ JoinInit /\ [][JoinNext]_joinVars
            /\ WF_joinVars(Boot) /\ WF_joinVars(Join \/ GiveUp)
=============================================================================
