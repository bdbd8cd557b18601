------------------------------ MODULE DoorLock ------------------------------
(***************************************************************************)
(* The device as whoever stands in front of the door knows it: an opening  *)
(* that was asked for reaches the lock once, fails, or is forgotten in a   *)
(* restart, and which of the three is known of each; nothing opens the     *)
(* lock unasked, and nothing before the device is through with its boot.   *)
(*                                                                         *)
(* SmartLock.tla implements this specification.                            *)
(***************************************************************************)
EXTENDS Naturals

VARIABLES booted,  \* the device has done with Zigbee::init since its last restart
          asked,   \* openings asked for by commands
          waiting, \* those on their way to the lock
          opened,  \* those the lock has heard to the end
          failed,  \* those whose call to the UART driver failed
          forgotten \* those that were on their way when the device restarted

doorVars == <<booted, asked, waiting, opened, failed, forgotten>>

DoorInit == /\ booted = FALSE /\ asked = 0 /\ waiting = 0
            /\ opened = 0 /\ failed = 0 /\ forgotten = 0

\* The device is through with its boot, and commands are heard from now on.
Boot == /\ ~booted /\ booted' = TRUE
        /\ UNCHANGED <<asked, waiting, opened, failed, forgotten>>

\* A command asks for an opening.
Ask == /\ booted /\ asked' = asked + 1 /\ waiting' = waiting + 1
       /\ UNCHANGED <<booted, opened, failed, forgotten>>

\* One that is on its way gets to the lock or fails; a restart forgets all of them.
Leave == /\ booted /\ waiting > 0 /\ waiting' = waiting - 1
         /\ UNCHANGED <<booted, asked, forgotten>>

Open == Leave /\ opened' = opened + 1 /\ failed' = failed
Fail == Leave /\ failed' = failed + 1 /\ opened' = opened

Restart == /\ booted' = FALSE /\ forgotten' = forgotten + waiting /\ waiting' = 0
           /\ UNCHANGED <<asked, opened, failed>>

DoorNext == Boot \/ Ask \/ Open \/ Fail \/ Restart

\* An opening does not wait for ever.
DoorSpec == DoorInit /\ [][DoorNext]_doorVars /\ WF_doorVars(Open \/ Fail)
=============================================================================
