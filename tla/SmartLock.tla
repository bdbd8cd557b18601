----------------------------- MODULE SmartLock -----------------------------
(***************************************************************************)
(* The whole device: app_main and Zigbee::init bring up the lock driver,   *)
(* the Zigbee task then runs the command callbacks of ZclDispatch, and     *)
(* whoever calls the lock blocks in LockDriver above the UART.  A restart  *)
(* (power, panic, a failing ESP_ERROR_CHECK) may come at any moment and    *)
(* sends everything back to app_main.                                      *)
(*                                                                         *)
(* One task at a time runs this code: app_main's until xTaskCreate, the    *)
(* Zigbee task afterwards.  Its calls of the lock wait in todo while it is *)
(* blocked in the first of them; no caller looks at a result.              *)
(***************************************************************************)
EXTENDS LockDriver, FiniteSets

CONSTANTS Command, InboxLen, MaxCommands  \* those of ZclDispatch

\* The pins of Zigbee::init are among those the lock driver is modelled with.
ASSUME BootPinsAssumption == <<4, 5>> \in Pins

VARIABLES
  main,     \* "reset", "init": in Zigbee::init, "task": the Zigbee task exists,
            \*   "loop": it runs the stack, "noTask": xTaskCreate has failed
  todo,     \* the calls of the lock the task has still to make
  flashOk,  \* nvs_flash_init works: a worn or full partition stays that way
  inbox, step, cb, done, calls, verdict, \* the state of ZclDispatch
  failed,   \* history: the openings whose own sendData failed
  forgotten \* history: the openings a restart took on their way to the lock

Zcl == INSTANCE ZclDispatch

taskVars == <<main, todo>>
zclVars  == <<inbox, step, cb, done, calls, verdict>>
fateVars == <<failed, forgotten>>
topVars  == <<taskVars, flashOk, zclVars, fateVars>>
allVars  == <<vars, topVars>>

SmartInit == /\ LockInit /\ Zcl!ZclInit
             /\ main = "reset" /\ todo = <<>> /\ flashOk \in BOOLEAN
             /\ failed = 0 /\ forgotten = 0

\* The task is not blocked in, or about to make, a call of the lock.
Free == stage = "idle" /\ todo = <<>>

\* The openings asked for, and those whose byte at pos is in s.
Openings == Cardinality({k \in DOMAIN calls : calls[k].call = "open"})
OpenBytes(s, pos) == Cardinality({i \in DOMAIN s : s[i] = <<"open", pos>>})

\* The openings between the callback that asks for them and the end of the wire.
OpeningsToMake == Cardinality({i \in DOMAIN todo : todo[i] = "open"})
OnTheirWay == OpeningsToMake + OpenBytes(pending, Size["open"])
                             + OpenBytes(fifo, Size["open"])

\* The call of sendData that begins in this step has an opening, and it fails.
OpeningFails == Head(todo) = "open" /\ SendFails

-----------------------------------------------------------------------------
(***************************************************************************)
(* Faulty variants of operations defined below.                            *)
(***************************************************************************)

\* Zigbee::init sends the latch command before the key.
AppMain_LatchFirst ==
  /\ main = "reset" /\ InitLock(4, 5)
  /\ main' = "init" /\ todo' = <<"turnOffAutomaticLatch", "setKey">>
  /\ UNCHANGED <<flashOk, zclVars, fateVars>>

\* The task gets on with its loop while the stack is not started yet.
StartStack_Twice == /\ main = "task" /\ main' = "started"
                    /\ UNCHANGED <<vars, todo, flashOk, zclVars, fateVars>>

\* A call may be made again, as if it had not been answered.
CallLock_Retries ==
  /\ todo /= <<>> /\ todo' \in {todo, Tail(todo)}
  /\ \/ Head(todo) = "setKey" /\ SetKey
     \/ Head(todo) = "turnOffAutomaticLatch" /\ TurnOffAutomaticLatch
     \/ Head(todo) = "open" /\ OpenLock
  /\ failed' = failed + IF OpeningFails THEN 1 ELSE 0
  /\ UNCHANGED <<main, flashOk, zclVars, forgotten>>

\* The lock driver's state survives the restart, the UART's does not.
Crash_KeepsCall ==
  /\ Reset /\ UNCHANGED lockVars
  /\ main' = "reset" /\ todo' = <<>>
  /\ inbox' = <<>> /\ step' = "idle" /\ cb' = Zcl!NoCallback
  /\ forgotten' = forgotten + OnTheirWay
  /\ UNCHANGED <<flashOk, done, calls, verdict, failed>>

-----------------------------------------------------------------------------
\* app_main: Zigbee::init initializes the lock, whatever the result, and calls
\* it twice.
AppMain ==
  /\ main = "reset" /\ InitLock(4, 5)
  /\ main' = "init" /\ todo' = <<"setKey", "turnOffAutomaticLatch">>
  /\ UNCHANGED <<flashOk, zclVars, fateVars>>

\* The next call of the lock; its result is dropped when it returns.
CallLock ==
  /\ todo /= <<>> /\ todo' = Tail(todo)
  /\ \/ Head(todo) = "setKey" /\ SetKey
     \/ Head(todo) = "turnOffAutomaticLatch" /\ TurnOffAutomaticLatch
     \/ Head(todo) = "open" /\ OpenLock
  /\ failed' = failed + IF OpeningFails THEN 1 ELSE 0
  /\ UNCHANGED <<main, flashOk, zclVars, forgotten>>

\* Both ESP_ERROR_CHECKs of Zigbee::init pass (if not: Crash); the result of
\* xTaskCreate is ignored.
CreateTask ==
  /\ main = "init" /\ Free /\ flashOk
  /\ main' \in {"task", "noTask"}
  /\ UNCHANGED <<vars, todo, flashOk, zclVars, fateVars>>

\* rtosTask: the registration (DataModel.tla) and esp_zb_start (if not: Crash).
StartStack ==
  /\ main = "task" /\ main' = "loop"
  /\ UNCHANGED <<vars, todo, flashOk, zclVars, fateVars>>

\* The radio goes on while the task is blocked.
Arrive(c) == main = "loop" /\ Zcl!Arrive(c) /\ UNCHANGED <<vars, taskVars, flashOk, fateVars>>

\* The next step of the stack's loop: a callback may call the lock and goes on
\* when the calls have returned.
NewCalls == [i \in 1 .. Len(calls') - Len(calls) |-> calls'[Len(calls) + i].call]

Loop ==
  /\ main = "loop" /\ Free
  /\ \/ Zcl!Take \/ Zcl!RawCommandCallback
     \/ Zcl!StackProcesses \/ Zcl!ActionHandler
  /\ todo' = NewCalls
  /\ UNCHANGED <<vars, main, flashOk, fateVars>>

\* Everything but the flash and the histories is lost.
Crash ==
  /\ Restart
  /\ main' = "reset" /\ todo' = <<>>
  /\ inbox' = <<>> /\ step' = "idle" /\ cb' = Zcl!NoCallback
  /\ forgotten' = forgotten + OnTheirWay
  /\ UNCHANGED <<flashOk, done, calls, verdict, failed>>

Under(A) == A /\ UNCHANGED topVars

SmartNext ==
  \/ AppMain \/ CallLock \/ CreateTask \/ StartStack \/ Loop \/ Crash
  \/ \E c \in Command : Arrive(c)
  \/ Under(StartPause \/ Tick \/ DisableLatch \/ Return \/ UartRuns)

\* Tasks and hardware run; nothing makes commands arrive or the device restart.
SmartFairness ==
  /\ WF_allVars(AppMain) /\ WF_allVars(CallLock) /\ WF_allVars(CreateTask)
  /\ WF_allVars(StartStack) /\ WF_allVars(Loop)
  /\ WF_allVars(Under(StartPause)) /\ WF_allVars(Under(Tick))
  /\ WF_allVars(Under(DisableLatch)) /\ WF_allVars(Under(Return))
  /\ WF_allVars(Under(PutByte /\ UNCHANGED lockVars))
  /\ WF_allVars(Under(WriteDone /\ UNCHANGED lockVars))
  /\ WF_allVars(Under(stage /= "pause" /\ ShiftOut /\ UNCHANGED lockVars))

SmartSpec == SmartInit /\ [][SmartNext]_allVars /\ SmartFairness

-----------------------------------------------------------------------------
(***************************************************************************)
(* Properties                                                              *)
(***************************************************************************)

\* Every variable has its type.
SmartTypeOK ==
  /\ LockTypeOK
  /\ main \in {"reset", "init", "task", "loop", "noTask"}
  /\ todo \in Seq({"setKey", "turnOffAutomaticLatch", "open"})
  /\ flashOk \in BOOLEAN /\ Zcl!ZclTypeOK
  /\ failed \in Nat /\ forgotten \in Nat

Rank(f) == CASE f = "setKey" -> 1 [] f = "wakeup" -> 2
             [] f = "disableLatch" -> 3 [] f = "open" -> 4

\* Between two restarts the lock hears the key, the wake-up and the latch
\* command, each once at most and in this order, and only then openings: no
\* callback gets in before Zigbee::init is through, and none sends a key again.
BootBeforeOpenings ==
  \A i, j \in DOMAIN accepted :
    i < j /\ ~(\E c \in cuts : i <= c /\ c < j)
      => \/ Rank(accepted[i][1]) < Rank(accepted[j][1])
         \/ /\ accepted[i][1] = accepted[j][1]
            /\ accepted[i][1] = "open" \/ accepted[i][2] < accepted[j][2]

\* The lock is never told to open more often than commands ask for it, not even
\* across restarts in the middle of a call, and with no restart as often, the openings
\* not counted whose own sendData failed.
OpensAsAsked ==
  /\ OpenBytes(accepted, 1) <= Openings
  /\ resets = 0 /\ Free => Openings <= OpenBytes(accepted, 1) + failed

\* No opening is lost without a reason, and none is made twice: each one a callback
\* asked for has got to the end of the wire, is on its way there (to be called, in
\* sendData, in the FIFO), has failed in its own sendData, or was on its way when the
\* device restarted.
OpeningsAccounted ==
  Openings = OpenBytes(wire, Size["open"]) + OnTheirWay + failed + forgotten

\* From the wire back to the network: the lock is never told to open more often than
\* commands with the id of Unlock Door were taken from the stack, over all restarts,
\* although two callbacks see each command and a restart forgets which were done.
OpeningsAnswerRequests ==
  OpenBytes(accepted, 1)
    <= Cardinality({n \in DOMAIN done : done[n].cmd = Zcl!UNLOCK_DOOR})

\* The steps the task may still take for a command: those of the loop, an opening
\* after each at most, and what is left of the call it is in.
StepsLeft == IF step = "raw" THEN 3 ELSE IF step = "stack" THEN 2 ELSE 1
OpenWork  == 2 * Size["open"] + FifoLen + 3
TaskWork  == IF step = "idle" THEN 0
             ELSE StepsLeft * (OpenWork + 1) + Len(todo) * OpenWork + WorkLeft

\* Whatever the task does for a command brings it nearer to its loop, the callbacks'
\* blocking calls of the lock included: there is a bound on the steps of a command.
TaskAdvances ==
  [][step /= "idle" /\ ~UNCHANGED <<step, todo, stage, left, callVars>>
       => TaskWork' < TaskWork]_allVars

Door == INSTANCE DoorLock WITH booted  <- main \in {"task", "loop", "noTask"},
                               asked   <- Openings,
                               waiting <- OnTheirWay,
                               opened  <- OpenBytes(wire, Size["open"])

\* Boot, callbacks, drivers, UART and restarts together are a door lock: each opening
\* on the wire was asked for since the last restart, one that goes without getting
\* there has failed in its own sendData or was forgotten in a restart, and none waits
\* for ever.
ImplementsDoorLock == Door!DoorSpec

\* Every opening the callbacks ask for gets to the lock with its last byte, unless its
\* own sendData fails or a restart takes it on its way.
OpeningsReachLock ==
  \A k \in 1 .. 2 * MaxCommands :
    Openings >= k ~> k <= OpenBytes(wire, Size["open"]) + failed + forgotten

\* The Zigbee task, blocked in the lock driver or not, always gets back to the
\* stack's loop: a command in progress does not stop the device.
TaskReturns == step /= "idle" ~> step = "idle"

\* Restarts, boot and callbacks use the lock driver as LockDriver.tla says: one
\* call at a time, none cut short but by a restart that also resets the UART.
UsesLockDriver == LockSpec
=============================================================================
