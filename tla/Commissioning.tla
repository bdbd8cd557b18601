---------------------------- MODULE Commissioning ----------------------------
(***************************************************************************)
(* Joining the Zigbee network: esp_zb_app_signal_handler (main/main.cpp)   *)
(* and the commissioning machine of the stack (BDB) that it starts, over   *)
(* and over until the device is on a network.  Everything here runs in the *)
(* Zigbee task: the stack queues a signal and its scheduler hands it to    *)
(* the handler, or runs an alarm, when the task comes to it; a radio event *)
(* may come in between.                                                    *)
(***************************************************************************)
EXTENDS Naturals, Sequences, FiniteSets

CONSTANTS
  MaxStartErrors, \* bound: starts of commissioning that fail
  MaxLeaves,      \* bound: times the device loses its network
  MaxReboots      \* bound: restarts of the controller

VARIABLES
  member,    \* the network's parameters are in the stack's flash storage
  connected, \* the device is on its network
  bdb,       \* "off", "idle", "init" or "steering"
  signals,   \* signals not handed to the handler yet: [type, ok]
  alarms,    \* scheduled calls of esp_zb_bdb_start_top_level_commissioning
  failedStart, \* history: a start has failed since the last restart
  left,      \* history: the device lost its network since it last joined
  errors, leaves, reboots  \* counters for the bounds

stackVars   == <<member, connected, bdb, signals, alarms>>
historyVars == <<failedStart, left, errors, leaves, reboots>>
vars        == <<stackVars, historyVars>>

Signal(type, ok) == [type |-> type, ok |-> ok]
SignalTypes == {"SKIP_STARTUP", "DEVICE_FIRST_START", "DEVICE_REBOOT",
                "STEERING", "OTHER"}

CommissioningInit ==
  /\ member \in BOOLEAN /\ connected = FALSE
  /\ bdb = "off" /\ signals = <<>> /\ alarms = 0
  /\ failedStart = FALSE /\ left = FALSE
  /\ errors = 0 /\ leaves = 0 /\ reboots = 0

-----------------------------------------------------------------------------
\* esp_zb_bdb_start_top_level_commissioning(mode): every call of it drops the
\* result.  A busy BDB refuses; other errors happen too.
Start(mode) ==
  \/ /\ bdb = "idle" /\ bdb' = mode
     /\ UNCHANGED <<failedStart, errors>>
  \/ /\ bdb /= "idle" \/ errors < MaxStartErrors
     /\ failedStart' = TRUE
     /\ errors' = IF bdb = "idle" THEN errors + 1 ELSE errors
     /\ UNCHANGED bdb

-----------------------------------------------------------------------------
(***************************************************************************)
(* Faulty variants of operations defined below.                            *)
(***************************************************************************)

\* Logging compiled out below INFO, and with it the call in its argument.
HandleSkipStartup_NotLogged ==
  /\ signals /= <<>> /\ Head(signals).type = "SKIP_STARTUP"
  /\ signals' = Tail(signals)
  /\ UNCHANGED <<member, connected, bdb, alarms, historyVars>>

\* Steering is retried at once and again by the alarm.
HandleSteering_Twice ==
  /\ signals /= <<>> /\ Head(signals).type = "STEERING"
  /\ signals' = Tail(signals)
  /\ IF Head(signals).ok THEN UNCHANGED <<alarms, bdb, failedStart, errors>>
                         ELSE alarms' = alarms + 1 /\ Start("steering")
  /\ UNCHANGED <<member, connected, left, leaves, reboots>>

\* A failed steering is only logged.
HandleSteering_NoRetry ==
  /\ signals /= <<>> /\ Head(signals).type = "STEERING"
  /\ signals' = Tail(signals)
  /\ UNCHANGED <<member, connected, bdb, alarms, historyVars>>

\* The loss of the network is answered with a start, whatever is under way.
HandleOther_Start ==
  /\ signals /= <<>> /\ Head(signals).type = "OTHER"
  /\ signals' = Tail(signals)
  /\ Start("steering")
  /\ UNCHANGED <<member, connected, alarms, left, leaves, reboots>>

\* The alarm of a start is not used up by it.
AlarmFires_Periodic ==
  /\ alarms > 0
  /\ Start("steering")
  /\ UNCHANGED <<member, connected, signals, alarms, left, leaves, reboots>>

\* The alarm is cancelled on every steering signal, whether one is set or not.
HandleSteering_Cancel ==
  /\ signals /= <<>> /\ Head(signals).type = "STEERING"
  /\ signals' = Tail(signals)
  /\ alarms' = IF Head(signals).ok THEN alarms - 1 ELSE alarms + 1
  /\ UNCHANGED <<member, connected, bdb, historyVars>>

-----------------------------------------------------------------------------
\* esp_zb_start(false) in the Zigbee task: no commissioning of its own.
StackStart ==
  /\ bdb = "off"
  /\ bdb' = "idle" /\ signals' = <<Signal("SKIP_STARTUP", TRUE)>>
  /\ UNCHANGED <<member, connected, alarms, historyVars>>

(***************************************************************************)
(* esp_zb_app_signal_handler, one action per case.  The starts are         *)
(* arguments of ESP_LOGI: they happen because LOG_MAXIMUM_LEVEL is INFO    *)
(* (sdkconfig:1281).                                                       *)
(***************************************************************************)
Handles(types) == /\ signals /= <<>> /\ Head(signals).type \in types
                  /\ signals' = Tail(signals)

HandleSkipStartup ==
  /\ Handles({"SKIP_STARTUP"})
  /\ Start("init")
  /\ UNCHANGED <<member, connected, alarms, left, leaves, reboots>>

\* Whatever the status, and whether the device is on a network or not.
HandleDeviceStart ==
  /\ Handles({"DEVICE_FIRST_START", "DEVICE_REBOOT"})
  /\ Start("steering")
  /\ UNCHANGED <<member, connected, alarms, left, leaves, reboots>>

HandleSteering ==
  /\ Handles({"STEERING"})
  /\ alarms' = IF Head(signals).ok THEN alarms ELSE alarms + 1
  /\ UNCHANGED <<member, connected, bdb, historyVars>>

HandleOther ==
  /\ Handles({"OTHER"})
  /\ UNCHANGED <<member, connected, bdb, alarms, historyVars>>

\* The alarm of a failed steering, 1000 ms later.
AlarmFires ==
  /\ alarms > 0 /\ alarms' = alarms - 1
  /\ Start("steering")
  /\ UNCHANGED <<member, connected, signals, left, leaves, reboots>>

-----------------------------------------------------------------------------
(***************************************************************************)
(* The stack and the network, as the handler's cases show them.            *)
(***************************************************************************)
Joins == connected' = TRUE /\ member' = TRUE /\ left' = FALSE

\* BDB initialization: a device that was on a network rejoins it or fails to.
InitFinishes ==
  /\ bdb = "init" /\ bdb' = "idle"
  /\ \/ /\ ~member
        /\ signals' = Append(signals, Signal("DEVICE_FIRST_START", TRUE))
        /\ UNCHANGED <<connected, member, left>>
     \/ /\ member /\ Joins
        /\ signals' = Append(signals, Signal("DEVICE_REBOOT", TRUE))
     \/ /\ member
        /\ signals' = Append(signals, Signal("DEVICE_REBOOT", FALSE))
        /\ UNCHANGED <<connected, member, left>>
  /\ UNCHANGED <<alarms, failedStart, errors, leaves, reboots>>

\* Steering: a device on a network opens it for others, another one joins.
SteeringSucceeds ==
  /\ bdb = "steering" /\ bdb' = "idle"
  /\ signals' = Append(signals, Signal("STEERING", TRUE))
  /\ Joins
  /\ UNCHANGED <<alarms, failedStart, errors, leaves, reboots>>

SteeringFails ==
  /\ bdb = "steering" /\ ~connected /\ bdb' = "idle"
  /\ signals' = Append(signals, Signal("STEERING", FALSE))
  /\ UNCHANGED <<member, connected, alarms, historyVars>>

\* The network makes the device leave (LEAVE, the parameters are erased), or the
\* device loses its parent (NO_ACTIVE_LINKS_LEFT): both are the default case.
LoseNetwork ==
  /\ connected /\ leaves < MaxLeaves /\ leaves' = leaves + 1
  /\ connected' = FALSE /\ member' \in BOOLEAN /\ left' = TRUE
  /\ signals' = Append(signals, Signal("OTHER", TRUE))
  /\ UNCHANGED <<bdb, alarms, failedStart, errors, reboots>>

Reboot ==
  /\ bdb /= "off" /\ reboots < MaxReboots /\ reboots' = reboots + 1
  /\ connected' = FALSE /\ bdb' = "off" /\ signals' = <<>> /\ alarms' = 0
  /\ failedStart' = FALSE /\ left' = FALSE
  /\ UNCHANGED <<member, errors, leaves>>

-----------------------------------------------------------------------------
CommissioningNext ==
  \/ StackStart
  \/ HandleSkipStartup \/ HandleDeviceStart \/ HandleSteering \/ HandleOther
  \/ AlarmFires
  \/ InitFinishes \/ SteeringSucceeds \/ SteeringFails \/ LoseNetwork \/ Reboot

\* The Zigbee task runs its loop for good (esp_zb_main_loop_iteration does not
\* return), and a network that steering keeps looking for is found some day.
Fairness ==
  /\ WF_vars(StackStart)
  /\ WF_vars(HandleSkipStartup) /\ WF_vars(HandleDeviceStart)
  /\ WF_vars(HandleSteering) /\ WF_vars(HandleOther) /\ WF_vars(AlarmFires)
  /\ WF_vars(InitFinishes) /\ WF_vars(SteeringSucceeds \/ SteeringFails)
  /\ SF_vars(SteeringSucceeds)

CommissioningSpec == CommissioningInit /\ [][CommissioningNext]_vars /\ Fairness

-----------------------------------------------------------------------------
(***************************************************************************)
(* Properties                                                              *)
(***************************************************************************)

\* Every variable has its type.
CommissioningTypeOK ==
  /\ member \in BOOLEAN /\ connected \in BOOLEAN
  /\ bdb \in {"off", "idle", "init", "steering"}
  /\ signals \in Seq([type : SignalTypes, ok : BOOLEAN]) /\ alarms \in Nat
  /\ failedStart \in BOOLEAN /\ left \in BOOLEAN
  /\ errors \in Nat /\ leaves \in Nat /\ reboots \in Nat

\* A signal whose handler starts commissioning or schedules a start.
Continues(s) == \/ s.type \in {"SKIP_STARTUP", "DEVICE_FIRST_START",
                               "DEVICE_REBOOT"}
                \/ s.type = "STEERING" /\ ~s.ok
ContinuingSignals == {i \in DOMAIN signals : Continues(signals[i])}

\* The commissioning steps under way: running, scheduled or about to start.
StepsUnderWay == (IF bdb \in {"init", "steering"} THEN 1 ELSE 0)
                   + alarms + Cardinality(ContinuingSignals)

\* Commissioning is a single chain: never two steps under way at once, so that
\* no retry runs into a busy stack and retries do not multiply.
SingleChain == StepsUnderWay <= 1

\* The chain does not break while the device is off the network: unless it lost
\* its network or a start failed (the handler ignores both), another attempt is
\* under way.
NeverStranded ==
  bdb /= "off" /\ ~connected /\ ~left /\ ~failedStart => StepsUnderWay > 0

\* No start is refused because the stack is still busy with another one: the
\* handler would drop the refusal and the chain would break for no reason.
NeverStartsWhenBusy == [][failedStart' /\ ~failedStart => bdb = "idle"]_vars

\* The device gets onto a network in the end, however often steering fails,
\* unless it loses its network again or a start fails.
EventuallyConnected == ~connected ~> connected \/ left \/ failedStart

Phase == IF bdb = "off" THEN "down" ELSE IF connected THEN "on"
         ELSE IF StepsUnderWay > 0 THEN "trying" ELSE "off"

Retry == INSTANCE JoinRetry WITH phase <- Phase

\* For its user the device tries until it is on a network: the handler gives up
\* in no step but a failed start, and nothing but a restart revives the chain.
ImplementsJoinRetry == Retry!JoinSpec
=============================================================================
