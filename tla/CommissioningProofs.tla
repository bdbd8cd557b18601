------------------------- MODULE CommissioningProofs -------------------------
(***************************************************************************)
(* What holds of Commissioning for any bounds: commissioning is one chain  *)
(* of attempts, it breaks only where the code lets it break, and to the    *)
(* user of the lock it is the retrying that JoinRetry specifies.           *)
(***************************************************************************)
EXTENDS Commissioning, FiniteSetTheorems, TLAPS

Busy == bdb \in {"init", "steering"}

\* Of the signals s, none continues the chain; at most one does.
NoneContinues(s)   == \A i \in DOMAIN s : ~Continues(s[i])
AtMostOneContinues(s) ==
  \A i, j \in DOMAIN s : Continues(s[i]) /\ Continues(s[j]) => i = j

OffIsQuiet == bdb = "off" => signals = <<>> /\ alarms = 0 /\ ~connected

\* The chain is in one place: in the stack, in an alarm or in a queued signal.
OneLink ==
  /\ AtMostOneContinues(signals)
  /\ Busy => alarms = 0 /\ NoneContinues(signals)
  /\ alarms > 0 => alarms = 1 /\ NoneContinues(signals)

UnderWay == Busy \/ alarms > 0 \/ ~NoneContinues(signals)

Unbroken == bdb /= "off" /\ ~connected /\ ~left /\ ~failedStart => UnderWay

CommissioningInv == CommissioningTypeOK /\ OffIsQuiet /\ OneLink /\ Unbroken

Signals == [type : SignalTypes, ok : BOOLEAN]

-----------------------------------------------------------------------------
(***************************************************************************)
(* The queue of signals                                                    *)
(***************************************************************************)

\* What a handler leaves of the queue: if it took a signal that continues the
\* chain none is left that does, otherwise it makes no difference to the chain.
LEMMA Taken ==
  ASSUME NEW s \in Seq(Signals), s /= <<>>, AtMostOneContinues(s)
  PROVE  /\ Tail(s) \in Seq(Signals) /\ AtMostOneContinues(Tail(s))
         /\ Continues(Head(s)) => ~NoneContinues(s) /\ NoneContinues(Tail(s))
         /\ ~Continues(Head(s)) => (NoneContinues(s) <=> NoneContinues(Tail(s)))
<1>1. /\ Tail(s) \in Seq(Signals) /\ Len(s) \in Nat /\ Len(s) >= 1
      /\ Len(Tail(s)) = Len(s) - 1 /\ Head(s) = s[1]
      /\ DOMAIN s = 1 .. Len(s) /\ DOMAIN Tail(s) = 1 .. Len(Tail(s))
  OBVIOUS
<1>2. \A i \in DOMAIN Tail(s) : i + 1 \in DOMAIN s /\ Tail(s)[i] = s[i + 1]
  BY <1>1
<1>3. \A i \in DOMAIN s : i /= 1 => i - 1 \in DOMAIN Tail(s) /\ Tail(s)[i - 1] = s[i]
  BY <1>1
<1>4. AtMostOneContinues(Tail(s))
  <2> SUFFICES ASSUME NEW i \in DOMAIN Tail(s), NEW j \in DOMAIN Tail(s),
                      Continues(Tail(s)[i]), Continues(Tail(s)[j])
               PROVE  i = j
    BY DEF AtMostOneContinues
  <2>1. i + 1 = j + 1
    BY <1>2 DEF AtMostOneContinues
  <2> QED  BY <2>1, <1>1
<1>5. ASSUME Continues(Head(s))
      PROVE  ~NoneContinues(s) /\ NoneContinues(Tail(s))
  <2>1. 1 \in DOMAIN s /\ Continues(s[1])
    BY <1>1, <1>5
  <2>2. ASSUME NEW i \in DOMAIN Tail(s), Continues(Tail(s)[i])  PROVE FALSE
    <3>1. i + 1 = 1
      BY <2>1, <2>2, <1>2 DEF AtMostOneContinues
    <3> QED  BY <3>1, <1>1
  <2> QED  BY <2>1, <2>2 DEF NoneContinues
<1>6. ASSUME ~Continues(Head(s))
      PROVE  NoneContinues(s) <=> NoneContinues(Tail(s))
  BY <1>1, <1>2, <1>3, <1>6 DEF NoneContinues
<1> QED  BY <1>1, <1>4, <1>5, <1>6

\* What the queue is after a signal was added to it.
LEMMA Queued ==
  ASSUME NEW s \in Seq(Signals), NEW x \in Signals, AtMostOneContinues(s)
  PROVE  /\ Append(s, x) \in Seq(Signals)
         /\ Continues(x) /\ NoneContinues(s) => AtMostOneContinues(Append(s, x))
         /\ Continues(x) => ~NoneContinues(Append(s, x))
         /\ ~Continues(x) => /\ AtMostOneContinues(Append(s, x))
                             /\ NoneContinues(s) <=> NoneContinues(Append(s, x))
<1> DEFINE t == Append(s, x)
<1>1. /\ t \in Seq(Signals) /\ Len(s) \in Nat /\ Len(t) = Len(s) + 1
      /\ DOMAIN s = 1 .. Len(s) /\ DOMAIN t = 1 .. Len(t)
      /\ t[Len(t)] = x
  OBVIOUS
<1>2. \A i \in DOMAIN s : i \in DOMAIN t /\ t[i] = s[i]
  BY <1>1
<1>3. \A i \in DOMAIN t : i = Len(t) \/ i \in DOMAIN s
  BY <1>1
<1>4. Len(t) \in DOMAIN t
  BY <1>1
<1> HIDE DEF t
<1> QED  BY <1>1, <1>2, <1>3, <1>4 DEF AtMostOneContinues, NoneContinues

\* What the handled signals and the added ones are to the chain.
LEMMA Kinds ==
  /\ \A ok \in BOOLEAN, type \in SignalTypes :
       Signal(type, ok) \in Signals /\ Signal(type, ok).type = type
                                    /\ Signal(type, ok).ok = ok
  /\ \A ok \in BOOLEAN : /\ Continues(Signal("SKIP_STARTUP", ok))
                         /\ Continues(Signal("DEVICE_FIRST_START", ok))
                         /\ Continues(Signal("DEVICE_REBOOT", ok))
  /\ Continues(Signal("STEERING", FALSE)) /\ ~Continues(Signal("STEERING", TRUE))
  /\ ~Continues(Signal("OTHER", TRUE))
BY DEF Signal, Signals, SignalTypes, Continues

-----------------------------------------------------------------------------
(***************************************************************************)
(* The invariant                                                           *)
(***************************************************************************)

\* The invariant holds when the device is switched on.
LEMMA InvInit == CommissioningInit => CommissioningInv
<1> SUFFICES ASSUME CommissioningInit  PROVE CommissioningInv
  OBVIOUS
<1>1. bdb = "off" /\ signals = <<>> /\ alarms = 0 /\ ~connected
  BY DEF CommissioningInit
<1>2. signals \in Seq(Signals) /\ \A i \in DOMAIN signals : FALSE
  BY <1>1
<1>3. OffIsQuiet /\ OneLink /\ Unbroken
  BY <1>1, <1>2 DEF OffIsQuiet, OneLink, Unbroken, AtMostOneContinues, NoneContinues, Busy
<1>4. CommissioningTypeOK
  BY <1>2 DEF CommissioningInit, CommissioningTypeOK, Signals
<1> QED  BY <1>3, <1>4 DEF CommissioningInv

\* A handler that takes a signal which continues the chain finds it nowhere
\* else: the stack is idle and no alarm is set, when it starts the next step.
LEMMA HandlerFindsIdle ==
  ASSUME CommissioningInv, NEW types, Handles(types), Continues(Head(signals))
  PROVE  bdb = "idle" /\ alarms = 0 /\ NoneContinues(signals')
                      /\ AtMostOneContinues(signals')
<1>1. signals \in Seq(Signals) /\ signals /= <<>> /\ AtMostOneContinues(signals)
  BY DEF CommissioningInv, CommissioningTypeOK, OneLink, Handles, Signals
<1>2. ~NoneContinues(signals) /\ NoneContinues(Tail(signals))
      /\ AtMostOneContinues(Tail(signals))
  BY <1>1, Taken
<1> QED
  BY <1>1, <1>2 DEF CommissioningInv, CommissioningTypeOK, OffIsQuiet, OneLink, Busy,
                    Handles

\* An alarm that fires finds the stack idle and no signal that continues.
LEMMA AlarmFindsIdle ==
  ASSUME CommissioningInv, AlarmFires
  PROVE  bdb = "idle" /\ alarms' = 0 /\ NoneContinues(signals)
BY DEF CommissioningInv, CommissioningTypeOK, OffIsQuiet, OneLink, Busy, AlarmFires

\* A start from an idle stack: the chain goes on there, or the start has failed.
LEMMA StartFromIdle ==
  ASSUME CommissioningInv, NEW mode \in {"init", "steering"}, Start(mode), bdb = "idle"
  PROVE  \/ bdb' = mode /\ UNCHANGED <<failedStart, errors>>
         \/ bdb' = "idle" /\ failedStart' = TRUE /\ errors' = errors + 1
BY DEF Start

\* So the chain is whole after a start that finds nothing else of it.
LEMMA ChainAfterStart ==
  ASSUME CommissioningInv, NEW mode \in {"init", "steering"}, Start(mode),
         bdb = "idle", alarms' = 0, NoneContinues(signals'), AtMostOneContinues(signals')
  PROVE  (OffIsQuiet /\ OneLink /\ Unbroken)'
<1>1. CASE bdb' = mode
  <2>1. bdb' /= "off" /\ Busy'
    BY <1>1 DEF Busy
  <2> QED  BY <2>1 DEF OffIsQuiet, OneLink, Unbroken, UnderWay
<1>2. CASE bdb' = "idle" /\ failedStart' = TRUE
  <2>1. bdb' /= "off" /\ failedStart'
    BY <1>2
  <2> QED  BY <2>1 DEF OffIsQuiet, OneLink, Unbroken
<1> QED  BY <1>1, <1>2, StartFromIdle

\* Every step of the handler, the alarm and the stack keeps the types.
LEMMA TypeStep ==
  CommissioningInv /\ [CommissioningNext]_vars => CommissioningTypeOK'
<1> SUFFICES ASSUME CommissioningInv, [CommissioningNext]_vars
             PROVE  CommissioningTypeOK'
  OBVIOUS
<1>0. /\ signals \in Seq(Signals) /\ bdb \in {"off", "idle", "init", "steering"}
      /\ alarms \in Nat /\ errors \in Nat /\ leaves \in Nat /\ reboots \in Nat
      /\ member \in BOOLEAN /\ connected \in BOOLEAN
      /\ failedStart \in BOOLEAN /\ left \in BOOLEAN
  BY DEF CommissioningInv, CommissioningTypeOK, Signals
<1>1. signals' \in Seq(Signals)
  <2>1. \A type \in SignalTypes, ok \in BOOLEAN : Signal(type, ok) \in Signals
    BY Kinds
  <2>2. \A x \in Signals : Append(signals, x) \in Seq(Signals) /\ <<x>> \in Seq(Signals)
    BY <1>0
  <2>3. signals /= <<>> => Tail(signals) \in Seq(Signals)
    BY <1>0
  <2>4. <<>> \in Seq(Signals)
    OBVIOUS
  <2>5. \/ signals' \in {signals, <<>>}
        \/ signals /= <<>> /\ signals' = Tail(signals)
        \/ \E type \in SignalTypes, ok \in BOOLEAN :
             \/ signals' = Append(signals, Signal(type, ok))
             \/ signals' = <<Signal(type, ok)>>
    BY DEF CommissioningNext, vars, stackVars, historyVars, StackStart, HandleSkipStartup,
           HandleDeviceStart, HandleSteering, HandleOther, AlarmFires, InitFinishes,
           SteeringSucceeds, SteeringFails, LoseNetwork, Reboot, Handles, SignalTypes
  <2> QED  BY <1>0, <2>1, <2>2, <2>3, <2>4, <2>5
<1>2. bdb' \in {"off", "idle", "init", "steering"}
  BY <1>0
  DEF CommissioningNext, vars, stackVars, historyVars, StackStart,
      HandleSkipStartup, HandleDeviceStart, HandleSteering, HandleOther, AlarmFires,
      InitFinishes, SteeringSucceeds, SteeringFails, LoseNetwork, Reboot, Start
<1>3. \/ alarms' = alarms \/ alarms' = alarms + 1 \/ alarms' = 0
      \/ alarms > 0 /\ alarms' = alarms - 1
  BY ZenonT(60)
  DEF CommissioningNext, vars, stackVars, historyVars, StackStart, HandleSkipStartup,
      HandleDeviceStart, HandleSteering, HandleOther, AlarmFires, InitFinishes,
      SteeringSucceeds, SteeringFails, LoseNetwork, Reboot, Start, Joins
<1>4. errors' = errors \/ errors' = errors + 1
  BY ZenonT(60)
  DEF CommissioningNext, vars, stackVars, historyVars, StackStart, HandleSkipStartup,
      HandleDeviceStart, HandleSteering, HandleOther, AlarmFires, InitFinishes,
      SteeringSucceeds, SteeringFails, LoseNetwork, Reboot, Start, Joins
<1>5. leaves' = leaves \/ leaves' = leaves + 1
  BY ZenonT(60)
  DEF CommissioningNext, vars, stackVars, historyVars, StackStart, HandleSkipStartup,
      HandleDeviceStart, HandleSteering, HandleOther, AlarmFires, InitFinishes,
      SteeringSucceeds, SteeringFails, LoseNetwork, Reboot, Start, Joins
<1>6. reboots' = reboots \/ reboots' = reboots + 1
  BY ZenonT(60)
  DEF CommissioningNext, vars, stackVars, historyVars, StackStart, HandleSkipStartup,
      HandleDeviceStart, HandleSteering, HandleOther, AlarmFires, InitFinishes,
      SteeringSucceeds, SteeringFails, LoseNetwork, Reboot, Start, Joins
<1>7. alarms' \in Nat /\ errors' \in Nat /\ leaves' \in Nat /\ reboots' \in Nat
  BY <1>0, <1>3, <1>4, <1>5, <1>6
<1>8. member' \in BOOLEAN /\ connected' \in BOOLEAN
  BY <1>0
  DEF CommissioningNext, vars, stackVars, historyVars, StackStart, HandleSkipStartup,
      HandleDeviceStart, HandleSteering, HandleOther, AlarmFires,
      InitFinishes, SteeringSucceeds, SteeringFails, LoseNetwork, Reboot, Joins
<1>9. failedStart' \in BOOLEAN /\ left' \in BOOLEAN
  BY <1>0
  DEF CommissioningNext, vars, stackVars, historyVars, StackStart, HandleSkipStartup,
      HandleDeviceStart, HandleSteering, HandleOther, AlarmFires,
      InitFinishes, SteeringSucceeds, SteeringFails, LoseNetwork, Reboot, Start, Joins
<1> QED  BY <1>1, <1>2, <1>7, <1>8, <1>9 DEF CommissioningTypeOK, Signals

\* Every step keeps one link of the chain of attempts, and no second one.
LEMMA ChainStep ==
  CommissioningInv /\ [CommissioningNext]_vars => (OffIsQuiet /\ OneLink /\ Unbroken)'
<1> SUFFICES ASSUME CommissioningInv, [CommissioningNext]_vars
             PROVE  (OffIsQuiet /\ OneLink /\ Unbroken)'
  OBVIOUS
<1>0. /\ signals \in Seq(Signals) /\ alarms \in Nat /\ AtMostOneContinues(signals)
      /\ bdb \in {"off", "idle", "init", "steering"}
  BY DEF CommissioningInv, CommissioningTypeOK, OneLink, Signals
<1>1. CASE StackStart
  <2>1. /\ signals' = <<Signal("SKIP_STARTUP", TRUE)>> /\ bdb' = "idle"
        /\ alarms' = 0
    BY <1>1 DEF StackStart, CommissioningInv, OffIsQuiet
  <2>2. 1 \in DOMAIN signals' /\ \A i \in DOMAIN signals' : i = 1
    BY <2>1
  <2>3. Continues(signals'[1])
    BY <2>1, Kinds
  <2>4. AtMostOneContinues(signals') /\ ~NoneContinues(signals')
    BY <2>2, <2>3 DEF AtMostOneContinues, NoneContinues
  <2>5. ~Busy' /\ bdb' /= "off"
    BY <2>1 DEF Busy
  <2> QED
    BY <2>1, <2>4, <2>5 DEF OffIsQuiet, OneLink, Unbroken, UnderWay
<1>2. CASE HandleSkipStartup
  <2>1. Handles({"SKIP_STARTUP"}) /\ Start("init")
        /\ UNCHANGED alarms
    BY <1>2 DEF HandleSkipStartup
  <2>2. Continues(Head(signals))
    BY <2>1 DEF Handles, Continues
  <2>3. /\ bdb = "idle" /\ alarms = 0 /\ NoneContinues(signals')
        /\ AtMostOneContinues(signals')
    BY <2>1, <2>2, HandlerFindsIdle
  <2> QED
    BY <2>1, <2>3, ChainAfterStart
<1>3. CASE HandleDeviceStart
  <2>1. Handles({"DEVICE_FIRST_START", "DEVICE_REBOOT"}) /\ Start("steering")
        /\ UNCHANGED alarms
    BY <1>3 DEF HandleDeviceStart
  <2>2. Continues(Head(signals))
    BY <2>1 DEF Handles, Continues
  <2>3. /\ bdb = "idle" /\ alarms = 0 /\ NoneContinues(signals')
        /\ AtMostOneContinues(signals')
    BY <2>1, <2>2, HandlerFindsIdle
  <2> QED
    BY <2>1, <2>3, ChainAfterStart
<1>4. CASE HandleSteering
  <2>1. /\ Handles({"STEERING"}) /\ UNCHANGED <<connected, bdb, left, failedStart>>
        /\ alarms' = IF Head(signals).ok THEN alarms ELSE alarms + 1
    BY <1>4 DEF HandleSteering, historyVars
  <2>2. Continues(Head(signals)) <=> ~Head(signals).ok
    BY <2>1 DEF Handles, Continues
  <2>3. CASE Head(signals).ok
    <3>1. /\ AtMostOneContinues(signals') /\ bdb /= "off"
          /\ NoneContinues(signals) <=> NoneContinues(signals')
      BY <1>0, <2>1, <2>2, <2>3, Taken DEF Handles, CommissioningInv, OffIsQuiet
    <3> QED
      BY <3>1, <2>1, <2>3
      DEF CommissioningInv, OffIsQuiet, OneLink, Unbroken, UnderWay, Busy
  <2>4. CASE ~Head(signals).ok
    <3>1. /\ bdb = "idle" /\ alarms = 0 /\ NoneContinues(signals')
          /\ AtMostOneContinues(signals')
      BY <2>1, <2>2, <2>4, HandlerFindsIdle
    <3> QED
      BY <3>1, <2>1, <2>4 DEF OffIsQuiet, OneLink, Unbroken, UnderWay, Busy
  <2> QED  BY <2>3, <2>4
<1>5. CASE HandleOther
  <2>1. Handles({"OTHER"}) /\ UNCHANGED <<connected, bdb, alarms, left, failedStart>>
    BY <1>5 DEF HandleOther, historyVars
  <2>2. ~Continues(Head(signals))
    BY <2>1 DEF Handles, Continues
  <2>3. /\ AtMostOneContinues(signals') /\ bdb /= "off"
        /\ NoneContinues(signals) <=> NoneContinues(signals')
    BY <1>0, <2>1, <2>2, Taken DEF Handles, CommissioningInv, OffIsQuiet
  <2> QED
    BY <2>1, <2>3 DEF CommissioningInv, OffIsQuiet, OneLink, Unbroken, UnderWay, Busy
<1>6. CASE AlarmFires
  <2>1. bdb = "idle" /\ alarms' = 0 /\ NoneContinues(signals)
    BY <1>6, AlarmFindsIdle
  <2>2. Start("steering") /\ UNCHANGED signals
    BY <1>6 DEF AlarmFires
  <2> QED
    BY <1>0, <2>1, <2>2, ChainAfterStart
<1>7. CASE InitFinishes
  <2>1. PICK ok \in BOOLEAN, type \in {"DEVICE_FIRST_START", "DEVICE_REBOOT"} :
          signals' = Append(signals, Signal(type, ok))
    BY <1>7 DEF InitFinishes
  <2>2. Signal(type, ok) \in Signals /\ Continues(Signal(type, ok))
    BY Kinds DEF SignalTypes
  <2>3. alarms' = 0 /\ bdb' = "idle" /\ NoneContinues(signals)
    BY <1>7 DEF InitFinishes, CommissioningInv, OneLink, Busy
  <2>4. AtMostOneContinues(signals') /\ ~NoneContinues(signals')
    BY <1>0, <2>1, <2>2, <2>3, Queued
  <2> QED
    BY <2>3, <2>4 DEF OffIsQuiet, OneLink, Unbroken, UnderWay, Busy
<1>8. CASE SteeringSucceeds
  <2>1. signals' = Append(signals, Signal("STEERING", TRUE))
    BY <1>8 DEF SteeringSucceeds
  <2>2. /\ alarms' = 0 /\ bdb' = "idle" /\ connected' = TRUE
    BY <1>8 DEF SteeringSucceeds, Joins, CommissioningInv, OneLink, Busy
  <2>3. AtMostOneContinues(signals')
    BY <1>0, <2>1, Kinds, Queued DEF SignalTypes
  <2> QED
    BY <2>2, <2>3 DEF OffIsQuiet, OneLink, Unbroken, UnderWay, Busy
<1>9. CASE SteeringFails
  <2>1. signals' = Append(signals, Signal("STEERING", FALSE))
    BY <1>9 DEF SteeringFails
  <2>2. alarms' = 0 /\ bdb' = "idle" /\ NoneContinues(signals)
    BY <1>9 DEF SteeringFails, CommissioningInv, OneLink, Busy
  <2>3. AtMostOneContinues(signals') /\ ~NoneContinues(signals')
    BY <1>0, <2>1, <2>2, Kinds, Queued DEF SignalTypes
  <2> QED
    BY <2>2, <2>3 DEF OffIsQuiet, OneLink, Unbroken, UnderWay, Busy
<1>10. CASE LoseNetwork
  <2>1. signals' = Append(signals, Signal("OTHER", TRUE))
    BY <1>10 DEF LoseNetwork
  <2>2. /\ UNCHANGED <<bdb, alarms>> /\ left' = TRUE /\ bdb /= "off"
    BY <1>10 DEF LoseNetwork, CommissioningInv, OffIsQuiet
  <2>3. /\ AtMostOneContinues(signals')
        /\ NoneContinues(signals) <=> NoneContinues(signals')
    BY <1>0, <2>1, Kinds, Queued DEF SignalTypes
  <2> QED
    BY <2>2, <2>3 DEF CommissioningInv, OffIsQuiet, OneLink, Unbroken, UnderWay, Busy
<1>11. CASE Reboot
  <2>1. signals' = <<>> /\ alarms' = 0 /\ bdb' = "off" /\ connected' = FALSE
    BY <1>11 DEF Reboot
  <2>2. \A i \in DOMAIN signals' : FALSE
    BY <2>1
  <2> QED
    BY <2>1, <2>2 DEF OffIsQuiet, OneLink, Unbroken, Busy, AtMostOneContinues,
                      NoneContinues
<1>12. CASE UNCHANGED vars
  BY <1>12 DEF vars, stackVars, historyVars, CommissioningInv, OffIsQuiet, OneLink,
               Unbroken, UnderWay, Busy
<1> QED
  BY <1>1, <1>2, <1>3, <1>4, <1>5, <1>6, <1>7, <1>8, <1>9, <1>10, <1>11, <1>12
  DEF CommissioningNext

\* The inductive invariant of commissioning.
LEMMA Invariance == CommissioningSpec => []CommissioningInv
<1>1. CommissioningInit => CommissioningInv
  BY InvInit
<1>2. CommissioningInv /\ [CommissioningNext]_vars => CommissioningInv'
  BY TypeStep, ChainStep DEF CommissioningInv
<1> QED  BY <1>1, <1>2, PTL DEF CommissioningSpec

-----------------------------------------------------------------------------
(***************************************************************************)
(* The theorems                                                            *)
(***************************************************************************)

\* Every variable has its type, in every state the device can reach.
THEOREM Typing == CommissioningSpec => []CommissioningTypeOK
BY Invariance, PTL DEF CommissioningInv

\* The sum that SingleChain bounds, in terms of the one link of the chain.
LEMMA CountOfUnderWay ==
  CommissioningInv => StepsUnderWay <= 1 /\ (StepsUnderWay > 0 <=> UnderWay)
<1> SUFFICES ASSUME CommissioningInv
             PROVE  StepsUnderWay <= 1 /\ (StepsUnderWay > 0 <=> UnderWay)
  OBVIOUS
<1>1. alarms \in Nat /\ OneLink
  BY DEF CommissioningInv, CommissioningTypeOK
<1>2. CASE NoneContinues(signals)
  <2>1. ContinuingSignals = {}
    BY <1>2 DEF ContinuingSignals, NoneContinues
  <2>2. Cardinality(ContinuingSignals) = 0
    BY <2>1, FS_EmptySet
  <2> QED
    BY <1>1, <1>2, <2>2 DEF OneLink, StepsUnderWay, UnderWay, Busy
<1>3. CASE ~NoneContinues(signals)
  <2>1. PICK i \in DOMAIN signals : Continues(signals[i])
    BY <1>3 DEF NoneContinues
  <2>2. ContinuingSignals = {i}
    BY <1>1, <2>1 DEF ContinuingSignals, OneLink, AtMostOneContinues
  <2>3. Cardinality(ContinuingSignals) = 1
    BY <2>2, FS_Singleton
  <2> QED
    BY <1>1, <1>3, <2>3 DEF OneLink, StepsUnderWay, UnderWay, Busy
<1> QED  BY <1>2, <1>3

\* However signals, alarms and restarts interleave, commissioning is a single
\* chain of attempts: retries do not multiply.
THEOREM SingleChainHolds == CommissioningSpec => []SingleChain
<1>1. CommissioningInv => SingleChain
  BY CountOfUnderWay DEF SingleChain
<1> QED  BY <1>1, Invariance, PTL

\* The chain breaks only where the code drops something: a failed start or the
\* loss of the network.
THEOREM NeverStrandedHolds == CommissioningSpec => []NeverStranded
<1>1. CommissioningInv => NeverStranded
  BY CountOfUnderWay DEF CommissioningInv, Unbroken, NeverStranded
<1> QED  BY <1>1, Invariance, PTL

\* No step drops the refusal of a busy stack, which the handler never checks for.
THEOREM NeverStartsWhenBusyHolds == CommissioningSpec => NeverStartsWhenBusy
<1>1. CommissioningInv /\ [CommissioningNext]_vars
        => [failedStart' /\ ~failedStart => bdb = "idle"]_vars
  <2> SUFFICES ASSUME CommissioningInv, CommissioningNext, failedStart', ~failedStart
               PROVE  bdb = "idle"
    OBVIOUS
  <2>1. CASE HandleSkipStartup
    <3>1. Handles({"SKIP_STARTUP"}) /\ Continues(Head(signals))
      BY <2>1 DEF HandleSkipStartup, Handles, Continues
    <3> QED  BY <3>1, HandlerFindsIdle
  <2>2. CASE HandleDeviceStart
    <3>1. Handles({"DEVICE_FIRST_START", "DEVICE_REBOOT"}) /\ Continues(Head(signals))
      BY <2>2 DEF HandleDeviceStart, Handles, Continues
    <3> QED  BY <3>1, HandlerFindsIdle
  <2>3. CASE AlarmFires
    BY <2>3, AlarmFindsIdle
  <2> QED
    BY <2>1, <2>2, <2>3
    DEF CommissioningNext, StackStart, HandleSteering, HandleOther, InitFinishes,
        SteeringSucceeds, SteeringFails, LoseNetwork, Reboot, Joins, historyVars
<1> QED  BY <1>1, Invariance, PTL DEF CommissioningSpec, NeverStartsWhenBusy

-----------------------------------------------------------------------------
(***************************************************************************)
(* The refinement of JoinRetry, without its fairness                       *)
(***************************************************************************)

\* A step that changes neither the phase nor a counter is a stutter of JoinRetry.
LEMMA SamePhase ==
  ASSUME CommissioningInv, CommissioningInv', UNCHANGED <<connected, errors, leaves>>,
         bdb = "off" <=> bdb' = "off", UnderWay <=> UnderWay'
  PROVE  UNCHANGED Retry!joinVars
<1>1. (StepsUnderWay > 0 <=> UnderWay)'
  BY CountOfUnderWay, PTL
<1>2. Phase' = Phase
  BY <1>1, CountOfUnderWay DEF Phase
<1> QED  BY <1>2 DEF Retry!joinVars

\* The phase, told from the parts of the chain.
LEMMA PhaseByParts ==
  CommissioningInv => Phase = IF bdb = "off" THEN "down" ELSE IF connected THEN "on"
                              ELSE IF UnderWay THEN "trying" ELSE "off"
BY CountOfUnderWay DEF Phase

\* A start that finds nothing else of the chain goes on, or it fails: the device
\* gives up, unless it is on a network anyway.
LEMMA StartRefines ==
  ASSUME CommissioningInv, CommissioningInv', NEW mode \in {"init", "steering"},
         Start(mode), bdb = "idle", UnderWay, alarms' = 0, NoneContinues(signals'),
         UNCHANGED <<connected, leaves>>
  PROVE  [Retry!JoinNext]_(Retry!joinVars)
<1>1. CASE bdb' = mode /\ UNCHANGED <<failedStart, errors>>
  <2>1. UnderWay' /\ bdb' /= "off"
    BY <1>1 DEF UnderWay, Busy
  <2> QED  BY <1>1, <2>1, SamePhase
<1>2. CASE bdb' = "idle" /\ failedStart' = TRUE /\ errors' = errors + 1
  <2>1. ~UnderWay'
    BY <1>2 DEF UnderWay, Busy
  <2>2. Phase = IF connected THEN "on" ELSE "trying"
    BY PhaseByParts
  <2>3. (CommissioningInv => Phase = IF bdb = "off" THEN "down" ELSE
           IF connected THEN "on" ELSE IF UnderWay THEN "trying" ELSE "off")'
    BY PhaseByParts, PTL
  <2>4. Phase' = IF connected THEN "on" ELSE "off"
    BY <1>2, <2>1, <2>3
  <2> QED  BY <1>2, <2>2, <2>4 DEF Retry!JoinNext, Retry!GiveUp, Retry!StartFails
<1> QED  BY <1>1, <1>2, StartFromIdle

\* Every step of Commissioning is a step of JoinRetry or changes nothing there.
LEMMA StepRefines ==
  CommissioningInv /\ CommissioningInv' /\ [CommissioningNext]_vars
    => [Retry!JoinNext]_(Retry!joinVars)
<1> SUFFICES ASSUME CommissioningInv, CommissioningInv', [CommissioningNext]_vars
             PROVE  [Retry!JoinNext]_(Retry!joinVars)
  OBVIOUS
<1>0. /\ signals \in Seq(Signals) /\ AtMostOneContinues(signals)
      /\ OneLink /\ OffIsQuiet /\ CommissioningTypeOK
  BY DEF CommissioningInv, CommissioningTypeOK, OneLink, Signals
<1>before. Phase = IF bdb = "off" THEN "down" ELSE IF connected THEN "on"
              ELSE IF UnderWay THEN "trying" ELSE "off"
  BY PhaseByParts
<1>after. Phase' = IF bdb' = "off" THEN "down" ELSE IF connected' THEN "on"
               ELSE IF UnderWay' THEN "trying" ELSE "off"
  <2>1. (CommissioningInv => Phase = IF bdb = "off" THEN "down" ELSE
           IF connected THEN "on" ELSE IF UnderWay THEN "trying" ELSE "off")'
    BY PhaseByParts, PTL
  <2> QED  BY <2>1
<1>1. CASE StackStart
  <2>1. /\ bdb = "off" /\ bdb' = "idle" /\ ~connected /\ ~connected'
        /\ UNCHANGED <<errors, leaves>> /\ signals' = <<Signal("SKIP_STARTUP", TRUE)>>
    BY <1>0, <1>1 DEF StackStart, OffIsQuiet, historyVars
  <2>2. 1 \in DOMAIN signals' /\ signals'[1] = Signal("SKIP_STARTUP", TRUE)
    BY <2>1
  <2>3. UnderWay'
    BY <2>2, Kinds DEF UnderWay, NoneContinues
  <2>4. Phase = "down" /\ Phase' = "trying"
    BY <1>before, <1>after, <2>1, <2>3
  <2> QED  BY <2>1, <2>4 DEF Retry!JoinNext, Retry!Boot
<1>2. CASE HandleSkipStartup
  <2>1. Handles({"SKIP_STARTUP"}) /\ Start("init") /\ UNCHANGED <<alarms, connected, leaves>>
    BY <1>2 DEF HandleSkipStartup
  <2>2. Continues(Head(signals)) /\ signals /= <<>>
    BY <2>1 DEF Handles, Continues
  <2>3. UnderWay
    BY <1>0, <2>2, Taken DEF UnderWay
  <2> QED  BY <2>1, <2>2, <2>3, HandlerFindsIdle, StartRefines
<1>3. CASE HandleDeviceStart
  <2>1. /\ Handles({"DEVICE_FIRST_START", "DEVICE_REBOOT"}) /\ Start("steering")
        /\ UNCHANGED <<alarms, connected, leaves>>
    BY <1>3 DEF HandleDeviceStart
  <2>2. Continues(Head(signals)) /\ signals /= <<>>
    BY <2>1 DEF Handles, Continues
  <2>3. UnderWay
    BY <1>0, <2>2, Taken DEF UnderWay
  <2> QED  BY <2>1, <2>2, <2>3, HandlerFindsIdle, StartRefines
<1>4. CASE HandleSteering
  <2>1. /\ Handles({"STEERING"}) /\ UNCHANGED <<bdb, connected, errors, leaves>>
        /\ alarms' = IF Head(signals).ok THEN alarms ELSE alarms + 1
    BY <1>4 DEF HandleSteering, historyVars
  <2>2. Continues(Head(signals)) <=> ~Head(signals).ok
    BY <2>1 DEF Handles, Continues
  <2>3. CASE Head(signals).ok
    <3>1. NoneContinues(signals) <=> NoneContinues(signals')
      BY <1>0, <2>1, <2>2, <2>3, Taken DEF Handles
    <3>2. UnderWay <=> UnderWay'
      BY <2>1, <2>3, <3>1 DEF UnderWay, Busy
    <3> QED  BY <2>1, <3>2, SamePhase
  <2>4. CASE ~Head(signals).ok
    <3>1. ~NoneContinues(signals) /\ alarms = 0
      BY <1>0, <2>1, <2>2, <2>4, Taken, HandlerFindsIdle DEF Handles
    <3>2. UnderWay /\ alarms' > 0
      BY <2>1, <2>4, <3>1 DEF UnderWay
    <3>3. UnderWay'
      BY <3>2 DEF UnderWay
    <3> QED  BY <2>1, <3>2, <3>3, SamePhase
  <2> QED  BY <2>3, <2>4
<1>5. CASE HandleOther
  <2>1. Handles({"OTHER"}) /\ UNCHANGED <<bdb, alarms, connected, errors, leaves>>
    BY <1>5 DEF HandleOther, historyVars
  <2>2. ~Continues(Head(signals))
    BY <2>1 DEF Handles, Continues
  <2>3. NoneContinues(signals) <=> NoneContinues(signals')
    BY <1>0, <2>1, <2>2, Taken DEF Handles
  <2>4. UnderWay <=> UnderWay'
    BY <2>1, <2>3 DEF UnderWay, Busy
  <2> QED  BY <2>1, <2>4, SamePhase
<1>6. CASE AlarmFires
  <2>1. Start("steering") /\ UNCHANGED <<signals, connected, leaves>> /\ alarms > 0
    BY <1>6 DEF AlarmFires
  <2>2. UnderWay
    BY <2>1 DEF UnderWay
  <2> QED  BY <1>6, <2>1, <2>2, AlarmFindsIdle, StartRefines
<1>7. CASE InitFinishes
  <2>1. /\ bdb = "init" /\ bdb' = "idle" /\ UNCHANGED <<errors, leaves>>
        /\ connected' = connected \/ connected' = TRUE
    BY <1>7 DEF InitFinishes, Joins
  <2>2. UnderWay
    BY <2>1 DEF UnderWay, Busy
  <2>3. PICK ok \in BOOLEAN, type \in {"DEVICE_FIRST_START", "DEVICE_REBOOT"} :
          signals' = Append(signals, Signal(type, ok))
    BY <1>7 DEF InitFinishes
  <2>4. Signal(type, ok) \in Signals /\ Continues(Signal(type, ok))
    BY Kinds DEF SignalTypes
  <2>5. UnderWay'
    BY <1>0, <2>3, <2>4, Queued DEF UnderWay
  <2>6. /\ Phase = IF connected THEN "on" ELSE "trying"
        /\ Phase' = IF connected' THEN "on" ELSE "trying"
    BY <1>before, <1>after, <2>1, <2>2, <2>5
  <2> QED  BY <2>1, <2>6 DEF Retry!JoinNext, Retry!Join, Retry!joinVars
<1>8. CASE SteeringSucceeds
  <2>1. /\ bdb = "steering" /\ bdb' = "idle" /\ UNCHANGED <<errors, leaves>>
        /\ connected' = TRUE
    BY <1>8 DEF SteeringSucceeds, Joins
  <2>2. UnderWay
    BY <2>1 DEF UnderWay, Busy
  <2>3. Phase \in {"on", "trying"} /\ Phase' = "on"
    BY <1>before, <1>after, <2>1, <2>2
  <2> QED  BY <2>1, <2>3 DEF Retry!JoinNext, Retry!Join, Retry!joinVars
<1>9. CASE SteeringFails
  <2>1. /\ bdb = "steering" /\ bdb' = "idle" /\ UNCHANGED <<connected, errors, leaves>>
        /\ signals' = Append(signals, Signal("STEERING", FALSE))
    BY <1>9 DEF SteeringFails, historyVars
  <2>2. UnderWay
    BY <2>1 DEF UnderWay, Busy
  <2>3. UnderWay'
    BY <1>0, <2>1, Kinds, Queued DEF UnderWay, SignalTypes
  <2> QED  BY <2>1, <2>2, <2>3, SamePhase
<1>10. CASE LoseNetwork
  <2>1. /\ connected /\ ~connected' /\ UNCHANGED <<bdb, errors>> /\ leaves' = leaves + 1
        /\ bdb /= "off"
    BY <1>0, <1>10 DEF LoseNetwork, OffIsQuiet
  <2>2. Phase = "on" /\ Phase' \in {"trying", "off"}
    BY <1>before, <1>after, <2>1
  <2> QED  BY <2>1, <2>2 DEF Retry!JoinNext, Retry!Lose
<1>11. CASE Reboot
  <2>1. bdb /= "off" /\ bdb' = "off" /\ UNCHANGED <<errors, leaves>>
    BY <1>11 DEF Reboot
  <2>2. Phase /= "down" /\ Phase' = "down"
    BY <1>before, <1>after, <2>1
  <2> QED  BY <2>1, <2>2 DEF Retry!JoinNext, Retry!Restart
<1>12. CASE UNCHANGED vars
  <2>1. UNCHANGED <<bdb, signals, alarms, connected, errors, leaves>>
    BY <1>12 DEF vars, stackVars, historyVars
  <2>2. UnderWay <=> UnderWay'
    BY <2>1 DEF UnderWay, Busy
  <2> QED  BY <2>1, <2>2, SamePhase
<1> QED
  BY <1>1, <1>2, <1>3, <1>4, <1>5, <1>6, <1>7, <1>8, <1>9, <1>10, <1>11, <1>12
  DEF CommissioningNext

\* To its user the device does nothing but what JoinRetry allows: it gives up only
\* when a start fails, and comes back from that only by a restart.
THEOREM RetrySafety ==
  CommissioningSpec => Retry!JoinInit /\ [][Retry!JoinNext]_(Retry!joinVars)
<1>1. CommissioningInit => Retry!JoinInit
  BY DEF CommissioningInit, Phase, Retry!JoinInit
<1>2. CommissioningInv /\ CommissioningInv' /\ [CommissioningNext]_vars
        => [Retry!JoinNext]_(Retry!joinVars)
  BY StepRefines
<1> QED  BY <1>1, <1>2, Invariance, PTL DEF CommissioningSpec

=============================================================================
