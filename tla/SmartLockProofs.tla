-------------------------- MODULE SmartLockProofs --------------------------
(***************************************************************************)
(* Proofs about the whole device: boot, callbacks and restarts use the     *)
(* lock driver as it is meant to be used, so that all that is proved of it *)
(* and of the UART holds of the device; and whatever is restarted when,    *)
(* the lock hears key, wake-up and latch command before any opening.       *)
(***************************************************************************)
EXTENDS SmartLock, LockDriverProofs, FiniteSetTheorems

-----------------------------------------------------------------------------
\* Every step of the device is a step of the lock driver or leaves it alone.
LEMMA LockStep == [SmartNext]_allVars => [LockNext]_vars
<1> SUFFICES ASSUME [SmartNext]_allVars  PROVE [LockNext]_vars
  OBVIOUS
<1>1. CASE AppMain
  <2>1. InitLock(4, 5) /\ <<4, 5>> \in Pins /\ <<4, 5>>[1] = 4 /\ <<4, 5>>[2] = 5
    BY <1>1, BootPinsAssumption DEF AppMain
  <2>2. \E p \in Pins : InitLock(p[1], p[2])
    BY <2>1
  <2> QED  BY <2>2 DEF LockNext
<1>2. CASE CallLock
  BY <1>2 DEF CallLock, LockNext
<1>3. CASE CreateTask \/ StartStack \/ Loop \/ \E c \in Command : Arrive(c)
  BY <1>3 DEF CreateTask, StartStack, Loop, Arrive
<1>4. CASE Crash
  BY <1>4 DEF Crash, LockNext
<1>5. CASE Under(StartPause \/ Tick \/ DisableLatch \/ Return \/ UartRuns)
  BY <1>5 DEF Under, LockNext
<1>6. CASE UNCHANGED allVars
  BY <1>6 DEF allVars
<1> QED  BY <1>1, <1>2, <1>3, <1>4, <1>5, <1>6 DEF SmartNext

\* The safety part of UsesLockDriver: boot, callbacks and restarts make one call of
\* the lock driver at a time.
THEOREM UsesLockSafely == SmartSpec => LockInit /\ [][LockNext]_vars
<1>1. SmartInit => LockInit
  BY DEF SmartInit
<1> QED  BY <1>1, LockStep, PTL DEF SmartSpec

-----------------------------------------------------------------------------
(***************************************************************************)
(* The types                                                               *)
(***************************************************************************)

LockCalls == {"setKey", "turnOffAutomaticLatch", "open"}
\* The command being processed is still in the stack's buffer.
StepHasCommand == step /= "idle" => inbox /= <<>>

TaskTypeOK == todo \in Seq(LockCalls) /\ Zcl!ZclTypeOK /\ StepHasCommand
CallRecords == [call : {"setKey", "open"}, n : Nat]

\* The callbacks call nothing but open: no attribute passes the attribute handler.
LEMMA CallbackOpens ==
  ASSUME Zcl!ZclTypeOK, Zcl!RawCommandCallback \/ Zcl!ActionHandler
  PROVE  calls' = calls \/ calls' = Append(calls, [call |-> "open", n |-> Len(done)])
BY DEF Zcl!RawCommandCallback, Zcl!ActionHandler, Zcl!Call, Zcl!AttributeVerdict,
       Zcl!TypeAccepted, Zcl!ON_OFF_ID, Zcl!TYPE_BOOL

\* One step of the stack's loop keeps the types and leaves the task an opening to
\* make, or nothing.
LEMMA LoopTypes ==
  ASSUME TaskTypeOK, Loop
  PROVE  Zcl!ZclTypeOK' /\ todo' \in Seq({"open"})
<1> USE DEF TaskTypeOK
<1>1. /\ inbox \in Seq(Command) /\ done \in Seq(Command) /\ calls \in Seq(CallRecords)
      /\ Len(done) \in Nat
  BY DEF Zcl!ZclTypeOK, CallRecords
<1>2. ASSUME calls' = calls  PROVE todo' \in Seq({"open"})
  <2>1. Len(calls') - Len(calls) = 0
    BY <1>1, <1>2
  <2>2. todo' = [i \in 1 .. 0 |-> calls'[Len(calls) + i].call]
    BY <2>1 DEF Loop, NewCalls
  <2> QED  BY <2>2
<1>3. ASSUME calls' = Append(calls, [call |-> "open", n |-> Len(done)])
      PROVE  todo' \in Seq({"open"}) /\ calls' \in Seq(CallRecords)
  <2> DEFINE new == [call |-> "open", n |-> Len(done)]
  <2>1. new \in CallRecords /\ new.call = "open"
    BY <1>1 DEF CallRecords
  <2> HIDE DEF new
  <2>2. calls' = Append(calls, new)
    BY <1>3 DEF new
  <2>3. /\ Len(calls') - Len(calls) = 1 /\ calls' \in Seq(CallRecords)
        /\ \A i \in 1 .. 1 : calls'[Len(calls) + i] = new
    BY <1>1, <2>1, <2>2
  <2>4. todo' = [i \in 1 .. 1 |-> calls'[Len(calls) + i].call]
    BY <2>3 DEF Loop, NewCalls
  <2>5. todo' = [i \in 1 .. 1 |-> "open"]
    BY <2>1, <2>3, <2>4
  <2>6. [i \in 1 .. 1 |-> "open"] \in Seq({"open"})
    OBVIOUS
  <2> QED  BY <2>3, <2>5, <2>6
<1>4. CASE Zcl!Take
  <2>1. Append(done, Head(inbox)) \in Seq(Command)
    BY <1>1, <1>4 DEF Zcl!Take
  <2>2. Zcl!ZclTypeOK'
    BY <1>4, <2>1 DEF Zcl!Take, Zcl!ZclTypeOK
  <2> QED  BY <1>2, <1>4, <2>2 DEF Zcl!Take
<1>5. CASE Zcl!RawCommandCallback
  <2>1. calls' = calls \/ calls' = Append(calls, [call |-> "open", n |-> Len(done)])
    BY <1>5, CallbackOpens
  <2>2. calls' \in Seq(CallRecords) /\ todo' \in Seq({"open"})
    BY <1>1, <1>2, <1>3, <2>1
  <2> QED
    BY <1>5, <2>2 DEF Zcl!RawCommandCallback, Zcl!ZclTypeOK, CallRecords
<1>6. CASE Zcl!StackProcesses
  <2>1. cb'.id \in {"none", "SET_ATTR_VALUE", "DOOR_LOCK_LOCK_DOOR"}
    BY <1>6 DEF Zcl!StackProcesses, Zcl!StackCallbacks, Zcl!NoCallback
  <2>2. Zcl!ZclTypeOK'
    BY <1>6, <2>1 DEF Zcl!StackProcesses, Zcl!ZclTypeOK
  <2> QED  BY <1>2, <1>6, <2>2 DEF Zcl!StackProcesses
<1>7. CASE Zcl!ActionHandler
  <2>1. calls' = calls \/ calls' = Append(calls, [call |-> "open", n |-> Len(done)])
    BY <1>7, CallbackOpens
  <2>2. calls' \in Seq(CallRecords) /\ todo' \in Seq({"open"})
    BY <1>1, <1>2, <1>3, <2>1
  <2>3. inbox' \in Seq(Command)
    <3>1. inbox' = Tail(inbox)
      BY <1>7 DEF Zcl!ActionHandler
    <3>2. inbox /= <<>>
      BY <1>7 DEF Zcl!ActionHandler, StepHasCommand
    <3> QED  BY <1>1, <3>1, <3>2
  <2>4. verdict' \in {"none", "arrived", "wrong"}
    BY <1>7 DEF Zcl!ActionHandler, Zcl!AttributeVerdict, Zcl!ZclTypeOK
  <2> QED
    BY <1>7, <2>2, <2>3, <2>4
    DEF Zcl!ActionHandler, Zcl!ZclTypeOK, Zcl!NoCallback, CallRecords
<1> QED  BY <1>4, <1>5, <1>6, <1>7 DEF Loop

\* Positions of a sequence that are counted: how many, and one more.
LEMMA Positions ==
  ASSUME NEW n \in Nat, NEW S, S \subseteq 1 .. n
  PROVE  /\ IsFiniteSet(S) /\ Cardinality(S) \in Nat
         /\ Cardinality(S \cup {n + 1}) = Cardinality(S) + 1
<1>1. IsFiniteSet(1 .. n)
  BY FS_Interval
<1>2. IsFiniteSet(S)
  BY <1>1, FS_Subset
<1>3. n + 1 \notin S
  OBVIOUS
<1> QED  BY <1>2, <1>3, FS_AddElement, FS_CardinalityType

\* The openings on their way are counted.
LEMMA OnTheirWayNat == SmartTypeOK => OnTheirWay \in Nat
<1> SUFFICES ASSUME SmartTypeOK  PROVE OnTheirWay \in Nat
  OBVIOUS
<1>1. /\ todo \in Seq(LockCalls) /\ pending \in Seq(Byte) /\ fifo \in Seq(Byte)
  BY DEF SmartTypeOK, LockTypeOK, TypeOK, LockCalls
<1>2. OpeningsToMake \in Nat
  <2> DEFINE S == {i \in DOMAIN todo : todo[i] = "open"}
  <2>1. Len(todo) \in Nat /\ S \subseteq 1 .. Len(todo)
    BY <1>1, LenProperties
  <2>2. Cardinality(S) \in Nat
    BY <2>1, Positions
  <2> QED  BY <2>2 DEF OpeningsToMake
<1>3. ASSUME NEW s \in Seq(Byte), NEW n  PROVE OpenBytes(s, n) \in Nat
  <2> DEFINE S == {i \in DOMAIN s : s[i] = <<"open", n>>}
  <2>1. Len(s) \in Nat /\ S \subseteq 1 .. Len(s)
    BY LenProperties
  <2>2. Cardinality(S) \in Nat
    BY <2>1, Positions
  <2> QED  BY <2>2 DEF OpenBytes
<1>4. OpenBytes(pending, Size["open"]) \in Nat /\ OpenBytes(fifo, Size["open"]) \in Nat
  BY <1>1, <1>3
<1> QED  BY <1>2, <1>4 DEF OnTheirWay

\* Every step of the device keeps the types.
LEMMA SmartTypeStep ==
  SmartTypeOK /\ StepHasCommand /\ [SmartNext]_allVars => SmartTypeOK'
<1> SUFFICES ASSUME SmartTypeOK, StepHasCommand, [SmartNext]_allVars
             PROVE  SmartTypeOK'
  OBVIOUS
<1>1. LockTypeOK'
  BY LockStep, LockTypeStep DEF SmartTypeOK
<1>2. /\ TaskTypeOK /\ flashOk \in BOOLEAN
      /\ main \in {"reset", "init", "task", "loop", "noTask"}
  BY DEF SmartTypeOK, TaskTypeOK, LockCalls
<1> DEFINE Rest == /\ main \in {"reset", "init", "task", "loop", "noTask"}
                   /\ flashOk \in BOOLEAN /\ failed \in Nat /\ forgotten \in Nat
<1>3. Rest'
  <2>1. failed \in Nat /\ forgotten \in Nat /\ OnTheirWay \in Nat
    BY OnTheirWayNat DEF SmartTypeOK
  <2> QED
    BY <1>2, <2>1
    DEF SmartNext, AppMain, CallLock, CreateTask, StartStack, Loop, Crash, Arrive,
        Under, allVars, topVars, taskVars, fateVars
<1>4. ASSUME UNCHANGED zclVars  PROVE Zcl!ZclTypeOK'
  BY <1>2, <1>4 DEF zclVars, TaskTypeOK, Zcl!ZclTypeOK
<1>5. CASE AppMain
  <2>1. todo' = <<"setKey", "turnOffAutomaticLatch">> /\ UNCHANGED zclVars
    BY <1>5 DEF AppMain
  <2>2. todo' \in Seq(LockCalls)
    BY <2>1 DEF LockCalls
  <2> QED  BY <1>1, <1>3, <1>4, <2>1, <2>2 DEF SmartTypeOK, LockCalls
<1>6. CASE CallLock
  <2>1. todo /= <<>> /\ todo' = Tail(todo) /\ UNCHANGED zclVars
    BY <1>6 DEF CallLock
  <2>2. todo' \in Seq(LockCalls)
    BY <1>2, <2>1 DEF TaskTypeOK
  <2> QED  BY <1>1, <1>3, <1>4, <2>1, <2>2 DEF SmartTypeOK, LockCalls
<1>7. CASE CreateTask \/ StartStack
  <2>1. todo' = todo /\ UNCHANGED zclVars
    BY <1>7 DEF CreateTask, StartStack
  <2> QED  BY <1>1, <1>2, <1>3, <1>4, <2>1 DEF SmartTypeOK, TaskTypeOK, LockCalls
<1>8. CASE Loop
  <2>1. Zcl!ZclTypeOK' /\ todo' \in Seq({"open"})
    BY <1>2, <1>8, LoopTypes
  <2>2. todo' \in Seq(LockCalls)
    BY <2>1 DEF LockCalls
  <2> QED  BY <1>1, <1>3, <2>1, <2>2 DEF SmartTypeOK, LockCalls
<1>9. CASE Crash
  <2>1. todo' = <<>> /\ todo' \in Seq(LockCalls)
    BY <1>9 DEF Crash
  <2>2. Zcl!ZclTypeOK'
    BY <1>2, <1>9 DEF Crash, TaskTypeOK, Zcl!ZclTypeOK, Zcl!NoCallback
  <2> QED  BY <1>1, <1>3, <2>1, <2>2 DEF SmartTypeOK, LockCalls
<1>10. ASSUME NEW c \in Command, Arrive(c)  PROVE SmartTypeOK'
  <2>1. todo' = todo /\ Zcl!Arrive(c)
    BY <1>10 DEF Arrive, taskVars
  <2>2. inbox' \in Seq(Command)
    BY <1>2, <2>1 DEF TaskTypeOK, Zcl!Arrive, Zcl!ZclTypeOK
  <2>3. Zcl!ZclTypeOK'
    BY <1>2, <2>1, <2>2 DEF TaskTypeOK, Zcl!Arrive, Zcl!ZclTypeOK
  <2> QED  BY <1>1, <1>2, <1>3, <2>1, <2>3 DEF SmartTypeOK, TaskTypeOK, LockCalls
<1>11. CASE Under(StartPause \/ Tick \/ DisableLatch \/ Return \/ UartRuns)
            \/ UNCHANGED allVars
  <2>1. todo' = todo /\ UNCHANGED zclVars
    BY <1>11 DEF Under, allVars, topVars, taskVars
  <2> QED  BY <1>1, <1>2, <1>3, <1>4, <2>1 DEF SmartTypeOK, TaskTypeOK, LockCalls
<1> QED
  BY <1>5, <1>6, <1>7, <1>8, <1>9, <1>10, <1>11 DEF SmartNext

\* The command being processed stays in the buffer.
LEMMA StepHasCommandStep ==
  SmartTypeOK /\ StepHasCommand /\ [SmartNext]_allVars => StepHasCommand'
<1> SUFFICES ASSUME SmartTypeOK, StepHasCommand, [SmartNext]_allVars
             PROVE  StepHasCommand'
  OBVIOUS
<1>1. CASE Loop
  BY <1>1 DEF Loop, StepHasCommand, Zcl!Take, Zcl!RawCommandCallback,
              Zcl!StackProcesses, Zcl!ActionHandler
<1>2. ASSUME NEW c \in Command, Arrive(c)  PROVE StepHasCommand'
  <2>1. inbox' = Append(inbox, c) /\ inbox \in Seq(Command)
    BY <1>2 DEF Arrive, Zcl!Arrive, SmartTypeOK, Zcl!ZclTypeOK
  <2>2. inbox' /= <<>>
    BY <2>1
  <2> QED  BY <2>2 DEF StepHasCommand
<1>3. CASE Crash
  BY <1>3 DEF Crash, StepHasCommand
<1>4. ASSUME UNCHANGED zclVars  PROVE StepHasCommand'
  BY <1>4 DEF zclVars, StepHasCommand
<1> QED
  BY <1>1, <1>2, <1>3, <1>4
  DEF SmartNext, AppMain, CallLock, CreateTask, StartStack, Under, allVars, topVars

-----------------------------------------------------------------------------
(***************************************************************************)
(* The order of the frames                                                 *)
(***************************************************************************)

\* Restarts cut at bytes the wire still has.
CutsOnWire == \A c \in cuts : c <= Len(wire)

\* What was accepted since the last restart are bytes of the frames S.
SinceRestart(S) ==
  \A i \in DOMAIN accepted : (\A c \in cuts : c < i) => accepted[i][1] \in S

\* The calls made and still to be made since the last restart.
BootOrder ==
  /\ main = "reset" => stage = "idle" /\ todo = <<>> /\ SinceRestart({})
  /\ main = "init" =>
       \/ /\ todo = <<"setKey", "turnOffAutomaticLatch">> /\ stage = "idle"
          /\ SinceRestart({})
       \/ /\ todo = <<"turnOffAutomaticLatch">> /\ stage \in {"setKey", "idle"}
          /\ SinceRestart({"setKey"})
       \/ /\ todo = <<>> /\ stage \in {"wakeup", "pause"}
          /\ SinceRestart({"setKey", "wakeup"})
       \/ /\ todo = <<>> /\ stage \in {"disableLatch", "idle"}
          /\ SinceRestart({"setKey", "wakeup", "disableLatch"})
  /\ main \in {"task", "noTask", "loop"} =>
       todo \in Seq({"open"}) /\ stage \in {"open", "idle"}

SmartInv == /\ LockInv /\ SmartTypeOK /\ StepHasCommand
            /\ CutsOnWire /\ BootOrder /\ BootBeforeOpenings

\* No step undoes a cut, and no restart makes the wire shorter.
LEMMA CutsStep == LockInv /\ CutsOnWire /\ [LockNext]_vars => CutsOnWire'
<1> SUFFICES ASSUME LockInv, CutsOnWire, [LockNext]_vars  PROVE CutsOnWire'
  OBVIOUS
<1>1. [UartNext]_uartVars
  BY UartStep DEF vars
<1>2. wire \in Seq(Byte) /\ fifo \in Seq(Byte) /\ Len(wire) \in Nat /\ cuts \in SUBSET Nat
  BY LenProperties DEF LockInv, UartInv, TypeOK
<1>3. CASE ShiftOut
  <2>1. wire' = Append(wire, Head(fifo)) /\ cuts' = cuts /\ fifo /= <<>>
    BY <1>3 DEF ShiftOut, historyVars
  <2>2. Len(wire') = Len(wire) + 1
    BY <1>2, <2>1
  <2> QED  BY <1>2, <2>1, <2>2 DEF CutsOnWire
<1>4. CASE Reset
  <2>1. wire' = wire /\ cuts' = cuts \cup {Len(wire)}
    BY <1>4 DEF Reset
  <2> QED  BY <1>2, <2>1 DEF CutsOnWire
<1>5. ASSUME UNCHANGED <<wire, cuts>>  PROVE CutsOnWire'
  BY <1>5 DEF CutsOnWire
<1>6. ASSUME NEW a \in InitArgs, InitDriver(a)  PROVE UNCHANGED <<wire, cuts>>
  BY <1>6 DEF InitDriver, historyVars
<1>7. ASSUME NEW f \in Frame, SendData(f)  PROVE UNCHANGED <<wire, cuts>>
  BY <1>7 DEF SendData
<1>8. ASSUME PutByte \/ WriteDone \/ FloatingPin \/ UNCHANGED uartVars
      PROVE  UNCHANGED <<wire, cuts>>
  BY <1>8 DEF PutByte, WriteDone, FloatingPin, uartVars, historyVars
<1> QED  BY <1>1, <1>3, <1>4, <1>5, <1>6, <1>7, <1>8 DEF UartNext

\* Frame f may follow the frames S: it ranks above them, or is one opening more.
MayFollow(f, S) == \A g \in S : Rank(g) < Rank(f) \/ (f = "open" /\ g = "open")

\* A call of sendData keeps the order when its frame may follow those before it.
LEMMA SendKeepsOrder ==
  ASSUME LockInv, CutsOnWire, BootBeforeOpenings, NEW f \in LockFrames, SendData(f),
         NEW S, SinceRestart(S), MayFollow(f, S)
  PROVE  BootBeforeOpenings' /\ SinceRestart(S \cup {f})'
<1> DEFINE L == Len(accepted)
<1>1. /\ accepted \in Seq(Byte) /\ L \in Nat /\ DOMAIN accepted = 1 .. L
      /\ cuts' = cuts /\ f \in Frame
  BY FrameAssumption, LenProperties DEF LockInv, UartInv, TypeOK, SendData
<1>2. \A c \in cuts : c \in Nat /\ c <= L
  <2>1. Len(wire) <= L /\ Len(wire) \in Nat
    BY WirePrefix DEF LockInv, UartInv
  <2>2. cuts \in SUBSET Nat
    BY DEF LockInv, UartInv, TypeOK
  <2> QED  BY <1>1, <2>1, <2>2 DEF CutsOnWire
<1>3. CASE SendFails
  <2>1. accepted' = accepted
    BY <1>3 DEF SendFails
  <2> QED  BY <1>1, <2>1 DEF BootBeforeOpenings, SinceRestart
<1>4. CASE WriteStarts(f)
  <2>1. /\ FrameBytes(f) \in Seq(Byte) /\ Len(FrameBytes(f)) \in Nat
        /\ \A i \in 1 .. Len(FrameBytes(f)) : FrameBytes(f)[i] = <<f, i>>
    BY <1>1, FrameBytesProperties
  <2> DEFINE B == FrameBytes(f)
             M == Len(B)
  <2> HIDE DEF B
  <2>2. /\ accepted' = accepted \o B /\ B \in Seq(Byte) /\ M \in Nat
        /\ \A i \in 1 .. M : B[i] = <<f, i>>
    BY <1>4, <2>1 DEF WriteStarts, B
  <2> HIDE DEF M
  <2>3. /\ accepted' \in Seq(Byte) /\ DOMAIN accepted' = 1 .. L + M
        /\ \A i \in 1 .. L + M :
             accepted'[i] = IF i <= L THEN accepted[i] ELSE B[i - L]
    <3>1. /\ accepted \o B \in Seq(Byte) /\ Len(accepted \o B) = L + M
          /\ \A i \in 1 .. L + M :
               (accepted \o B)[i] = IF i <= L THEN accepted[i] ELSE B[i - L]
      BY <1>1, <2>2, ConcatProperties DEF M
    <3> QED  BY <2>2, <3>1, LenProperties
  <2>4. \A i \in 1 .. L : i \in 1 .. L + M /\ accepted'[i] = accepted[i]
    BY <1>1, <2>2, <2>3
  <2>5. \A i \in L + 1 .. L + M :
          i \in 1 .. L + M /\ accepted'[i][1] = f /\ accepted'[i][2] = i - L
    <3> SUFFICES ASSUME NEW i \in L + 1 .. L + M
                 PROVE  /\ i \in 1 .. L + M
                        /\ accepted'[i][1] = f /\ accepted'[i][2] = i - L
      OBVIOUS
    <3>1. i \in 1 .. L + M /\ ~(i <= L) /\ i - L \in 1 .. M
      BY <1>1, <2>2
    <3>2. accepted'[i] = <<f, i - L>>
      BY <2>2, <2>3, <3>1
    <3> QED  BY <3>1, <3>2
  <2>6. \A i \in 1 .. L + M : i \in 1 .. L \/ i \in L + 1 .. L + M
    BY <1>1, <2>2
  <2>7. SinceRestart(S \cup {f})'
    <3> SUFFICES ASSUME NEW i \in 1 .. L + M, \A c \in cuts : c < i
                 PROVE  accepted'[i][1] \in S \cup {f}
      BY <1>1, <2>3 DEF SinceRestart
    <3>1. CASE i \in 1 .. L
      <4>1. accepted[i][1] \in S
        BY <1>1, <3>1 DEF SinceRestart
      <4> QED  BY <2>4, <3>1, <4>1
    <3>2. CASE i \in L + 1 .. L + M
      BY <2>5, <3>2
    <3> QED  BY <2>6, <3>1, <3>2
  <2>8. BootBeforeOpenings'
    <3> SUFFICES ASSUME NEW i \in 1 .. L + M, NEW j \in 1 .. L + M, i < j,
                        ~(\E c \in cuts : i <= c /\ c < j)
                 PROVE  \/ Rank(accepted'[i][1]) < Rank(accepted'[j][1])
                        \/ /\ accepted'[i][1] = accepted'[j][1]
                           /\ \/ accepted'[i][1] = "open"
                              \/ accepted'[i][2] < accepted'[j][2]
      BY <1>1, <2>3 DEF BootBeforeOpenings
    <3>1. CASE j \in 1 .. L
      <4>1. i \in 1 .. L
        BY <1>1, <2>2, <3>1
      <4>2. \/ Rank(accepted[i][1]) < Rank(accepted[j][1])
            \/ /\ accepted[i][1] = accepted[j][1]
               /\ \/ accepted[i][1] = "open"
                  \/ accepted[i][2] < accepted[j][2]
        BY <1>1, <3>1, <4>1 DEF BootBeforeOpenings
      <4> QED  BY <2>4, <3>1, <4>1, <4>2
    <3>2. CASE j \in L + 1 .. L + M /\ i \in 1 .. L
      <4>1. \A c \in cuts : c < i
        BY <1>1, <1>2, <2>2, <3>2
      <4>2. accepted[i][1] \in S
        BY <1>1, <3>2, <4>1 DEF SinceRestart
      <4>3. accepted'[i][1] \in S /\ accepted'[j][1] = f
        BY <2>4, <2>5, <3>2, <4>2
      <4> QED  BY <4>3 DEF MayFollow
    <3>3. CASE j \in L + 1 .. L + M /\ i \in L + 1 .. L + M
      <4>1. i - L < j - L
        BY <1>1, <2>2
      <4> QED  BY <2>5, <3>3, <4>1
    <3> QED  BY <2>6, <3>1, <3>2, <3>3
  <2> QED  BY <2>7, <2>8
<1> QED  BY <1>3, <1>4 DEF SendData

\* A restart keeps the order of what is on the wire, and begins anew after it.
LEMMA ResetKeepsOrder ==
  ASSUME LockInv, CutsOnWire, BootBeforeOpenings, Reset
  PROVE  BootBeforeOpenings' /\ SinceRestart({})'
<1>1. /\ wire \in Seq(Byte) /\ accepted' = wire /\ cuts' = cuts \cup {Len(wire)}
      /\ cuts \in SUBSET Nat
  BY DEF LockInv, UartInv, TypeOK, Reset
<1>2. /\ \A i \in 1 .. Len(wire) : wire[i] = accepted[i]
      /\ Len(wire) \in Nat /\ Len(wire) <= Len(accepted) /\ Len(accepted) \in Nat
  BY WirePrefix DEF LockInv, UartInv
<1>3. /\ DOMAIN wire = 1 .. Len(wire) /\ DOMAIN accepted = 1 .. Len(accepted)
  BY <1>1, LenProperties DEF LockInv, UartInv, TypeOK
<1>4. SinceRestart({})'
  <2>1. \A i \in DOMAIN wire : ~(Len(wire) < i)
    BY <1>2, <1>3
  <2> QED  BY <1>1, <2>1 DEF SinceRestart
<1>5. BootBeforeOpenings'
  <2> SUFFICES ASSUME NEW i \in DOMAIN wire, NEW j \in DOMAIN wire, i < j,
                      ~(\E c \in cuts' : i <= c /\ c < j)
               PROVE  \/ Rank(wire[i][1]) < Rank(wire[j][1])
                      \/ /\ wire[i][1] = wire[j][1]
                         /\ wire[i][1] = "open" \/ wire[i][2] < wire[j][2]
    BY <1>1 DEF BootBeforeOpenings
  <2>1. i \in DOMAIN accepted /\ j \in DOMAIN accepted
        /\ ~(\E c \in cuts : i <= c /\ c < j)
    <3>1. i \in 1 .. Len(wire) /\ j \in 1 .. Len(wire)
      BY <1>3
    <3>2. i \in 1 .. Len(accepted) /\ j \in 1 .. Len(accepted)
      BY <1>2, <3>1
    <3>3. cuts \subseteq cuts'
      BY <1>1
    <3> QED  BY <1>3, <3>2, <3>3
  <2>2. wire[i] = accepted[i] /\ wire[j] = accepted[j]
    BY <1>2, <1>3
  <2> QED  BY <2>1, <2>2 DEF BootBeforeOpenings
<1> QED  BY <1>4, <1>5

\* Steps that accept nothing and cut nothing leave the order as it is.
LEMMA QuietOrder ==
  ASSUME UNCHANGED <<accepted, cuts>>
  PROVE  /\ BootBeforeOpenings => BootBeforeOpenings'
         /\ SinceRestart({}) => SinceRestart({})'
         /\ SinceRestart({"setKey"}) => SinceRestart({"setKey"})'
         /\ SinceRestart({"setKey", "wakeup"}) => SinceRestart({"setKey", "wakeup"})'
         /\ SinceRestart({"setKey", "wakeup", "disableLatch"})
              => SinceRestart({"setKey", "wakeup", "disableLatch"})'
BY DEF BootBeforeOpenings, SinceRestart

\* Which frame may follow which, from boot to openings.
LEMMA FrameOrder ==
  /\ MayFollow("setKey", {}) /\ MayFollow("wakeup", {"setKey"})
  /\ MayFollow("disableLatch", {"setKey", "wakeup"})
  /\ MayFollow("open", LockFrames)
<1>1. /\ Rank("setKey") = 1 /\ Rank("wakeup") = 2
      /\ Rank("disableLatch") = 3 /\ Rank("open") = 4
  BY DEF Rank
<1> QED  BY <1>1 DEF MayFollow, LockFrames

\* The callbacks' calls of the lock, and those of Zigbee::init, each in its turn.
LEMMA CallKeepsOrder == SmartInv /\ CallLock => (BootOrder /\ BootBeforeOpenings)'
<1> SUFFICES ASSUME SmartInv, CallLock  PROVE (BootOrder /\ BootBeforeOpenings)'
  OBVIOUS
<1>1. /\ LockInv /\ CutsOnWire /\ BootBeforeOpenings /\ BootOrder
      /\ main \in {"reset", "init", "task", "loop", "noTask"} /\ main' = main
      /\ todo /= <<>> /\ todo' = Tail(todo) /\ stage = "idle"
  BY DEF SmartInv, SmartTypeOK, CallLock, SetKey, OpenLock, SendFrame,
         TurnOffAutomaticLatch
<1>2. CASE main = "init" /\ todo = <<"setKey", "turnOffAutomaticLatch">>
  <2>1. Head(todo) = "setKey" /\ todo' = <<"turnOffAutomaticLatch">>
        /\ todo /= <<"turnOffAutomaticLatch">>
    BY <1>1, <1>2
  <2>2. SinceRestart({}) /\ SendData("setKey") /\ stage' = "setKey"
    BY <1>1, <1>2, <2>1 DEF BootOrder, CallLock, SetKey, SendFrame
  <2>3. BootBeforeOpenings' /\ SinceRestart({} \cup {"setKey"})'
    BY <1>1, <2>2, FrameOrder, SendKeepsOrder DEF LockFrames
  <2>4. {} \cup {"setKey"} = {"setKey"}
    OBVIOUS
  <2>5. SinceRestart({"setKey"})'
    BY <2>3, <2>4 DEF SinceRestart
  <2> QED  BY <1>1, <1>2, <2>1, <2>2, <2>3, <2>5 DEF BootOrder
<1>3. CASE main = "init" /\ todo = <<"turnOffAutomaticLatch">>
  <2>1. Head(todo) = "turnOffAutomaticLatch" /\ todo' = <<>>
        /\ todo /= <<"setKey", "turnOffAutomaticLatch">>
    BY <1>1, <1>3
  <2>2. SinceRestart({"setKey"}) /\ SendData("wakeup") /\ stage' = "wakeup"
    BY <1>1, <1>3, <2>1 DEF BootOrder, CallLock, TurnOffAutomaticLatch
  <2>3. BootBeforeOpenings' /\ SinceRestart({"setKey"} \cup {"wakeup"})'
    BY <1>1, <2>2, FrameOrder, SendKeepsOrder DEF LockFrames
  <2>4. {"setKey"} \cup {"wakeup"} = {"setKey", "wakeup"}
    OBVIOUS
  <2>5. SinceRestart({"setKey", "wakeup"})'
    BY <2>3, <2>4 DEF SinceRestart
  <2> QED  BY <1>1, <1>3, <2>1, <2>2, <2>3, <2>5 DEF BootOrder
<1>4. CASE main \in {"task", "noTask", "loop"}
  <2>1. todo \in Seq({"open"})
    BY <1>1, <1>4 DEF BootOrder
  <2>2. Head(todo) = "open" /\ todo' \in Seq({"open"})
    BY <1>1, <2>1
  <2>3. SendData("open") /\ stage' = "open"
    BY <2>2 DEF CallLock, OpenLock, SendFrame
  <2>4. SinceRestart(LockFrames)
    <3>1. accepted \in Seq(Byte)
      BY <1>1 DEF LockInv, UartInv, TypeOK
    <3> QED  BY <3>1, FrameAssumption DEF SinceRestart, Byte
  <2>5. BootBeforeOpenings'
    BY <1>1, <2>3, <2>4, FrameOrder, SendKeepsOrder DEF LockFrames
  <2> QED  BY <1>1, <1>4, <2>2, <2>3, <2>5 DEF BootOrder
<1> QED  BY <1>1, <1>2, <1>3, <1>4 DEF BootOrder

\* Every step keeps the order in which boot sends its frames.
LEMMA OrderStep ==
  SmartInv /\ [SmartNext]_allVars => (BootOrder /\ BootBeforeOpenings)'
<1> SUFFICES ASSUME SmartInv, [SmartNext]_allVars
             PROVE  (BootOrder /\ BootBeforeOpenings)'
  OBVIOUS
<1>1. /\ LockInv /\ CutsOnWire /\ BootBeforeOpenings /\ BootOrder
      /\ main \in {"reset", "init", "task", "loop", "noTask"}
  BY DEF SmartInv, SmartTypeOK
<1> USE DEF BootOrder
<1>2. CASE AppMain
  <2>1. UNCHANGED <<accepted, cuts, stage>> /\ main = "reset" /\ main' = "init"
        /\ todo' = <<"setKey", "turnOffAutomaticLatch">>
    BY <1>2 DEF AppMain, InitLock, InitDriver, historyVars
  <2> QED  BY <1>1, <2>1, QuietOrder
<1>3. CASE CallLock
  BY <1>3, CallKeepsOrder
<1>4. CASE CreateTask
  <2>1. UNCHANGED <<accepted, cuts, stage, todo>> /\ main' \in {"task", "noTask"}
        /\ stage = "idle" /\ todo = <<>>
    BY <1>4 DEF CreateTask, Free, vars, uartVars, historyVars, lockVars
  <2>2. todo \in Seq({"open"})
    BY <2>1
  <2> QED  BY <1>1, <2>1, <2>2, QuietOrder
<1>5. CASE StartStack
  <2>1. UNCHANGED <<accepted, cuts, stage, todo>> /\ main = "task" /\ main' = "loop"
    BY <1>5 DEF StartStack, vars, uartVars, historyVars, lockVars
  <2> QED  BY <1>1, <2>1, QuietOrder
<1>6. CASE Loop
  <2>1. UNCHANGED <<accepted, cuts, stage, main>> /\ main = "loop" /\ stage = "idle"
    BY <1>6 DEF Loop, Free, vars, uartVars, historyVars, lockVars
  <2>2. todo' \in Seq({"open"})
    BY <1>6, LoopTypes DEF SmartInv, SmartTypeOK, TaskTypeOK, LockCalls
  <2> QED  BY <1>1, <2>1, <2>2, QuietOrder
<1>7. CASE Crash
  <2>1. Reset /\ stage' = "idle" /\ main' = "reset" /\ todo' = <<>>
    BY <1>7 DEF Crash, Restart
  <2> QED  BY <1>1, <2>1, ResetKeepsOrder
<1>8. ASSUME NEW c \in Command, Arrive(c)  PROVE (BootOrder /\ BootBeforeOpenings)'
  <2>1. UNCHANGED <<accepted, cuts, stage, todo, main>>
    BY <1>8 DEF Arrive, vars, uartVars, historyVars, lockVars, taskVars
  <2> QED  BY <1>1, <2>1, QuietOrder
<1>9. ASSUME UNCHANGED topVars  PROVE UNCHANGED <<main, todo>>
  BY <1>9 DEF topVars, taskVars
<1>10. CASE Under(StartPause)
  <2>1. /\ UNCHANGED <<accepted, cuts, main, todo>>
        /\ stage = "wakeup" /\ stage' = "pause"
    BY <1>9, <1>10 DEF Under, StartPause, uartVars, historyVars
  <2> QED  BY <1>1, <2>1, QuietOrder
<1>11. CASE Under(Tick)
  <2>1. UNCHANGED <<accepted, cuts, main, todo, stage>>
    BY <1>9, <1>11 DEF Under, Tick, ShiftOut, uartVars, historyVars
  <2> QED  BY <1>1, <2>1, QuietOrder
<1>12. CASE Under(DisableLatch)
  <2>1. /\ stage = "pause" /\ stage' = "disableLatch" /\ SendData("disableLatch")
        /\ UNCHANGED <<main, todo>>
    BY <1>9, <1>12 DEF Under, DisableLatch
  <2>2. main = "init" /\ todo = <<>> /\ SinceRestart({"setKey", "wakeup"})
    BY <1>1, <2>1
  <2>3. /\ BootBeforeOpenings'
        /\ SinceRestart({"setKey", "wakeup"} \cup {"disableLatch"})'
    BY <1>1, <2>1, <2>2, FrameOrder, SendKeepsOrder DEF LockFrames
  <2>4. {"setKey", "wakeup"} \cup {"disableLatch"} = {"setKey", "wakeup", "disableLatch"}
    OBVIOUS
  <2>5. SinceRestart({"setKey", "wakeup", "disableLatch"})'
    BY <2>3, <2>4 DEF SinceRestart
  <2> QED  BY <2>1, <2>2, <2>3, <2>5
<1>13. CASE Under(Return)
  <2>1. /\ UNCHANGED <<accepted, cuts, main, todo>> /\ stage' = "idle"
        /\ stage \in {"setKey", "open", "disableLatch"}
    BY <1>9, <1>13 DEF Under, Return, uartVars, historyVars
  <2> QED  BY <1>1, <2>1, QuietOrder
<1>14. CASE Under(UartRuns) \/ UNCHANGED allVars
  <2>1. UNCHANGED <<accepted, cuts, main, todo, stage>>
    BY <1>9, <1>14 DEF Under, UartRuns, PutByte, WriteDone, FloatingPin, ShiftOut,
                       allVars, vars, uartVars, historyVars, lockVars
  <2> QED  BY <1>1, <2>1, QuietOrder
<1> QED
  BY <1>2, <1>3, <1>4, <1>5, <1>6, <1>7, <1>8, <1>10, <1>11, <1>12, <1>13, <1>14
  DEF SmartNext, Under

-----------------------------------------------------------------------------
(***************************************************************************)
(* The invariant and what follows from it                                  *)
(***************************************************************************)

\* The invariant holds when the device is switched on.
LEMMA SmartInitially == SmartInit => SmartInv
<1> SUFFICES ASSUME SmartInit  PROVE SmartInv
  OBVIOUS
<1>1. LockInv
  BY LockInitially DEF SmartInit
<1>2. /\ accepted = <<>> /\ cuts = {} /\ stage = "idle" /\ todo = <<>>
      /\ main = "reset" /\ flashOk \in BOOLEAN /\ Zcl!ZclInit
      /\ failed = 0 /\ forgotten = 0
  BY DEF SmartInit, LockInit, UartInit
<1>3. \A i \in DOMAIN accepted : FALSE
  BY <1>2
<1>4. CutsOnWire /\ BootOrder /\ BootBeforeOpenings
  BY <1>2, <1>3 DEF CutsOnWire, BootOrder, BootBeforeOpenings, SinceRestart
<1>5. Zcl!ZclTypeOK /\ StepHasCommand
  BY <1>2 DEF Zcl!ZclInit, Zcl!ZclTypeOK, Zcl!NoCallback, StepHasCommand
<1>6. todo \in Seq({"setKey", "turnOffAutomaticLatch", "open"})
  BY <1>2
<1>7. LockTypeOK
  BY <1>1 DEF LockInv
<1> QED  BY <1>1, <1>2, <1>4, <1>5, <1>6, <1>7 DEF SmartInv, SmartTypeOK

\* Every step of the device keeps the invariant.
LEMMA SmartStep == SmartInv /\ [SmartNext]_allVars => SmartInv'
BY LockStep, LockInductive, SmartTypeStep, StepHasCommandStep, CutsStep, OrderStep
DEF SmartInv

\* The inductive invariant of the device.
LEMMA SmartInvariance == SmartSpec => []SmartInv
BY SmartStep, SmartInitially, PTL DEF SmartSpec

\* Every variable of the device has its type.
THEOREM SmartTyping == SmartSpec => []SmartTypeOK
BY SmartInvariance, PTL DEF SmartInv

\* However often and wherever the device is restarted, the lock hears the key, the
\* wake-up and the latch command, in this order, before any opening: the callbacks
\* send nothing but openings, and none of them runs before boot is through.
THEOREM BootComesFirst == SmartSpec => []BootBeforeOpenings
BY SmartInvariance, PTL DEF SmartInv

\* What the lock driver promises holds on the device.
THEOREM DevicePromises ==
  SmartSpec => /\ [](LineSilentBeforeLatch /\ LatchAfterWakeup /\ FramesWhole
                      /\ CallNeverStuck)
               /\ OkMeansSent /\ CallAdvances
<1>1. LockInv => LineSilentBeforeLatch
  BY SilentByInv
<1>2. LockInit => FramesInv /\ LatchHasSend
  BY FramesInitially DEF LockInit, LatchHasSend
<1>3. FramesInv /\ [LockNext]_vars => FramesInv'
  BY FramesStep
<1>4. FramesInv => LatchAfterWakeup
  BY DEF FramesInv
<1>5. LockInv => FramesWhole
  BY FramedByInv DEF LockInv
<1>6. SmartInv => LockInv
  BY DEF SmartInv
<1>7. LockInv /\ LatchHasSend /\ [LockNext]_vars => LatchHasSend'
  BY LatchSendStep
<1>8. LockInv /\ LatchHasSend => CallNeverStuck
  BY NotStuck
<1>9. FramesInv /\ [LockNext]_vars
        => [Return /\ result' = "OK" => EndsWith(accepted, FrameBytes(stage))]_vars
  BY ReturnStep
<1>10. LockInv /\ [LockNext]_vars
         => [stage /= "idle" /\ ~UNCHANGED <<stage, left, callVars, fifo>>
               => WorkLeft' < WorkLeft]_vars
  BY AdvanceStep
<1> QED
  BY <1>1, <1>2, <1>3, <1>4, <1>5, <1>6, <1>7, <1>8, <1>9, <1>10, SmartInvariance,
     UsesLockSafely, PTL DEF OkMeansSent, CallAdvances
=============================================================================
