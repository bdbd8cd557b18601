--------------------------- MODULE OpeningsProofs ---------------------------
(***************************************************************************)
(* The openings the lock is told are those the commands asked for: counted *)
(* over callbacks, the task's calls, failing sends and restarts, for any   *)
(* number of commands and restarts.                                        *)
(***************************************************************************)
EXTENDS SmartLockProofs

\* The openings the Zigbee task has still to make.
TodoOpens == IF main \in {"task", "noTask", "loop"} THEN Len(todo) ELSE 0

\* An opening asked for is to be made, or was made: it was accepted or its sendData
\* failed, unless a restart took it away.
CountInv ==
  /\ OpenBytes(accepted, 1) + TodoOpens <= Openings
  /\ resets = 0 => Openings <= OpenBytes(accepted, 1) + TodoOpens + failed

-----------------------------------------------------------------------------
(***************************************************************************)
(* Counting                                                                *)
(***************************************************************************)

Opened(s) == {i \in DOMAIN s : s[i] = <<"open", 1>>}

\* A frame adds the first byte of an opening if it is one.
LEMMA FrameCounts ==
  ASSUME NEW s \in Seq(Byte), NEW f \in Frame
  PROVE  LET t == s \o FrameBytes(f)
         IN  /\ f = "open" => OpenBytes(t, 1) = OpenBytes(s, 1) + 1
             /\ f /= "open" => OpenBytes(t, 1) = OpenBytes(s, 1)
             /\ OpenBytes(s, 1) \in Nat
<1> DEFINE B == FrameBytes(f)
           t == s \o B
           L == Len(s)
           M == Len(B)
<1>1. /\ B \in Seq(Byte) /\ M \in Nat \ {0} /\ \A i \in 1 .. M : B[i] = <<f, i>>
  BY FrameBytesProperties
<1>2. L \in Nat /\ DOMAIN s = 1 .. L
  BY LenProperties
<1>3. /\ t \in Seq(Byte) /\ Len(t) = L + M
      /\ \A i \in 1 .. L + M : t[i] = IF i <= L THEN s[i] ELSE B[i - L]
  BY <1>1, ConcatProperties
<1>4. DOMAIN t = 1 .. L + M
  BY <1>3, LenProperties
<1> HIDE DEF B, t, L, M
<1>5. \A i \in 1 .. L : i \in 1 .. L + M /\ t[i] = s[i]
  BY <1>1, <1>2, <1>3
<1>6. \A i \in L + 1 .. L + M : i \in 1 .. L + M /\ t[i] = <<f, i - L>>
  <2> SUFFICES ASSUME NEW i \in L + 1 .. L + M
               PROVE  i \in 1 .. L + M /\ t[i] = <<f, i - L>>
    OBVIOUS
  <2>1. i \in 1 .. L + M /\ ~(i <= L) /\ i - L \in 1 .. M
    BY <1>1, <1>2
  <2> QED  BY <1>1, <1>3, <2>1
<1>7. /\ L + 1 \in L + 1 .. L + M /\ (L + 1) - L = 1
      /\ \A i \in L + 1 .. L + M : i - L = 1 <=> i = L + 1
      /\ \A i \in 1 .. L + M : i \in 1 .. L \/ i \in L + 1 .. L + M
  BY <1>1, <1>2
<1>8. f = "open" => Opened(t) = Opened(s) \cup {L + 1}
  BY <1>2, <1>4, <1>5, <1>6, <1>7 DEF Opened
<1>9. f /= "open" => Opened(t) = Opened(s)
  BY <1>2, <1>4, <1>5, <1>6, <1>7 DEF Opened
<1>10. Opened(s) \subseteq 1 .. L
  BY <1>2 DEF Opened
<1>11. /\ f = "open" => Cardinality(Opened(t)) = Cardinality(Opened(s)) + 1
       /\ Cardinality(Opened(s)) \in Nat
  BY <1>2, <1>8, <1>10, Positions
<1>12. OpenBytes(t, 1) = Cardinality(Opened(t)) /\ OpenBytes(s, 1) = Cardinality(Opened(s))
  BY DEF OpenBytes, Opened
<1> QED  BY <1>9, <1>11, <1>12 DEF t, B

\* What all the counts are of.
LEMMA CountTypes ==
  SmartInv =>
         /\ accepted \in Seq(Byte) /\ calls \in Seq(CallRecords)
         /\ OpenBytes(accepted, 1) \in Nat /\ Openings \in Nat /\ failed \in Nat
         /\ resets \in Nat /\ Len(todo) \in Nat /\ TodoOpens \in Nat
<1> SUFFICES ASSUME SmartInv
             PROVE  /\ accepted \in Seq(Byte) /\ calls \in Seq(CallRecords)
                    /\ OpenBytes(accepted, 1) \in Nat /\ Openings \in Nat
                    /\ failed \in Nat /\ resets \in Nat /\ Len(todo) \in Nat
                    /\ TodoOpens \in Nat
  OBVIOUS
<1>1. /\ accepted \in Seq(Byte) /\ calls \in Seq(CallRecords) /\ failed \in Nat
      /\ resets \in Nat /\ todo \in Seq(LockCalls) /\ "open" \in Frame
  BY FrameAssumption
  DEF SmartInv, SmartTypeOK, LockTypeOK, TypeOK, Zcl!ZclTypeOK, CallRecords, LockCalls,
      LockFrames
<1>2. OpenBytes(accepted, 1) \in Nat
  BY <1>1, FrameCounts
<1>3. Len(calls) \in Nat /\ DOMAIN calls = 1 .. Len(calls) /\ Len(todo) \in Nat
  BY <1>1, LenProperties
<1>4. Openings \in Nat
  <2> DEFINE S == {k \in DOMAIN calls : calls[k].call = "open"}
  <2>1. S \subseteq 1 .. Len(calls)
    BY <1>3
  <2>2. Cardinality(S) \in Nat
    BY <1>3, <2>1, Positions
  <2> QED  BY <2>2 DEF Openings
<1> QED  BY <1>1, <1>2, <1>3, <1>4 DEF TodoOpens

\* A call of sendData with an opening adds an opening unless it fails, one with
\* another frame adds none.
LEMMA SendCounts ==
  ASSUME SmartInv, NEW f \in LockFrames, SendData(f)
  PROVE  /\ resets' = resets
         /\ f = "open" => OpenBytes(accepted, 1)'
                            = OpenBytes(accepted, 1) + IF SendFails THEN 0 ELSE 1
         /\ f /= "open" => OpenBytes(accepted, 1)' = OpenBytes(accepted, 1)
<1>1. resets' = resets /\ call = "idle"
  BY DEF SendData
<1>2. OpenBytes(accepted, 1)' = OpenBytes(accepted', 1)
  BY DEF OpenBytes
<1>3. OpenBytes(accepted, 1) \in Nat /\ accepted \in Seq(Byte)
  BY CountTypes
<1>4. CASE SendFails
  <2>1. accepted' = accepted
    BY <1>4 DEF SendFails
  <2> QED  BY <1>1, <1>2, <1>3, <1>4, <2>1
<1>5. CASE WriteStarts(f)
  <2>1. accepted' = accepted \o FrameBytes(f) /\ ~SendFails
    BY <1>1, <1>5 DEF WriteStarts, SendFails
  <2>2. /\ f = "open" => OpenBytes(accepted', 1) = OpenBytes(accepted, 1) + 1
        /\ f /= "open" => OpenBytes(accepted', 1) = OpenBytes(accepted, 1)
    BY <1>3, <2>1, FrameCounts, FrameAssumption
  <2> QED  BY <1>1, <1>2, <2>1, <2>2
<1> QED  BY <1>4, <1>5 DEF SendData

\* The loop asks for as many openings as it leaves the task to make.
LEMMA LoopCounts ==
  ASSUME SmartInv, Loop
  PROVE  Openings' = Openings + Len(todo') /\ Len(todo') \in {0, 1}
<1>1. calls \in Seq(CallRecords) /\ Len(calls) \in Nat /\ DOMAIN calls = 1 .. Len(calls)
      /\ Len(done) \in Nat
  BY CountTypes, LenProperties DEF SmartInv, SmartTypeOK, Zcl!ZclTypeOK
<1>2. calls' = calls \/ calls' = Append(calls, [call |-> "open", n |-> Len(done)])
  <2>1. Zcl!ZclTypeOK
    BY DEF SmartInv, SmartTypeOK
  <2> QED
    BY <2>1, CallbackOpens DEF Loop, Zcl!Take, Zcl!StackProcesses
<1>3. todo' = [i \in 1 .. Len(calls') - Len(calls) |-> calls'[Len(calls) + i].call]
  BY DEF Loop, NewCalls
<1>4. CASE calls' = calls
  <2>1. Len(calls') - Len(calls) = 0 /\ Openings' = Openings
    BY <1>1, <1>4 DEF Openings
  <2>2. todo' = [i \in 1 .. 0 |-> calls'[Len(calls) + i].call]
    BY <1>3, <2>1
  <2>3. Len(todo') = 0
    BY <2>2
  <2> QED  BY <2>1, <2>3, CountTypes
<1>5. CASE calls' = Append(calls, [call |-> "open", n |-> Len(done)])
  <2> DEFINE new == [call |-> "open", n |-> Len(done)]
             S == {k \in DOMAIN calls : calls[k].call = "open"}
             T == {k \in DOMAIN calls' : calls'[k].call = "open"}
  <2>1. new \in CallRecords /\ new.call = "open"
    BY <1>1 DEF CallRecords
  <2>2. calls' = Append(calls, new)
    BY <1>5
  <2> HIDE DEF new
  <2>3. /\ Len(calls') = Len(calls) + 1 /\ DOMAIN calls' = 1 .. Len(calls) + 1
        /\ calls'[Len(calls) + 1] = new
        /\ \A k \in 1 .. Len(calls) : calls'[k] = calls[k]
    BY <1>1, <2>1, <2>2
  <2>4. T = S \cup {Len(calls) + 1} /\ S \subseteq 1 .. Len(calls)
    BY <1>1, <2>1, <2>3
  <2>5. Cardinality(T) = Cardinality(S) + 1
    BY <1>1, <2>4, Positions
  <2>6. Openings' = Openings + 1
    BY <2>5 DEF Openings
  <2>7. Len(calls') - Len(calls) = 1
    BY <1>1, <2>3
  <2>8. todo' = [i \in 1 .. 1 |-> calls'[Len(calls) + i].call]
    BY <1>3, <2>7
  <2>9. Len(todo') = 1
    BY <2>8
  <2> QED  BY <2>6, <2>9
<1> QED  BY <1>2, <1>4, <1>5

\* A restart takes openings away, it adds none.
LEMMA ResetCounts ==
  ASSUME SmartInv, Reset
  PROVE  OpenBytes(accepted, 1)' <= OpenBytes(accepted, 1)
         /\ OpenBytes(accepted, 1)' \in Nat
<1>1. /\ accepted' = wire /\ wire \in Seq(Byte) /\ accepted \in Seq(Byte)
  BY DEF SmartInv, LockInv, UartInv, TypeOK, Reset
<1>2. /\ \A i \in 1 .. Len(wire) : wire[i] = accepted[i]
      /\ Len(wire) \in Nat /\ Len(wire) <= Len(accepted) /\ Len(accepted) \in Nat
  BY WirePrefix DEF SmartInv, LockInv, UartInv
<1>3. DOMAIN wire = 1 .. Len(wire) /\ DOMAIN accepted = 1 .. Len(accepted)
  BY <1>1, LenProperties
<1>4. Opened(wire) \subseteq Opened(accepted)
  BY <1>2, <1>3 DEF Opened
<1>5. Opened(accepted) \subseteq 1 .. Len(accepted)
  BY <1>3 DEF Opened
<1>6. IsFiniteSet(Opened(accepted)) /\ IsFiniteSet(Opened(wire))
      /\ Cardinality(Opened(wire)) <= Cardinality(Opened(accepted))
  BY <1>2, <1>4, <1>5, Positions, FS_Subset
<1>7. Cardinality(Opened(wire)) \in Nat
  BY <1>6, FS_CardinalityType
<1> QED  BY <1>1, <1>6, <1>7 DEF OpenBytes, Opened

-----------------------------------------------------------------------------
\* Every step keeps the count: what is asked for is to be called, accepted or failed.
LEMMA CountStep == SmartInv /\ CountInv /\ [SmartNext]_allVars => CountInv'
<1> SUFFICES ASSUME SmartInv, CountInv, [SmartNext]_allVars  PROVE CountInv'
  OBVIOUS
<1>1. /\ OpenBytes(accepted, 1) \in Nat /\ Openings \in Nat /\ failed \in Nat
      /\ resets \in Nat /\ TodoOpens \in Nat /\ Len(todo) \in Nat
  BY CountTypes
<1>2. BootOrder /\ main \in {"reset", "init", "task", "loop", "noTask"}
      /\ todo \in Seq(LockCalls)
  BY DEF SmartInv, SmartTypeOK, LockCalls
<1>3. Len(<<>>) = 0
  OBVIOUS
<1>4. ASSUME UNCHANGED <<accepted, resets, calls, failed>>
      PROVE  /\ OpenBytes(accepted, 1)' = OpenBytes(accepted, 1)
             /\ failed' = failed /\ Openings' = Openings /\ resets' = resets
  BY <1>4 DEF Openings, OpenBytes
<1>5. ASSUME UNCHANGED <<accepted, resets, calls, failed>>, TodoOpens' = TodoOpens
      PROVE  CountInv'
  BY <1>4, <1>5 DEF CountInv
<1>6. ASSUME UNCHANGED <<main, todo>>  PROVE TodoOpens' = TodoOpens
  BY <1>6 DEF TodoOpens
<1>7. ASSUME UNCHANGED topVars  PROVE UNCHANGED <<main, todo, calls, failed>>
  BY <1>7 DEF topVars, taskVars, zclVars, fateVars
<1>8. CASE AppMain
  <2>1. UNCHANGED <<accepted, resets, calls, failed>>
        /\ main = "reset" /\ main' = "init"
    BY <1>8 DEF AppMain, InitLock, InitDriver, historyVars, zclVars, fateVars
  <2>2. TodoOpens' = TodoOpens
    BY <2>1 DEF TodoOpens
  <2> QED  BY <1>5, <2>1, <2>2
<1>9. CASE CallLock
  <2>1. todo /= <<>> /\ todo' = Tail(todo) /\ main' = main /\ calls' = calls
    BY <1>9 DEF CallLock, zclVars
  <2>2. Openings' = Openings
    BY <2>1 DEF Openings
  <2>3. CASE main \in {"task", "noTask", "loop"}
    <3>1. todo \in Seq({"open"})
      BY <1>2, <2>3 DEF BootOrder
    <3>2. Head(todo) = "open" /\ Len(todo') = Len(todo) - 1
      BY <2>1, <3>1
    <3>3. SendData("open")
      BY <1>9, <3>2 DEF CallLock, OpenLock, SendFrame
    <3>4. /\ resets' = resets
          /\ OpenBytes(accepted, 1)'
               = OpenBytes(accepted, 1) + IF SendFails THEN 0 ELSE 1
          /\ failed' = failed + IF SendFails THEN 1 ELSE 0
      BY <1>9, <3>2, <3>3, SendCounts DEF LockFrames, CallLock, OpeningFails
    <3>5. TodoOpens = Len(todo) /\ TodoOpens' = TodoOpens - 1
      BY <2>1, <2>3, <3>2 DEF TodoOpens
    <3> QED  BY <1>1, <2>2, <3>4, <3>5 DEF CountInv
  <2>4. CASE main \notin {"task", "noTask", "loop"}
    <3>1. TodoOpens = 0 /\ TodoOpens' = 0
      BY <2>1, <2>4 DEF TodoOpens
    <3>2. Head(todo) /= "open"
      <4>1. /\ main = "init"
            /\ \/ todo = <<"setKey", "turnOffAutomaticLatch">>
               \/ todo = <<"turnOffAutomaticLatch">>
        BY <1>2, <2>1, <2>4 DEF BootOrder
      <4> QED  BY <4>1
    <3>3. PICK f \in {"setKey", "wakeup"} : SendData(f)
      BY <1>9, <3>2 DEF CallLock, SetKey, SendFrame, TurnOffAutomaticLatch
    <3>4. resets' = resets /\ OpenBytes(accepted, 1)' = OpenBytes(accepted, 1)
      BY <3>3, SendCounts DEF LockFrames
    <3>5. failed' = failed
      BY <1>1, <1>9, <3>2 DEF CallLock, OpeningFails
    <3> QED  BY <1>1, <2>2, <3>1, <3>4, <3>5 DEF CountInv
  <2> QED  BY <2>3, <2>4
<1>10. CASE CreateTask
  <2>1. UNCHANGED <<accepted, resets, calls, failed, todo>> /\ todo = <<>>
    BY <1>10 DEF CreateTask, Free, vars, uartVars, historyVars, zclVars, fateVars
  <2>2. TodoOpens' = 0 /\ TodoOpens = 0
    BY <1>3, <2>1 DEF TodoOpens
  <2> QED  BY <1>5, <2>1, <2>2
<1>11. CASE StartStack
  <2>1. UNCHANGED <<accepted, resets, calls, failed, todo>>
        /\ main = "task" /\ main' = "loop"
    BY <1>11 DEF StartStack, vars, uartVars, historyVars, zclVars, fateVars
  <2>2. TodoOpens' = TodoOpens
    BY <2>1 DEF TodoOpens
  <2> QED  BY <1>5, <2>1, <2>2
<1>12. CASE Loop
  <2>1. UNCHANGED <<accepted, resets, failed>> /\ main = "loop" /\ main' = "loop"
        /\ todo = <<>>
    BY <1>12 DEF Loop, Free, vars, uartVars, historyVars, fateVars
  <2>2. TodoOpens = 0 /\ TodoOpens' = Len(todo')
    BY <1>3, <2>1 DEF TodoOpens
  <2>3. /\ OpenBytes(accepted, 1)' = OpenBytes(accepted, 1)
        /\ failed' = failed /\ resets' = resets
    BY <2>1 DEF OpenBytes
  <2>4. Openings' = Openings + Len(todo') /\ Len(todo') \in Nat
    BY <1>12, LoopCounts
  <2> QED  BY <1>1, <2>2, <2>3, <2>4 DEF CountInv
<1>13. CASE Crash
  <2>1. Reset /\ main' = "reset" /\ calls' = calls /\ resets' = resets + 1
    BY <1>13 DEF Crash, Restart, Reset
  <2>2. Openings' = Openings /\ TodoOpens' = 0
    BY <2>1 DEF Openings, TodoOpens
  <2>3. resets' /= 0
    BY <1>1, <2>1
  <2> QED  BY <1>1, <2>1, <2>2, <2>3, ResetCounts DEF CountInv
<1>14. ASSUME NEW c \in Command, Arrive(c)  PROVE CountInv'
  <2>1. UNCHANGED <<accepted, resets, calls, failed, todo, main>>
    BY <1>14 DEF Arrive, Zcl!Arrive, vars, uartVars, historyVars, taskVars, fateVars
  <2> QED  BY <1>5, <1>6, <2>1
<1>15. CASE Under(DisableLatch)
  <2>1. SendData("disableLatch") /\ UNCHANGED <<main, todo, calls, failed>>
    BY <1>7, <1>15 DEF Under, DisableLatch
  <2>2. Openings' = Openings
    BY <2>1 DEF Openings
  <2>3. resets' = resets /\ OpenBytes(accepted, 1)' = OpenBytes(accepted, 1)
    BY <2>1, SendCounts DEF LockFrames
  <2>4. TodoOpens' = TodoOpens /\ failed' = failed
    BY <1>6, <2>1
  <2> QED  BY <1>1, <2>2, <2>3, <2>4 DEF CountInv
<1>16. CASE Under(StartPause \/ Tick \/ Return \/ UartRuns) \/ UNCHANGED allVars
  <2>1. UNCHANGED <<accepted, resets, calls, failed, main, todo>>
    BY <1>7, <1>16 DEF Under, StartPause, Tick, Return, UartRuns, PutByte, WriteDone,
                       FloatingPin, ShiftOut, allVars, vars, uartVars, historyVars
  <2> QED  BY <1>5, <1>6, <2>1
<1> QED
  BY <1>8, <1>9, <1>10, <1>11, <1>12, <1>13, <1>14, <1>15, <1>16 DEF SmartNext, Under

\* The openings asked for and those sent stay in step.
LEMMA CountInvariance == SmartSpec => [](SmartInv /\ CountInv)
<1>1. SmartInit => CountInv
  <2> SUFFICES ASSUME SmartInit  PROVE CountInv
    OBVIOUS
  <2>1. /\ accepted = <<>> /\ calls = <<>> /\ main = "reset" /\ failed = 0
    BY DEF SmartInit, LockInit, UartInit, Zcl!ZclInit
  <2>2. /\ {i \in DOMAIN accepted : accepted[i] = <<"open", 1>>} = {}
        /\ {k \in DOMAIN calls : calls[k].call = "open"} = {}
    BY <2>1
  <2>3. OpenBytes(accepted, 1) = 0 /\ Openings = 0
    BY <2>2, FS_EmptySet DEF OpenBytes, Openings
  <2> QED  BY <2>1, <2>3 DEF CountInv, TodoOpens
<1>2. SmartInv /\ CountInv /\ [SmartNext]_allVars => CountInv'
  BY CountStep
<1> QED  BY <1>1, <1>2, SmartInvariance, PTL DEF SmartSpec

-----------------------------------------------------------------------------
(***************************************************************************)
(* From the openings to the commands                                       *)
(***************************************************************************)

\* Each call of the lock by a callback was made for a command of its own, one with
\* the id of Unlock Door that the raw callback has been through with.
RequestInv ==
  /\ step /= "idle" => done /= <<>> /\ done[Len(done)] = Head(inbox)
  /\ \A k \in DOMAIN calls : /\ calls[k].n \in DOMAIN done
                             /\ done[calls[k].n].cmd = Zcl!UNLOCK_DOOR
                             /\ step = "raw" => calls[k].n /= Len(done)
  /\ \A k, l \in DOMAIN calls : calls[k].n = calls[l].n => k = l

Requests == {n \in DOMAIN done : done[n].cmd = Zcl!UNLOCK_DOOR}

\* The raw callback tests for the id, whatever it takes for the cluster.
LEMMA RawCallbackCalls ==
  ASSUME Zcl!RawCommandCallback
  PROVE  \/ calls' = calls
         \/ /\ Head(inbox).cmd = Zcl!UNLOCK_DOOR
            /\ calls' = Append(calls, [call |-> "open", n |-> Len(done)])
BY DEF Zcl!RawCommandCallback, Zcl!RawOpens, Zcl!Call

\* The action handler calls nothing.
LEMMA ActionHandlerSilent == ASSUME Zcl!ActionHandler  PROVE calls' = calls
BY DEF Zcl!ActionHandler, Zcl!AttributeVerdict, Zcl!TypeAccepted, Zcl!ON_OFF_ID,
       Zcl!TYPE_BOOL

\* A command taken on has made no call yet.
LEMMA TakeRequests ==
  ASSUME SmartInv, RequestInv, Zcl!Take  PROVE RequestInv'
<1>1. /\ inbox \in Seq(Command) /\ inbox /= <<>> /\ done \in Seq(Command)
      /\ step' = "raw" /\ done' = Append(done, Head(inbox)) /\ inbox' = inbox
      /\ calls' = calls
  BY DEF SmartInv, SmartTypeOK, Zcl!ZclTypeOK, Zcl!Take
<1>2. /\ Len(done') = Len(done) + 1 /\ done' /= <<>> /\ done'[Len(done')] = Head(inbox)
      /\ \A n \in DOMAIN done : /\ n \in DOMAIN done' /\ done'[n] = done[n]
                                /\ n /= Len(done')
  BY <1>1
<1>3. \A k \in DOMAIN calls : calls[k].n \in DOMAIN done
                                /\ done[calls[k].n].cmd = Zcl!UNLOCK_DOOR
  BY DEF RequestInv
<1>4. \A k \in DOMAIN calls : /\ calls[k].n \in DOMAIN done'
                              /\ done'[calls[k].n].cmd = Zcl!UNLOCK_DOOR
                              /\ calls[k].n /= Len(done')
  BY <1>2, <1>3
<1>5. Zcl!UNLOCK_DOOR' = Zcl!UNLOCK_DOOR
  BY DEF Zcl!UNLOCK_DOOR
<1> QED  BY <1>1, <1>2, <1>4, <1>5 DEF RequestInv

\* The raw callback's call is the first for its command.
LEMMA RawRequests ==
  ASSUME SmartInv, RequestInv, Zcl!RawCommandCallback  PROVE RequestInv'
<1>1. /\ step = "raw" /\ step' = "stack" /\ UNCHANGED <<inbox, done>>
      /\ done \in Seq(Command) /\ calls \in Seq(CallRecords)
      /\ done /= <<>> /\ done[Len(done)] = Head(inbox)
  BY DEF SmartInv, SmartTypeOK, Zcl!ZclTypeOK, CallRecords, RequestInv,
         Zcl!RawCommandCallback
<1>2. Len(done) \in DOMAIN done /\ Len(done) \in Nat
  BY <1>1
<1>3. Zcl!UNLOCK_DOOR' = Zcl!UNLOCK_DOOR
  BY DEF Zcl!UNLOCK_DOOR
<1>4. CASE calls' = calls
  BY <1>1, <1>3, <1>4 DEF RequestInv
<1>5. CASE /\ Head(inbox).cmd = Zcl!UNLOCK_DOOR
           /\ calls' = Append(calls, [call |-> "open", n |-> Len(done)])
  <2> DEFINE new == [call |-> "open", n |-> Len(done)]
  <2>1. calls' = Append(calls, new) /\ new \in CallRecords /\ new.n = Len(done)
    BY <1>2, <1>5 DEF CallRecords
  <2> HIDE DEF new
  <2>2. /\ calls'[Len(calls')] = new /\ Len(calls') \in DOMAIN calls'
        /\ \A k \in DOMAIN calls : k \in DOMAIN calls' /\ calls'[k] = calls[k]
        /\ \A k \in DOMAIN calls' : k \in DOMAIN calls \/ k = Len(calls')
    BY <1>1, <2>1
  <2>3. \A k \in DOMAIN calls' : /\ calls'[k].n \in DOMAIN done
                                 /\ done[calls'[k].n].cmd = Zcl!UNLOCK_DOOR
    BY <1>1, <1>2, <1>5, <2>1, <2>2 DEF RequestInv
  <2>4. \A k, l \in DOMAIN calls' : calls'[k].n = calls'[l].n => k = l
    BY <1>1, <2>1, <2>2 DEF RequestInv
  <2> QED  BY <1>1, <1>3, <2>3, <2>4 DEF RequestInv
<1> QED  BY <1>4, <1>5, RawCallbackCalls

\* Every step of the device keeps the correspondence, a restart in the middle of a
\* command too: the command is then done with, called for or not.
LEMMA RequestStep == SmartInv /\ RequestInv /\ [SmartNext]_allVars => RequestInv'
<1> SUFFICES ASSUME SmartInv, RequestInv, [SmartNext]_allVars  PROVE RequestInv'
  OBVIOUS
<1>1. Zcl!UNLOCK_DOOR' = Zcl!UNLOCK_DOOR
  BY DEF Zcl!UNLOCK_DOOR
<1>2. CASE Loop
  <2>1. CASE Zcl!StackProcesses
    BY <1>1, <2>1 DEF Zcl!StackProcesses, RequestInv
  <2>2. CASE Zcl!ActionHandler
    <3>1. step' = "idle" /\ done' = done /\ calls' = calls
      BY <2>2, ActionHandlerSilent DEF Zcl!ActionHandler
    <3> QED  BY <1>1, <3>1 DEF RequestInv
  <2> QED  BY <1>2, <2>1, <2>2, TakeRequests, RawRequests DEF Loop
<1>3. ASSUME NEW c \in Command, Arrive(c)  PROVE RequestInv'
  <2>1. /\ inbox' = Append(inbox, c) /\ UNCHANGED <<step, done, calls>>
        /\ inbox \in Seq(Command)
        /\ step /= "idle" => inbox /= <<>>
    BY <1>3 DEF Arrive, Zcl!Arrive, SmartInv, SmartTypeOK, Zcl!ZclTypeOK, StepHasCommand
  <2>2. inbox /= <<>> => Head(inbox') = Head(inbox)
    BY <2>1
  <2> QED  BY <1>1, <2>1, <2>2 DEF RequestInv
<1>4. CASE Crash
  <2>1. step' = "idle" /\ done' = done /\ calls' = calls
    BY <1>4 DEF Crash
  <2> QED  BY <1>1, <2>1 DEF RequestInv
<1>5. ASSUME UNCHANGED zclVars  PROVE RequestInv'
  BY <1>1, <1>5 DEF zclVars, RequestInv
<1> QED
  BY <1>2, <1>3, <1>4, <1>5
  DEF SmartNext, AppMain, CallLock, CreateTask, StartStack, Under, allVars, topVars

\* The openings asked for are no more than the requests: each has one of its own.
LEMMA OpeningsHaveRequests ==
  SmartInv /\ RequestInv => Openings <= Cardinality(Requests) /\ Cardinality(Requests) \in Nat
<1> SUFFICES ASSUME SmartInv, RequestInv
             PROVE  Openings <= Cardinality(Requests) /\ Cardinality(Requests) \in Nat
  OBVIOUS
<1> DEFINE S == {k \in DOMAIN calls : calls[k].call = "open"}
           f == [k \in S |-> calls[k].n]
<1>1. Len(done) \in Nat /\ DOMAIN done = 1 .. Len(done)
  BY LenProperties DEF SmartInv, SmartTypeOK, Zcl!ZclTypeOK
<1>2. Requests \subseteq 1 .. Len(done)
  BY <1>1 DEF Requests
<1>3. IsFiniteSet(Requests) /\ Cardinality(Requests) \in Nat
  BY <1>1, <1>2, Positions
<1>4. f \in [S -> Requests]
  BY DEF RequestInv, Requests
<1>5. \A k, l \in S : f[k] = f[l] => k = l
  BY DEF RequestInv
<1>6. f \in Injection(S, Requests)
  BY <1>4, <1>5 DEF Injection, IsInjective
<1>7. Cardinality(S) <= Cardinality(Requests)
  BY <1>3, <1>6, FS_Injection
<1> QED  BY <1>3, <1>7 DEF Openings

\* The correspondence holds from the start.
LEMMA RequestInvariance == SmartSpec => [](SmartInv /\ CountInv /\ RequestInv)
<1>1. SmartInit => RequestInv
  BY DEF SmartInit, Zcl!ZclInit, RequestInv
<1>2. SmartInv /\ RequestInv /\ [SmartNext]_allVars => RequestInv'
  BY RequestStep
<1> QED  BY <1>1, <1>2, CountInvariance, PTL DEF SmartSpec

-----------------------------------------------------------------------------
(***************************************************************************)
(* What is left of a command                                               *)
(***************************************************************************)

\* The callbacks run in the stack's loop.
StepInLoop == step /= "idle" => main = "loop"

\* Every step keeps it.
LEMMA StepInLoopStep == StepInLoop /\ [SmartNext]_allVars => StepInLoop'
<1> SUFFICES ASSUME StepInLoop, [SmartNext]_allVars  PROVE StepInLoop'
  OBVIOUS
<1>1. CASE Loop \/ Crash
  BY <1>1 DEF Loop, Crash, StepInLoop
<1>2. ASSUME NEW c \in Command, Arrive(c)  PROVE StepInLoop'
  BY <1>2 DEF Arrive, Zcl!Arrive, taskVars, StepInLoop
<1>3. CASE AppMain \/ CallLock \/ CreateTask \/ StartStack
  BY <1>3 DEF AppMain, CallLock, CreateTask, StartStack, zclVars, StepInLoop
<1>4. ASSUME UNCHANGED topVars  PROVE StepInLoop'
  BY <1>4 DEF topVars, taskVars, zclVars, StepInLoop
<1> QED  BY <1>1, <1>2, <1>3, <1>4 DEF SmartNext, Under, allVars

\* An opening takes less than OpenWork steps.
LEMMA OpenWorkBound ==
  SmartInv => /\ OpenWork \in Nat
              /\ OpenLock => WorkLeft' \in Nat /\ WorkLeft' < OpenWork
<1> SUFFICES ASSUME SmartInv
             PROVE  /\ OpenWork \in Nat
                    /\ OpenLock => WorkLeft' \in Nat /\ WorkLeft' < OpenWork
  OBVIOUS
<1>1. "open" \in Frame /\ Size["open"] \in Nat
  BY FrameAssumption, SizeAssumption DEF LockFrames
<1>2. OpenWork \in Nat
  BY <1>1, FifoAssumption DEF OpenWork
<1>3. ASSUME OpenLock  PROVE WorkLeft' \in Nat /\ WorkLeft' < OpenWork
  <2>1. /\ fifo \in Seq(Byte) /\ Len(fifo) <= FifoLen /\ IdleHasWritten
        /\ Len(fifo) \in Nat
    BY LenProperties DEF SmartInv, LockInv, UartInv, TypeOK, FifoBounded
  <2>2. stage' = "open" /\ SendData("open") /\ fifo' = fifo /\ call = "idle"
    BY <1>3 DEF OpenLock, SendFrame, SendData
  <2>3. WorkLeft' = WriteLeft' + 1
    BY <2>2 DEF WorkLeft, AfterWrite
  <2>4. /\ WriteLeft' \in Nat
        /\ WriteLeft' <= 2 * Size["open"] + Len(fifo) + 1
    <3>1. CASE SendFails
      <4>1. call' = "idle" /\ Len(pending') = 0
        BY <2>1, <2>2, <3>1 DEF SendFails, IdleHasWritten
      <4> QED  BY <1>1, <2>1, <2>2, <4>1 DEF WriteLeft
    <3>2. CASE WriteStarts("open")
      <4>1. call' = "writing" /\ Len(pending') = Size["open"]
        BY <1>1, <3>2, FrameBytesProperties DEF WriteStarts
      <4> QED  BY <1>1, <2>1, <2>2, <4>1 DEF WriteLeft
    <3> QED  BY <2>2, <3>1, <3>2 DEF SendData
  <2>5. \A w, z, l, f \in Nat :
          w <= 2 * z + l + 1 /\ l <= f => w + 1 \in Nat /\ w + 1 < 2 * z + f + 3
    OBVIOUS
  <2> QED  BY <1>1, <2>1, <2>3, <2>4, <2>5, FifoAssumption DEF OpenWork
<1> QED  BY <1>2, <1>3

\* The arithmetic of TaskWork.
LEMMA Multiples ==
  \A n, w \in Nat : /\ n * w \in Nat
                    /\ 3 * w = 2 * w + w /\ 2 * w = w + w /\ 1 * w = w /\ 0 * w = 0
                    /\ n > 0 => n * w = (n - 1) * w + w /\ (n - 1) * w \in Nat
OBVIOUS

\* Every step of a command that changes anything of it leaves less of it.
LEMMA TaskAdvanceStep ==
  /\ SmartInv /\ BetweenCalls /\ StepInLoop /\ SmartNext
  /\ step /= "idle" /\ ~UNCHANGED <<step, todo, stage, left, callVars>>
  => TaskWork' < TaskWork
<1> SUFFICES ASSUME SmartInv, BetweenCalls, StepInLoop, SmartNext, step /= "idle",
                    ~UNCHANGED <<step, todo, stage, left, callVars>>
             PROVE  TaskWork' < TaskWork
  OBVIOUS
<1>1. /\ main = "loop" /\ todo \in Seq({"open"}) /\ stage \in {"open", "idle"}
      /\ step \in {"raw", "stack", "action"} /\ LockInv /\ LockTypeOK
  BY DEF SmartInv, BootOrder, StepInLoop, SmartTypeOK, Zcl!ZclTypeOK
<1>2. /\ OpenWork \in Nat /\ OpenWork + 1 \in Nat /\ OpenWork' = OpenWork
      /\ Len(todo) \in Nat /\ WorkLeft \in Nat
  BY <1>1, OpenWorkBound, WorkTypes, LenProperties DEF OpenWork
<1>3. StepsLeft \in {1, 2, 3}
  BY DEF StepsLeft
<1> DEFINE P == StepsLeft * (OpenWork + 1)
           Q == Len(todo) * OpenWork
<1>4. P \in Nat /\ P >= OpenWork + 1 /\ Q \in Nat /\ TaskWork = P + Q + WorkLeft
  <2>1. P \in Nat /\ P >= OpenWork + 1
    BY <1>2, <1>3, Multiples
  <2>2. Q \in Nat
    BY <1>2, Multiples
  <2> QED  BY <2>1, <2>2 DEF TaskWork
<1>5. ASSUME step' = "idle"  PROVE TaskWork' < TaskWork
  <2>1. TaskWork' = 0
    BY <1>5 DEF TaskWork
  <2>2. TaskWork >= 1
    <3> HIDE DEF P, Q
    <3>1. \A p, q, w, o \in Nat : p >= o + 1 => p + q + w \in Nat /\ p + q + w > 0
      OBVIOUS
    <3> QED  BY <1>2, <1>4, <3>1
  <2> QED  BY <1>2, <1>4, <2>1, <2>2
<1>6. CASE CallLock
  <2>1. /\ todo /= <<>> /\ todo' = Tail(todo) /\ step' = step /\ Head(todo) = "open"
        /\ OpenLock
    BY <1>1, <1>6 DEF CallLock, zclVars
  <2>2. Len(todo') = Len(todo) - 1 /\ Len(todo) > 0
    BY <1>1, <2>1
  <2>3. WorkLeft' \in Nat /\ WorkLeft' < OpenWork
    BY <2>1, OpenWorkBound
  <2>4. StepsLeft' = StepsLeft
    BY <2>1 DEF StepsLeft
  <2>5. TaskWork' = P + (Len(todo) - 1) * OpenWork + WorkLeft'
    BY <1>2, <2>1, <2>2, <2>4 DEF TaskWork
  <2>6. Q = (Len(todo) - 1) * OpenWork + OpenWork /\ (Len(todo) - 1) * OpenWork \in Nat
    BY <1>2, <2>2, Multiples
  <2> DEFINE R == (Len(todo) - 1) * OpenWork
  <2> HIDE DEF P, Q, R
  <2>7. \A p, r, o, w, v \in Nat : v < o => p + r + v < p + (r + o) + w
    OBVIOUS
  <2>8. TaskWork' = P + R + WorkLeft' /\ Q = R + OpenWork /\ R \in Nat
    BY <2>5, <2>6 DEF R
  <2> QED  BY <1>2, <1>4, <2>3, <2>7, <2>8
<1>7. CASE Loop
  <2>1. /\ stage = "idle" /\ todo = <<>> /\ stage' = "idle" /\ Len(todo') \in {0, 1}
    BY <1>7, LoopCounts DEF Loop, Free, vars, lockVars
  <2>2. WorkLeft = 0 /\ WorkLeft' = 0 /\ Len(todo) = 0
    BY <2>1 DEF WorkLeft
  <2>3. CASE step' /= "idle"
    <3>1. \/ step = "raw" /\ step' = "stack"
          \/ step = "stack" /\ step' = "action"
      BY <1>1, <1>7, <2>3
      DEF Loop, Zcl!Take, Zcl!RawCommandCallback, Zcl!StackProcesses, Zcl!ActionHandler
    <3>2. StepsLeft' = StepsLeft - 1 /\ StepsLeft' \in {1, 2} /\ StepsLeft \in {2, 3}
      BY <3>1 DEF StepsLeft
    <3>3. TaskWork' = StepsLeft' * (OpenWork + 1) + Len(todo') * OpenWork + 0
      BY <1>2, <2>2, <2>3 DEF TaskWork
    <3>4. StepsLeft' * (OpenWork + 1) + (OpenWork + 1) = P
      BY <1>2, <3>2, Multiples
    <3>5. Len(todo') * OpenWork \in Nat /\ Len(todo') * OpenWork <= OpenWork
      <4>1. CASE Len(todo') = 0
        <5>1. Len(todo') * OpenWork = 0
          BY <1>2, <4>1, Multiples
        <5> QED  BY <1>2, <5>1
      <4>2. CASE Len(todo') = 1
        <5>1. Len(todo') * OpenWork = OpenWork
          BY <1>2, <4>2, Multiples
        <5> QED  BY <1>2, <5>1
      <4> QED  BY <2>1, <4>1, <4>2
    <3>6. StepsLeft' * (OpenWork + 1) \in Nat
      BY <1>2, <3>2, Multiples
    <3> DEFINE A == StepsLeft' * (OpenWork + 1)
               B == Len(todo') * OpenWork
    <3>7. /\ A \in Nat /\ B \in Nat /\ B <= OpenWork /\ A + (OpenWork + 1) = P
          /\ TaskWork' = A + B + 0
      BY <3>3, <3>4, <3>5, <3>6
    <3> HIDE DEF A, B, P, Q
    <3>8. \A a, b, o, q \in Nat : b <= o => a + b + 0 < (a + (o + 1)) + q + 0
      OBVIOUS
    <3> QED  BY <1>2, <1>4, <2>2, <3>7, <3>8
  <2> QED  BY <1>5, <2>3
<1>8. CASE Under(StartPause \/ Tick \/ DisableLatch \/ Return \/ UartRuns)
  <2>1. UNCHANGED <<step, todo>>
    BY <1>8 DEF Under, topVars, taskVars, zclVars
  <2>2. LockNext /\ ~UNCHANGED <<stage, left, callVars, fifo>>
    BY <1>8, <2>1 DEF Under, LockNext
  <2>3. stage /= "idle"
    <3> SUFFICES ASSUME stage = "idle"  PROVE UNCHANGED <<stage, left, callVars>>
      BY <2>1
    <3>1. call = "idle"
      BY DEF BetweenCalls
    <3> QED
      BY <1>8, <3>1
      DEF Under, StartPause, Tick, DisableLatch, Return, UartRuns, PutByte, WriteDone,
          FloatingPin, ShiftOut, lockVars, callVars
  <2>4. WorkLeft' < WorkLeft
    BY <1>1, <2>2, <2>3, AdvanceStep
  <2>5. TaskWork' = P + Q + WorkLeft' /\ WorkLeft' \in Nat
    <3>1. StepsLeft' = StepsLeft
      BY <2>1 DEF StepsLeft
    <3>2. (LockTypeOK => WorkLeft \in Nat)'
      BY WorkTypes, PTL
    <3>3. LockTypeOK'
      BY <1>1, <2>2, LockTypeStep
    <3> QED  BY <1>2, <2>1, <3>1, <3>2, <3>3 DEF TaskWork
  <2> HIDE DEF P, Q
  <2>6. P + Q \in Nat
    BY <1>4
  <2>7. \A s, v, w \in Nat : v < w => s + v < s + w
    OBVIOUS
  <2> QED  BY <1>2, <1>4, <2>4, <2>5, <2>6, <2>7
<1>9. CASE Crash
  BY <1>5, <1>9 DEF Crash
<1>10. ~(AppMain \/ CreateTask \/ StartStack)
  BY <1>1 DEF AppMain, CreateTask, StartStack
<1>11. ASSUME NEW c \in Command, Arrive(c)  PROVE FALSE
  BY <1>11 DEF Arrive, Zcl!Arrive, vars, uartVars, lockVars, taskVars
<1> QED  BY <1>6, <1>7, <1>8, <1>9, <1>10, <1>11 DEF SmartNext

\* The task takes a command on with no call of the lock made or to make.
LEMMA CommandBegins ==
  SmartInv /\ [SmartNext]_allVars /\ step = "idle" /\ step' /= "idle"
    => TaskWork' = 3 * (OpenWork + 1)
<1> SUFFICES ASSUME SmartInv, [SmartNext]_allVars, step = "idle", step' /= "idle"
             PROVE  TaskWork' = 3 * (OpenWork + 1)
  OBVIOUS
<1>1. Loop /\ Zcl!Take
  BY DEF SmartNext, AppMain, CallLock, CreateTask, StartStack, Loop, Crash, Arrive,
         Zcl!Arrive, Zcl!RawCommandCallback, Zcl!StackProcesses, Zcl!ActionHandler,
         Under, topVars, zclVars, allVars
<1>2. /\ stage' = "idle" /\ step' = "raw" /\ calls' = calls
      /\ calls \in Seq(CallRecords) /\ Len(calls) \in Nat
  BY <1>1, CountTypes, LenProperties DEF Loop, Free, vars, lockVars, Zcl!Take
<1>3. Len(todo') = 0
  <2>1. todo' = [i \in 1 .. Len(calls') - Len(calls) |-> calls'[Len(calls) + i].call]
    BY <1>1 DEF Loop, NewCalls
  <2>2. todo' = [i \in 1 .. 0 |-> calls'[Len(calls) + i].call]
    BY <1>2, <2>1
  <2> QED  BY <2>2
<1>4. OpenWork \in Nat /\ OpenWork' = OpenWork
  BY OpenWorkBound DEF OpenWork
<1>5. TaskWork' = 3 * (OpenWork + 1) + 0 * OpenWork + 0
  BY <1>2, <1>3, <1>4 DEF TaskWork, StepsLeft, WorkLeft
<1> QED  BY <1>4, <1>5

-----------------------------------------------------------------------------
(* The theorems.                                                           *)

\* However commands, failing sends and restarts interleave, the lock is told to open
\* as often as the callbacks asked for it and sendData took it, never more often.
THEOREM OpensAreAsked == SmartSpec => []OpensAsAsked
<1>1. SmartInv /\ CountInv => OpensAsAsked
  <2> SUFFICES ASSUME SmartInv, CountInv  PROVE OpensAsAsked
    OBVIOUS
  <2>1. /\ OpenBytes(accepted, 1) \in Nat /\ Openings \in Nat /\ TodoOpens \in Nat
        /\ failed \in Nat
    BY CountTypes
  <2>2. Free => TodoOpens = 0
    BY DEF Free, TodoOpens
  <2> QED  BY <2>1, <2>2 DEF CountInv, OpensAsAsked
<1> QED  BY <1>1, CountInvariance, PTL

\* End to end: the first bytes of openings the UART was ever given are no more than the
\* commands with the id of Unlock Door the task ever took on, whatever else arrived
\* and however often the device was restarted.
THEOREM AnswersRequests == SmartSpec => []OpeningsAnswerRequests
<1>1. SmartInv /\ CountInv /\ RequestInv => OpeningsAnswerRequests
  <2> SUFFICES ASSUME SmartInv, CountInv, RequestInv  PROVE OpeningsAnswerRequests
    OBVIOUS
  <2>1. OpenBytes(accepted, 1) \in Nat /\ Openings \in Nat /\ TodoOpens \in Nat
    BY CountTypes
  <2>2. Openings <= Cardinality(Requests) /\ Cardinality(Requests) \in Nat
    BY OpeningsHaveRequests
  <2>3. OpenBytes(accepted, 1) <= Cardinality(Requests)
    BY <2>1, <2>2 DEF CountInv
  <2> QED  BY <2>3 DEF OpeningsAnswerRequests, Requests
<1> QED  BY <1>1, RequestInvariance, PTL

\* A command is begun with 3 * (OpenWork + 1) steps before the task, ...
THEOREM CommandsBounded ==
  SmartSpec => [][step = "idle" /\ step' /= "idle"
                    => TaskWork' = 3 * (OpenWork + 1)]_allVars
<1>1. SmartInv /\ [SmartNext]_allVars
        => [step = "idle" /\ step' /= "idle" => TaskWork' = 3 * (OpenWork + 1)]_allVars
  BY CommandBegins
<1> QED  BY <1>1, SmartInvariance, PTL DEF SmartSpec

\* ... and gets nearer to its end with every step the task takes for it, its blocking
\* calls of the lock included: the task is back in the stack's loop after that many
\* steps at most, for all frame lengths and FIFOs.
THEOREM CommandAdvances == SmartSpec => TaskAdvances
<1>1. SmartInit => BetweenCalls /\ StepInLoop
  BY DEF SmartInit, LockInit, UartInit, Zcl!ZclInit, BetweenCalls, StepInLoop
<1>2. BetweenCalls /\ [SmartNext]_allVars => BetweenCalls'
  BY LockStep, BetweenCallsStep
<1>3. StepInLoop /\ [SmartNext]_allVars => StepInLoop'
  BY StepInLoopStep
<1>4. SmartInv /\ BetweenCalls /\ StepInLoop /\ [SmartNext]_allVars
        => [step /= "idle" /\ ~UNCHANGED <<step, todo, stage, left, callVars>>
              => TaskWork' < TaskWork]_allVars
  BY TaskAdvanceStep
<1> QED
  BY <1>1, <1>2, <1>3, <1>4, SmartInvariance, PTL DEF SmartSpec, TaskAdvances
=============================================================================
