-------------------------- MODULE LockDriverProofs --------------------------
(***************************************************************************)
(* Proofs about the lock driver: it uses the UART driver as UartDriver.tla *)
(* prescribes, so that everything proved of the UART driver holds of it;   *)
(* the line is silent when turnOffAutomaticLatch sends its command; every  *)
(* call is through after a bounded number of steps; and ESP_OK means that  *)
(* the command was sent.  All of it for every FIFO length, tick and frame  *)
(* length PauseAssumption admits, with restarts anywhere.                  *)
(***************************************************************************)
EXTENDS LockDriver, UartDriverProofs

-----------------------------------------------------------------------------
\* Every step of the lock driver is a step of the UART driver or leaves it alone.
LEMMA UartStep == LockNext => [UartNext]_uartVars
<1> SUFFICES ASSUME LockNext PROVE [UartNext]_uartVars
  OBVIOUS
<1>1. \A f \in LockFrames : SendData(f) => UartNext
  BY FrameAssumption DEF UartNext
<1>2. ASSUME NEW p \in Pins, InitLock(p[1], p[2]) PROVE UartNext
  BY <1>2, ArgsAssumption DEF InitLock, UartNext
<1>3. ASSUME NEW p \in Pins, InitRefused(p[1], p[2]) PROVE UNCHANGED uartVars
  BY <1>3 DEF InitRefused
<1>4. ASSUME SetKey \/ OpenLock \/ TurnOffAutomaticLatch \/ DisableLatch
      PROVE  UartNext
  BY <1>1, <1>4 DEF SetKey, OpenLock, SendFrame, TurnOffAutomaticLatch,
                    DisableLatch, LockFrames
<1>5. ASSUME StartPause \/ Return PROVE UNCHANGED uartVars
  BY <1>5 DEF StartPause, Return
<1>6. ASSUME Tick PROVE [UartNext]_uartVars
  BY <1>6 DEF Tick, UartNext
<1>7. ASSUME UartRuns \/ Restart PROVE UartNext
  BY <1>7 DEF UartRuns, Restart, UartNext
<1> QED
  BY <1>2, <1>3, <1>4, <1>5, <1>6, <1>7 DEF LockNext

\* The UART driver's invariant holds of the lock driver's steps.
LEMMA UartInvStep == UartInv /\ [LockNext]_vars => UartInv'
<1>1. [LockNext]_vars => [UartNext]_uartVars
  BY UartStep DEF vars
<1> QED
  BY <1>1, Inductive

\* The pause is a natural number of byte times.
LEMMA PauseBytesNat == PauseBytes \subseteq Nat
<1> SUFFICES ASSUME NEW n \in PauseBytes PROVE n \in Nat
  OBVIOUS
<1>1. DelayTicks \in Nat
  BY TickAssumption DEF DelayTicks
<1>2. CASE DelayTicks = 0
  BY <1>2 DEF PauseBytes
<1>3. CASE DelayTicks /= 0
  <2>1. (DelayTicks - 1) * TickBytes \in Nat /\ DelayTicks * TickBytes \in Nat
    BY <1>1, <1>3, TickAssumption
  <2>2. n \in (DelayTicks - 1) * TickBytes .. DelayTicks * TickBytes
    BY <1>3 DEF PauseBytes
  <2> QED
    BY <2>1, <2>2
<1> QED
  BY <1>2, <1>3

\* Every step of the lock driver keeps its types.
LEMMA LockTypeStep == LockTypeOK /\ [LockNext]_vars => LockTypeOK'
<1> SUFFICES ASSUME LockTypeOK, [LockNext]_vars PROVE LockTypeOK'
  OBVIOUS
<1>1. TypeOK'
  BY UartStep, TypeStep DEF LockTypeOK, vars
<1> DEFINE Rest == /\ stage \in LockFrames \cup {"idle", "pause"} /\ left \in Nat
                   /\ result \in {"none", "OK", "FAIL", "INVALID_ARG"}
<1>2. Rest /\ TypeOK
  BY DEF LockTypeOK
<1> USE DEF lockVars, LockFrames
<1>3. ASSUME NEW p \in Pins, InitLock(p[1], p[2]) PROVE Rest'
  <2>1. result' \in {"OK", "FAIL"}
    BY <1>3 DEF InitLock, InitDriver
  <2> QED
    BY <1>2, <1>3, <2>1 DEF InitLock
<1>4. ASSUME NEW p \in Pins, InitRefused(p[1], p[2]) PROVE Rest'
  BY <1>2, <1>4 DEF InitRefused
<1>5. ASSUME SetKey \/ OpenLock \/ TurnOffAutomaticLatch \/ DisableLatch
      PROVE  Rest'
  BY <1>2, <1>5 DEF SetKey, OpenLock, SendFrame, TurnOffAutomaticLatch,
                    DisableLatch
<1>6. ASSUME StartPause PROVE Rest'
  BY <1>2, <1>6, PauseBytesNat DEF StartPause
<1>7. ASSUME Tick PROVE Rest'
  BY <1>2, <1>7 DEF Tick
<1>8. ASSUME Return PROVE Rest'
  BY <1>2, <1>8 DEF Return, TypeOK
<1>9. ASSUME UartRuns \/ Restart \/ UNCHANGED vars PROVE Rest'
  BY <1>2, <1>9 DEF UartRuns, Restart, vars
<1>10. Rest'
  BY <1>3, <1>4, <1>5, <1>6, <1>7, <1>8, <1>9 DEF LockNext
<1> QED
  BY <1>1, <1>10 DEF LockTypeOK

\* Flow control stays off: init asks for none, and nothing else turns it on.
LEMMA NoFlowStep == ~hwFlow /\ [LockNext]_vars => ~hwFlow'
<1> SUFFICES ASSUME ~hwFlow, [LockNext]_vars PROVE ~hwFlow'
  OBVIOUS
<1> USE DEF uartVars, lineVars
<1>1. ASSUME NEW p \in Pins, InitLock(p[1], p[2]) PROVE ~hwFlow'
  BY <1>1 DEF InitLock, InitDriver, UartArgs
<1>2. ASSUME NEW f, SendData(f) PROVE ~hwFlow'
  BY <1>2 DEF SendData
<1>3. ASSUME PutByte \/ WriteDone \/ ShiftOut \/ FloatingPin \/ Reset
      PROVE  ~hwFlow'
  BY <1>3 DEF PutByte, WriteDone, ShiftOut, FloatingPin, Reset
<1>4. ASSUME UNCHANGED uartVars PROVE ~hwFlow'
  BY <1>4
<1> HIDE DEF uartVars, lineVars
<1> QED
  BY <1>1, <1>2, <1>3, <1>4
     DEF LockNext, InitRefused, SetKey, OpenLock, SendFrame, StartPause, Tick,
         TurnOffAutomaticLatch, DisableLatch, Return, Restart, UartRuns, vars

-----------------------------------------------------------------------------
\* Every step keeps the lock driver's inductive invariant.
LEMMA LockInductive == LockInv /\ [LockNext]_vars => LockInv'
<1> SUFFICES ASSUME LockInv, [LockNext]_vars PROVE LockInv'
  OBVIOUS
<1>1. LockTypeOK' /\ UartInv' /\ ~hwFlow'
  BY LockTypeStep, UartInvStep, NoFlowStep DEF LockInv
<1>2. /\ TypeOK /\ stage \in LockFrames \cup {"idle", "pause"} /\ left \in Nat
      /\ PauseEmptiesFifo /\ ~hwFlow /\ FifoBounded
      /\ fifo \in Seq(Byte) /\ Len(fifo) \in Nat
  BY LenProperties DEF LockInv, UartInv, LockTypeOK, TypeOK
<1> USE DEF lockVars
<1>3. ASSUME stage' /= "pause" PROVE PauseEmptiesFifo'
  BY <1>3 DEF PauseEmptiesFifo
<1>4. ASSUME NEW p \in Pins, InitLock(p[1], p[2]) PROVE PauseEmptiesFifo'
  BY <1>3, <1>4 DEF InitLock
<1>5. ASSUME NEW p \in Pins, InitRefused(p[1], p[2]) PROVE PauseEmptiesFifo'
  BY <1>3, <1>5 DEF InitRefused
<1>6. ASSUME SetKey \/ OpenLock \/ TurnOffAutomaticLatch \/ DisableLatch
      PROVE  PauseEmptiesFifo'
  BY <1>3, <1>6 DEF SetKey, OpenLock, SendFrame, TurnOffAutomaticLatch,
                    DisableLatch
<1>7. ASSUME StartPause PROVE PauseEmptiesFifo'
  <2>1. /\ left' \in Nat /\ FifoLen <= left' /\ call = "idle"
        /\ fifo' = fifo /\ call' = call
    BY <1>7, PauseBytesNat, PauseAssumption DEF StartPause, uartVars, callVars
  <2> QED
    BY <1>2, <2>1, FifoAssumption DEF FifoBounded, PauseEmptiesFifo
<1>8. ASSUME Tick PROVE PauseEmptiesFifo'
  <2>1. left' = left - 1 /\ stage = "pause" /\ call = "idle" /\ Len(fifo) <= left
    BY <1>2, <1>8 DEF Tick, PauseEmptiesFifo
  <2>2. CASE fifo /= <<>>
    <3>1. ShiftOut
      BY <1>2, <1>8, <2>2 DEF Tick, HeldByCts
    <3>2. fifo' = Tail(fifo) /\ call' = call
      BY <3>1 DEF ShiftOut, callVars
    <3>3. Len(fifo') = Len(fifo) - 1
      BY <1>2, <2>2, <3>2, HeadTailProperties
    <3> QED
      BY <1>2, <2>1, <3>2, <3>3 DEF PauseEmptiesFifo
  <2>3. CASE fifo = <<>>
    <3>1. fifo' = fifo /\ call' = call
      BY <1>8, <2>3 DEF Tick, uartVars, callVars
    <3>2. Len(fifo') = 0 /\ left' >= 0
      BY <1>2, <1>8, <2>3, <3>1, EmptySeq DEF Tick
    <3> QED
      BY <2>1, <3>1, <3>2 DEF PauseEmptiesFifo
  <2> QED
    BY <2>2, <2>3
<1>9. ASSUME Return \/ Restart PROVE PauseEmptiesFifo'
  BY <1>3, <1>9 DEF Return, Restart
<1>10. ASSUME UartRuns PROVE PauseEmptiesFifo'
  <2>1. CASE stage = "pause"
    <3>1. call = "idle"
      BY <1>2, <2>1 DEF PauseEmptiesFifo
    <3>2. FloatingPin /\ UNCHANGED lockVars
      BY <1>10, <2>1, <3>1 DEF UartRuns, PutByte, WriteDone
    <3> QED
      BY <1>2, <3>2 DEF FloatingPin, callVars, PauseEmptiesFifo
  <2>2. CASE stage /= "pause"
    BY <1>3, <1>10, <2>2 DEF UartRuns
  <2> QED
    BY <2>1, <2>2
<1>11. ASSUME UNCHANGED vars PROVE PauseEmptiesFifo'
  BY <1>2, <1>11 DEF vars, uartVars, callVars, PauseEmptiesFifo
<1>12. PauseEmptiesFifo'
  BY <1>4, <1>5, <1>6, <1>7, <1>8, <1>9, <1>10, <1>11 DEF LockNext
<1> QED
  BY <1>1, <1>12 DEF LockInv

\* The invariant holds before init is called.
LEMMA LockInitially == LockInit => LockInv
<1> SUFFICES ASSUME LockInit PROVE LockInv
  OBVIOUS
<1>1. UartInv
  BY Initially DEF LockInit
<1> QED
  BY <1>1 DEF LockInit, LockInv, LockTypeOK, UartInv, PauseEmptiesFifo, UartInit

-----------------------------------------------------------------------------
(* What is left of a call.                                                 *)

\* The pause is at most DelayTicks whole ticks.
LEMMA PauseBytesBound == \A n \in PauseBytes : n <= DelayTicks * TickBytes
<1> SUFFICES ASSUME NEW n \in PauseBytes PROVE n <= DelayTicks * TickBytes
  OBVIOUS
<1>1. DelayTicks \in Nat
  BY TickAssumption DEF DelayTicks
<1>2. CASE DelayTicks = 0
  <2>1. n = 0 /\ DelayTicks * TickBytes = 0
    BY <1>2, TickAssumption DEF PauseBytes
  <2> QED
    BY <2>1
<1>3. CASE DelayTicks /= 0
  <2>1. (DelayTicks - 1) * TickBytes \in Nat /\ DelayTicks * TickBytes \in Nat
    BY <1>1, <1>3, TickAssumption
  <2>2. n \in (DelayTicks - 1) * TickBytes .. DelayTicks * TickBytes
    BY <1>3 DEF PauseBytes
  <2> QED
    BY <2>1, <2>2
<1> QED
  BY <1>2, <1>3

\* PauseAssumption is true of the build's values: 10 ms a tick, 115 bytes a tick, a
\* FIFO of 128 bytes.
LEMMA BuildPause ==
  ASSUME TickPeriodMs = 10, TickBytes = 115, FifoLen = 128
  PROVE  \A n \in PauseBytes : FifoLen <= n
<1>1. DelayTicks = 5
  BY DEF DelayTicks
<1>2. PauseBytes = 460 .. 575
  BY <1>1 DEF PauseBytes
<1> QED
  BY <1>2

\* What is left of a call is a natural number, and something is left of every call.
LEMMA WorkTypes ==
  LockTypeOK => /\ Len(pending) \in Nat /\ Len(fifo) \in Nat
                /\ WriteLeft \in Nat /\ LatchWork \in Nat
                /\ AfterWrite \in Nat /\ AfterWrite >= 1 /\ WorkLeft \in Nat
                /\ DelayTicks * TickBytes \in Nat
<1> SUFFICES ASSUME LockTypeOK
             PROVE  /\ Len(pending) \in Nat /\ Len(fifo) \in Nat
                    /\ WriteLeft \in Nat /\ LatchWork \in Nat
                    /\ AfterWrite \in Nat /\ AfterWrite >= 1 /\ WorkLeft \in Nat
                    /\ DelayTicks * TickBytes \in Nat
  OBVIOUS
<1>1. Len(pending) \in Nat /\ Len(fifo) \in Nat /\ left \in Nat
  BY LenProperties DEF LockTypeOK, TypeOK
<1>2. WriteLeft \in Nat
  BY <1>1 DEF WriteLeft
<1>3. LatchWork \in Nat
  <2>1. Size["disableLatch"] \in Nat
    BY SizeAssumption, FrameAssumption DEF LockFrames
  <2> QED
    BY <2>1 DEF LatchWork
<1>4. DelayTicks * TickBytes \in Nat
  <2>1. DelayTicks \in Nat
    BY TickAssumption DEF DelayTicks
  <2> QED
    BY <2>1, TickAssumption
<1>5. AfterWrite \in Nat /\ AfterWrite >= 1
  BY <1>1, <1>3, <1>4 DEF AfterWrite
<1> QED
  BY <1>1, <1>2, <1>3, <1>4, <1>5 DEF WorkLeft

\* A sum gets less if its right part does, ...
LEMMA LessRight == \A a, b, c \in Nat : c < b => a + c < a + b
OBVIOUS

\* ... if its left part does, ...
LEMMA LessLeft == \A a, b, c \in Nat : c < b => c + a < b + a
OBVIOUS

\* ... and if one part does and the other gets no more.
LEMMA LessBoth ==
  \A a, b, c, d \in Nat : \A s, t :
    a <= b /\ c < d /\ s = a + c /\ t = b + d => s < t
OBVIOUS

\* Every step of a call that changes anything of it leaves less of it.
LEMMA AdvanceStep ==
  LockInv /\ LockNext /\ stage /= "idle"
    /\ ~UNCHANGED <<stage, left, callVars, fifo>>
  => WorkLeft' < WorkLeft
<1> SUFFICES ASSUME LockInv, LockNext, stage /= "idle",
                    ~UNCHANGED <<stage, left, callVars, fifo>>
             PROVE  WorkLeft' < WorkLeft
  OBVIOUS
<1>1. /\ LockTypeOK /\ TypeOK /\ PauseEmptiesFifo /\ IdleHasWritten /\ left \in Nat
      /\ pending \in Seq(Byte) /\ fifo \in Seq(Byte)
  BY DEF LockInv, UartInv, LockTypeOK, TypeOK
<1>2. /\ Len(pending) \in Nat /\ Len(fifo) \in Nat /\ WriteLeft \in Nat
      /\ LatchWork \in Nat /\ AfterWrite \in Nat /\ AfterWrite >= 1
  BY <1>1, WorkTypes
<1>3. WorkLeft = WriteLeft + AfterWrite
  BY DEF WorkLeft
<1>4. CASE stage' = "idle"
  BY <1>2, <1>3, <1>4 DEF WorkLeft
<1>5. CASE StartPause
  <2>1. /\ stage = "wakeup" /\ stage' = "pause" /\ pending' = pending
        /\ fifo' = fifo /\ call' = call /\ left' \in Nat
        /\ left' <= DelayTicks * TickBytes
    BY <1>5, PauseBytesBound, PauseBytesNat DEF StartPause, uartVars, callVars
  <2>2. WriteLeft' = WriteLeft /\ LatchWork' = LatchWork
    BY <2>1 DEF WriteLeft, LatchWork
  <2>3. /\ AfterWrite = DelayTicks * TickBytes + LatchWork + 2
        /\ AfterWrite' = left' + LatchWork + 1
    BY <2>1, <2>2 DEF AfterWrite
  <2>4. AfterWrite' < AfterWrite /\ AfterWrite' \in Nat
    <3>1. DelayTicks * TickBytes \in Nat
      BY <1>1, WorkTypes
    <3>2. \A d, l, w \in Nat : \A s, t : l <= d /\ s = l + w + 1 /\ t = d + w + 2
                 => s < t /\ s \in Nat
      OBVIOUS
    <3> QED
      BY <1>2, <2>1, <2>3, <3>1, <3>2
  <2>5. WorkLeft' = WriteLeft + AfterWrite'
    BY <2>1, <2>2 DEF WorkLeft
  <2> QED
    BY <1>2, <1>3, <2>4, <2>5, LessRight
<1>6. CASE Tick
  <2>1. /\ stage = "pause" /\ stage' = stage /\ left' = left - 1
        /\ call' = call /\ pending' = pending
    BY <1>6 DEF Tick, ShiftOut, uartVars, callVars
  <2>2. Len(fifo') \in Nat /\ Len(fifo') <= Len(fifo)
    <3>1. CASE fifo /= <<>> /\ fifo' = Tail(fifo)
      BY <1>1, <1>2, <3>1, HeadTailProperties
    <3>2. CASE fifo' = fifo
      BY <1>2, <3>2
    <3> QED
      BY <1>6, <3>1, <3>2 DEF Tick, ShiftOut, uartVars
  <2>3. /\ AfterWrite = left + LatchWork + 1
        /\ AfterWrite' = left - 1 + LatchWork + 1
    BY <2>1 DEF AfterWrite, LatchWork
  <2>4. WorkLeft' = WriteLeft' + AfterWrite' /\ WriteLeft' \in Nat
        /\ WriteLeft' <= WriteLeft
    BY <1>2, <2>1, <2>2 DEF WorkLeft, WriteLeft
  <2>5. AfterWrite' < AfterWrite /\ AfterWrite' \in Nat
    BY <1>1, <1>2, <1>6, <2>3 DEF Tick
  <2> QED
    BY <1>2, <1>3, <2>4, <2>5, LessBoth
<1>7. CASE DisableLatch
  <2>1. /\ stage = "pause" /\ left = 0 /\ call = "idle" /\ pending = <<>>
        /\ stage' = "disableLatch" /\ fifo' = fifo /\ SendData("disableLatch")
    BY <1>1, <1>7 DEF DisableLatch, SendData, IdleHasWritten
  <2>2. WriteLeft = Len(fifo) /\ AfterWrite = LatchWork + 1
    <3>1. Len(pending) = 0
      BY <2>1, EmptySeq
    <3> QED
      BY <1>2, <2>1, <3>1 DEF WriteLeft, AfterWrite
  <2>3. "disableLatch" \in Frame /\ Size["disableLatch"] \in Nat
    BY FrameAssumption, SizeAssumption DEF LockFrames
  <2>4. WriteLeft' \in Nat /\ WriteLeft' <= Len(fifo) + 2 * Size["disableLatch"] + 1
    <3>1. CASE SendFails
      <4>1. call' = "idle" /\ Len(pending') = 0
        BY <2>1, <3>1, EmptySeq DEF SendFails
      <4> QED
        BY <1>2, <2>1, <2>3, <4>1 DEF WriteLeft
    <3>2. CASE WriteStarts("disableLatch")
      <4>1. call' = "writing" /\ Len(pending') = Size["disableLatch"]
        BY <2>3, <3>2, FrameBytesProperties DEF WriteStarts
      <4> QED
        BY <1>2, <2>1, <2>3, <4>1 DEF WriteLeft
    <3> QED
      BY <2>1, <3>1, <3>2 DEF SendData
  <2>5. WorkLeft' = WriteLeft' + 1
    BY <2>1 DEF WorkLeft, AfterWrite
  <2>6. LatchWork = 2 * Size["disableLatch"] + 2
    BY DEF LatchWork
  <2>7. \A l, w, z \in Nat : w <= l + 2 * z + 1 => w + 1 < l + ((2 * z + 2) + 1)
    OBVIOUS
  <2> QED
    BY <1>2, <1>3, <2>2, <2>3, <2>4, <2>5, <2>6, <2>7
<1>8. CASE UartRuns
  <2>1. /\ stage' = stage /\ left' = left
        /\ PutByte \/ WriteDone \/ FloatingPin \/ ShiftOut
    BY <1>8 DEF UartRuns, lockVars
  <2>2. AfterWrite' = AfterWrite
    BY <2>1 DEF AfterWrite, LatchWork
  <2>3. ~FloatingPin
    BY <2>1 DEF FloatingPin, callVars
  <2>4. CASE PutByte
    <3>1. call' = call /\ fifo' = Append(fifo, Head(pending)) /\ pending' = Tail(pending)
          /\ pending /= <<>>
      BY <2>4 DEF PutByte
    <3>2. Len(fifo') = Len(fifo) + 1 /\ Len(pending') = Len(pending) - 1
      BY <1>1, <3>1, HeadTailProperties, AppendProperties
    <3> QED
      BY <1>2, <1>3, <2>1, <2>2, <3>1, <3>2 DEF WorkLeft, WriteLeft
  <2>5. CASE WriteDone
    <3>1. call = "writing" /\ call' = "idle" /\ fifo' = fifo /\ pending' = pending
      BY <2>5 DEF WriteDone
    <3>2. WriteLeft' < WriteLeft /\ WriteLeft' \in Nat
      BY <1>2, <3>1 DEF WriteLeft
    <3>3. WorkLeft' = WriteLeft' + AfterWrite
      BY <2>1, <2>2 DEF WorkLeft
    <3> QED
      BY <1>2, <1>3, <3>2, <3>3, LessLeft
  <2>6. CASE ShiftOut
    <3>1. fifo /= <<>> /\ fifo' = Tail(fifo) /\ call' = call /\ pending' = pending
      BY <2>6 DEF ShiftOut, callVars
    <3>2. Len(fifo') = Len(fifo) - 1
      BY <1>1, <3>1, HeadTailProperties
    <3>3. WriteLeft' < WriteLeft /\ WriteLeft' \in Nat
      <4>1. Len(fifo') \in Nat /\ Len(fifo') < Len(fifo)
        <5>1. fifo' \in Seq(Byte)
          BY <1>1, <3>1, HeadTailProperties
        <5>2. Len(fifo') \in Nat
          BY <5>1, LenProperties
        <5> QED
          BY <1>2, <3>2, <5>2
      <4>2. \A p, f, g \in Nat, c \in {0, 1} : g < f => 2 * p + g + c < 2 * p + f + c
        OBVIOUS
      <4> QED
        BY <1>2, <3>1, <4>1, <4>2 DEF WriteLeft
    <3>4. WorkLeft' = WriteLeft' + AfterWrite
      BY <2>1, <2>2 DEF WorkLeft
    <3> QED
      BY <1>2, <1>3, <3>3, <3>4, LessLeft
  <2> QED
    BY <2>1, <2>3, <2>4, <2>5, <2>6
<1>9. CASE Return \/ Restart
  BY <1>4, <1>9 DEF Return, Restart
<1> QED
  BY <1>5, <1>6, <1>7, <1>8, <1>9
     DEF LockNext, InitLock, InitRefused, SetKey, OpenLock, SendFrame,
         TurnOffAutomaticLatch

\* The steps a call takes at most, from its first frame on: twice its bytes, a FIFO
\* of bytes before it, and for turnOffAutomaticLatch the pause and the command.
CallBound(f) ==
  IF f = "wakeup"
  THEN 2 * Size[f] + FifoLen + 1 + (DelayTicks * TickBytes + LatchWork + 2)
  ELSE 2 * Size[f] + FifoLen + 1 + 1

\* A call begins with no more than that before it.
LEMMA FirstStep ==
  LockInv /\ [LockNext]_vars /\ stage = "idle" /\ stage' /= "idle"
    => stage' \in LockFrames /\ WorkLeft' <= CallBound(stage')
<1> SUFFICES ASSUME LockInv, [LockNext]_vars, stage = "idle", stage' /= "idle"
             PROVE  stage' \in LockFrames /\ WorkLeft' <= CallBound(stage')
  OBVIOUS
<1>1. SetKey \/ OpenLock \/ TurnOffAutomaticLatch
  BY DEF LockNext, InitLock, InitRefused, StartPause, Tick, DisableLatch, Return,
         UartRuns, Restart, vars, lockVars
<1>2. PICK f \in {"setKey", "open", "wakeup"} : SendData(f) /\ stage' = f
  BY <1>1 DEF SetKey, OpenLock, SendFrame, TurnOffAutomaticLatch
<1>3. f \in Frame /\ f \in LockFrames /\ Size[f] \in Nat /\ f \notin {"pause", "idle"}
  BY FrameAssumption, SizeAssumption DEF LockFrames
<1>4. /\ Len(fifo) \in Nat /\ Len(fifo) <= FifoLen /\ fifo' = fifo /\ call = "idle"
      /\ pending = <<>>
  BY <1>2, LenProperties
  DEF LockInv, UartInv, TypeOK, FifoBounded, IdleHasWritten, SendData
<1>5. WriteLeft' \in Nat /\ WriteLeft' <= 2 * Size[f] + FifoLen + 1
  <2>1. /\ Len(pending') \in Nat /\ Len(pending') <= Size[f]
        /\ (IF call' = "writing" THEN 1 ELSE 0) \in {0, 1}
    <3>1. CASE SendFails
      BY <1>3, <1>4, <3>1, EmptySeq DEF SendFails
    <3>2. CASE WriteStarts(f)
      BY <1>3, <3>2, FrameBytesProperties DEF WriteStarts
    <3> QED
      BY <1>2, <3>1, <3>2 DEF SendData
  <2>2. \A p, z, l, k \in Nat, c \in {0, 1} :
          p <= z /\ l <= k => 2 * p + l + c \in Nat /\ 2 * p + l + c <= 2 * z + k + 1
    OBVIOUS
  <2> QED
    BY <1>3, <1>4, <2>1, <2>2, FifoAssumption DEF WriteLeft
<1> DEFINE A == IF f = "wakeup" THEN DelayTicks * TickBytes + LatchWork + 2 ELSE 1
           B == 2 * Size[f] + FifoLen + 1
<1>6. WorkLeft' = WriteLeft' + A
  BY <1>2, <1>3 DEF WorkLeft, AfterWrite, LatchWork
<1>7. CallBound(stage') = B + A
  BY <1>2 DEF CallBound
<1>8. A \in Nat /\ B \in Nat
  <2>1. DelayTicks * TickBytes \in Nat /\ LatchWork \in Nat
    BY WorkTypes DEF LockInv
  <2> QED
    BY <1>3, <2>1, FifoAssumption
<1>9. WriteLeft' <= B
  BY <1>5
<1> HIDE DEF A, B
<1>10. \A v, b, a \in Nat : \A s, t : v <= b /\ s = v + a /\ t = b + a => s <= t
  OBVIOUS
<1> QED
  BY <1>2, <1>3, <1>5, <1>6, <1>7, <1>8, <1>9, <1>10

\* turnOffAutomaticLatch begins only with a call of sendData in hand for its second
\* frame (the bound of the model), so that the bound does not stop it in the middle.
LatchHasSend == stage \in {"wakeup", "pause"} => sends < MaxSends

\* Every step keeps it.
LEMMA LatchSendStep ==
  LockInv /\ LatchHasSend /\ [LockNext]_vars => LatchHasSend'
<1> SUFFICES ASSUME LockInv, LatchHasSend, [LockNext]_vars PROVE LatchHasSend'
  OBVIOUS
<1>1. ASSUME NEW p \in Pins, InitLock(p[1], p[2]) \/ InitRefused(p[1], p[2])
      PROVE  LatchHasSend'
  BY <1>1 DEF InitLock, InitRefused, LatchHasSend
<1>2. CASE SetKey \/ OpenLock \/ DisableLatch \/ Return \/ Restart
  BY <1>2 DEF SetKey, OpenLock, SendFrame, DisableLatch, Return, Restart, LatchHasSend
<1>3. CASE TurnOffAutomaticLatch
  BY <1>3 DEF TurnOffAutomaticLatch, SendData, LatchHasSend
<1>4. CASE StartPause
  BY <1>4 DEF StartPause, uartVars, historyVars, LatchHasSend
<1>5. CASE Tick
  BY <1>5 DEF Tick, ShiftOut, uartVars, historyVars, LatchHasSend
<1>6. CASE UartRuns
  BY <1>6 DEF UartRuns, lockVars, PutByte, WriteDone, FloatingPin, ShiftOut,
              historyVars, LatchHasSend
<1>7. CASE UNCHANGED vars
  BY <1>7 DEF vars, lockVars, uartVars, historyVars, LatchHasSend
<1> QED
  BY <1>1, <1>2, <1>3, <1>4, <1>5, <1>6, <1>7 DEF LockNext

\* Between two calls of the lock driver nobody is in sendData.
BetweenCalls == stage = "idle" => call = "idle"

\* Every step keeps it.
LEMMA BetweenCallsStep == BetweenCalls /\ [LockNext]_vars => BetweenCalls'
<1> SUFFICES ASSUME BetweenCalls, [LockNext]_vars PROVE BetweenCalls'
  OBVIOUS
<1>1. ASSUME NEW p \in Pins, InitLock(p[1], p[2]) \/ InitRefused(p[1], p[2])
      PROVE  BetweenCalls'
  BY <1>1 DEF InitLock, InitRefused, InitDriver, uartVars, callVars, BetweenCalls
<1>2. CASE SetKey \/ OpenLock \/ TurnOffAutomaticLatch \/ DisableLatch \/ StartPause
  BY <1>2 DEF SetKey, OpenLock, SendFrame, TurnOffAutomaticLatch, DisableLatch,
              StartPause, BetweenCalls
<1>3. CASE Tick \/ Return \/ UNCHANGED vars
  BY <1>3 DEF Tick, Return, ShiftOut, vars, lockVars, uartVars, callVars, BetweenCalls
<1>4. CASE UartRuns \/ Restart
  BY <1>4 DEF UartRuns, lockVars, PutByte, WriteDone, FloatingPin, ShiftOut, Restart,
              Reset, callVars, BetweenCalls
<1> QED
  BY <1>1, <1>2, <1>3, <1>4 DEF LockNext

\* With flow control off, a full FIFO drains: the invariant leaves no call stuck.
LEMMA NotStuck == LockInv /\ LatchHasSend => CallNeverStuck
<1> SUFFICES ASSUME LockInv, LatchHasSend, stage /= "idle",
                    ~(call = "idle" /\ stage /= "pause")
             PROVE  \/ stage = "pause" /\ (left > 0 \/ (call = "idle" /\ sends < MaxSends))
                    \/ call = "writing" /\ (pending = <<>> \/ Len(fifo) < FifoLen)
                    \/ stage /= "pause" /\ fifo /= <<>> /\ ~HeldByCts
  BY DEF CallNeverStuck
<1>1. CASE stage = "pause"
  <2>1. call = "idle" /\ left \in Nat /\ sends < MaxSends
    BY <1>1 DEF LockInv, PauseEmptiesFifo, LockTypeOK, LatchHasSend
  <2> QED
    BY <1>1, <2>1
<1>2. CASE stage /= "pause"
  <2>1. call = "writing" /\ ~HeldByCts
    BY <1>2 DEF LockInv, LockTypeOK, TypeOK, HeldByCts
  <2>2. CASE fifo = <<>>
    <3>1. Len(fifo) < FifoLen
      BY <2>2, EmptySeq, FifoAssumption
    <3> QED
      BY <2>1, <3>1
  <2> QED
    BY <1>2, <2>1, <2>2
<1> QED
  BY <1>1, <1>2

-----------------------------------------------------------------------------
(* The theorems about the pause and the calls.                             *)

\* The inductive invariant: types, the byte stream, and a pause that is always
\* long enough for what is left in the FIFO.
THEOREM LockInvariance == LockSpec => []LockInv
<1>1. LockInit => LockInv
  BY LockInitially
<1>2. LockInv /\ [LockNext]_vars => LockInv'
  BY LockInductive
<1> QED
  BY <1>1, <1>2, PTL DEF LockSpec

\* With nothing left of the pause nothing is left in the FIFO.
LEMMA SilentByInv == LockInv => LineSilentBeforeLatch
<1>1. ASSUME LockInv PROVE LineSilentBeforeLatch
  <2> SUFFICES ASSUME stage = "pause", left = 0 PROVE wire = accepted
    BY DEF LineSilentBeforeLatch
  <2>1. TypeOK /\ StreamIntegrity /\ pending = <<>> /\ Len(fifo) <= 0
    BY <1>1 DEF LockInv, UartInv, PauseEmptiesFifo, IdleHasWritten
  <2>2. /\ wire \in Seq(Byte) /\ fifo \in Seq(Byte)
        /\ Len(fifo) \in Nat
    BY <2>1, LenProperties DEF TypeOK
  <2>3. fifo = <<>>
    BY <2>1, <2>2, EmptySeq
  <2> QED
    BY <2>1, <2>2, <2>3, ConcatEmptySeq DEF StreamIntegrity
<1> QED
  BY <1>1

\* turnOffAutomaticLatch sends its command on a silent line: whatever was in the
\* FIFO when the pause began, all of it has been shifted out.
THEOREM SilentLine == LockSpec => []LineSilentBeforeLatch
BY SilentByInv, LockInvariance, PTL

\* No call of the lock driver gets stuck: the task has its next step, or the UART
\* makes room for it, whatever init routed to CTS and RTS.
THEOREM NeverStuck == LockSpec => []CallNeverStuck
<1>1. LockInit => LatchHasSend
  BY DEF LockInit, LatchHasSend
<1>2. LockInv /\ LatchHasSend /\ [LockNext]_vars => LatchHasSend'
  BY LatchSendStep
<1>3. LockInv /\ LatchHasSend => CallNeverStuck
  BY NotStuck
<1> QED
  BY <1>1, <1>2, <1>3, LockInvariance, PTL DEF LockSpec

\* A call of the lock driver begins with at most CallBound of its frame before it, ...
THEOREM CallsBounded ==
  LockSpec => [][stage = "idle" /\ stage' /= "idle" => WorkLeft' <= CallBound(stage')]_vars
<1>1. LockInv /\ [LockNext]_vars
        => [stage = "idle" /\ stage' /= "idle" => WorkLeft' <= CallBound(stage')]_vars
  BY FirstStep
<1> QED
  BY <1>1, LockInvariance, PTL DEF LockSpec

\* ... and every step of it, the task's or the UART's, leaves less: the call is through
\* after that many steps at most, for all frame lengths, ticks and FIFOs.
THEOREM Advances == LockSpec => CallAdvances
<1>1. LockInv /\ [LockNext]_vars
        => [stage /= "idle" /\ ~UNCHANGED <<stage, left, callVars, fifo>>
              => WorkLeft' < WorkLeft]_vars
  BY AdvanceStep
<1> QED
  BY <1>1, LockInvariance, PTL DEF LockSpec, CallAdvances

\* The safety part of UsesUartDriver: what is proved of the UART driver holds
\* above it too.
THEOREM UsesUartSafely == LockSpec => UartInit /\ [][UartNext]_uartVars
<1>1. LockInit => UartInit
  BY DEF LockInit
<1>2. [LockNext]_vars => [UartNext]_uartVars
  BY UartStep DEF vars
<1> QED
  BY <1>1, <1>2, PTL DEF LockSpec

-----------------------------------------------------------------------------
(***************************************************************************)
(* What the results of the calls promise: ESP_OK means that the command    *)
(* was taken by the UART, and the command of turnOffAutomaticLatch         *)
(* directly follows its wake-up.                                           *)
(***************************************************************************)

\* A call that is writing, or has written, ends what was accepted so far.
FrameAtEnd ==
  stage \in LockFrames /\ (call = "writing" \/ ret = "OK")
    => EndsWith(accepted, FrameBytes(stage))

\* During the pause the wake-up does.
WakeupAtEnd ==
  stage = "pause" /\ ret = "OK" => EndsWith(accepted, FrameBytes("wakeup"))

FramesInv == /\ LockTypeOK /\ (stage = "pause" => call = "idle")
             /\ FrameAtEnd /\ WakeupAtEnd /\ LatchAfterWakeup

-----------------------------------------------------------------------------
(***************************************************************************)
(* EndsWith                                                                *)
(***************************************************************************)

\* EndsWith, told byte by byte.
LEMMA EndsWithBytes ==
  ASSUME NEW s \in Seq(Byte), NEW t \in Seq(Byte)
  PROVE  EndsWith(s, t) <=> /\ Len(t) <= Len(s)
                            /\ \A i \in 1 .. Len(t) : s[Len(s) - Len(t) + i] = t[i]
<1>1. Len(s) \in Nat /\ Len(t) \in Nat /\ \A i \in 1 .. Len(s) : s[i] \in Byte
  BY LenProperties
<1> SUFFICES ASSUME Len(t) <= Len(s)
             PROVE  SubSeq(s, Len(s) - Len(t) + 1, Len(s)) = t
                      <=> \A i \in 1 .. Len(t) : s[Len(s) - Len(t) + i] = t[i]
  BY DEF EndsWith
<1> DEFINE m == Len(s) - Len(t) + 1
           u == SubSeq(s, m, Len(s))
<1>2. m \in Int /\ Len(s) \in Int /\ \A i \in m .. Len(s) : s[i] \in Byte
  BY <1>1
<1>3. /\ u \in Seq(Byte)
      /\ Len(u) = IF m <= Len(s) THEN Len(s) - m + 1 ELSE 0
      /\ \A i \in 1 .. Len(s) - m + 1 : u[i] = s[m + i - 1]
  BY <1>2, SubSeqProperties
<1>4. /\ Len(s) - m + 1 = Len(t) /\ Len(u) = Len(t)
      /\ \A i \in 1 .. Len(t) : m + i - 1 = Len(s) - Len(t) + i
  BY <1>1, <1>3
<1> HIDE DEF u, m
<1>5. \A i \in 1 .. Len(t) : u[i] = s[Len(s) - Len(t) + i]
  BY <1>3, <1>4
<1>6. (\A i \in 1 .. Len(u) : u[i] = t[i]) => u = t
  BY <1>3, <1>4, SeqEqual
<1>7. u = t <=> \A i \in 1 .. Len(t) : s[Len(s) - Len(t) + i] = t[i]
  BY <1>4, <1>5, <1>6
<1> QED  BY <1>7 DEF u, m

\* What is appended is at the end, behind what was there before.
LEMMA EndsWithAppended ==
  ASSUME NEW s \in Seq(Byte), NEW t \in Seq(Byte), NEW d \in Seq(Byte)
  PROVE  /\ EndsWith(s \o d, d)
         /\ EndsWith(s, t) => EndsWith(s \o d, t \o d)
<1>1. Len(s) \in Nat /\ Len(t) \in Nat /\ Len(d) \in Nat
  BY LenProperties
<1>2. /\ s \o d \in Seq(Byte) /\ Len(s \o d) = Len(s) + Len(d)
      /\ \A i \in 1 .. Len(s) + Len(d) :
           (s \o d)[i] = IF i <= Len(s) THEN s[i] ELSE d[i - Len(s)]
  BY ConcatProperties
<1>3. /\ t \o d \in Seq(Byte) /\ Len(t \o d) = Len(t) + Len(d)
      /\ \A i \in 1 .. Len(t) + Len(d) :
           (t \o d)[i] = IF i <= Len(t) THEN t[i] ELSE d[i - Len(t)]
  BY ConcatProperties
<1>4. EndsWith(s \o d, d)
  <2>1. \A i \in 1 .. Len(d) : (s \o d)[Len(s \o d) - Len(d) + i] = d[i]
    <3> SUFFICES ASSUME NEW i \in 1 .. Len(d)
                 PROVE  (s \o d)[Len(s \o d) - Len(d) + i] = d[i]
      OBVIOUS
    <3>1. /\ Len(s \o d) - Len(d) + i = Len(s) + i /\ ~(Len(s) + i <= Len(s))
          /\ Len(s) + i \in 1 .. Len(s) + Len(d) /\ (Len(s) + i) - Len(s) = i
      BY <1>1, <1>2
    <3> QED  BY <1>2, <3>1
  <2>2. Len(d) <= Len(s \o d)
    BY <1>1, <1>2
  <2> QED  BY <1>2, <2>1, <2>2, EndsWithBytes
<1>5. ASSUME EndsWith(s, t)  PROVE EndsWith(s \o d, t \o d)
  <2>1. /\ Len(t) <= Len(s)
        /\ \A i \in 1 .. Len(t) : s[Len(s) - Len(t) + i] = t[i]
    BY <1>5, EndsWithBytes
  <2>2. \A i \in 1 .. Len(t \o d) :
          (s \o d)[Len(s \o d) - Len(t \o d) + i] = (t \o d)[i]
    <3> SUFFICES ASSUME NEW i \in 1 .. Len(t) + Len(d)
                 PROVE  (s \o d)[Len(s) - Len(t) + i] = (t \o d)[i]
      <4>1. Len(s \o d) - Len(t \o d) = Len(s) - Len(t)
        BY <1>1, <1>2, <1>3
      <4> QED  BY <1>3, <4>1
    <3>1. Len(s) - Len(t) + i \in 1 .. Len(s) + Len(d)
      BY <1>1, <2>1
    <3>2. CASE i <= Len(t)
      <4>1. Len(s) - Len(t) + i <= Len(s) /\ i \in 1 .. Len(t)
        BY <1>1, <3>2
      <4> QED  BY <1>2, <1>3, <2>1, <3>1, <3>2, <4>1
    <3>3. CASE ~(i <= Len(t))
      <4>1. /\ ~(Len(s) - Len(t) + i <= Len(s))
            /\ (Len(s) - Len(t) + i) - Len(s) = i - Len(t)
        BY <1>1, <3>3
      <4> QED  BY <1>2, <1>3, <3>1, <3>3, <4>1
    <3> QED  BY <3>2, <3>3
  <2>3. Len(t \o d) <= Len(s \o d)
    BY <1>1, <1>2, <1>3, <2>1
  <2> QED  BY <1>2, <1>3, <2>2, <2>3, EndsWithBytes
<1> QED  BY <1>4, <1>5

-----------------------------------------------------------------------------
(***************************************************************************)
(* The invariant                                                           *)
(***************************************************************************)

\* After a call of sendData its frame is at the end, or the result is ESP_FAIL.
LEMMA AfterSend ==
  ASSUME FramesInv, NEW f \in LockFrames, SendData(f), stage' = f
  PROVE  /\ FrameAtEnd' /\ WakeupAtEnd'
         /\ \/ call' = "idle"
            \/ accepted' = accepted \o FrameBytes(f) /\ UNCHANGED ret
<1>1. /\ accepted \in Seq(Byte) /\ call = "idle" /\ FrameBytes(f) \in Seq(Byte)
      /\ f /= "pause"
  BY FrameAssumption, FrameBytesProperties
  DEF FramesInv, LockTypeOK, TypeOK, SendData, LockFrames
<1>2. CASE SendFails
  BY <1>1, <1>2 DEF SendFails, FrameAtEnd, WakeupAtEnd
<1>3. CASE WriteStarts(f)
  <2>1. accepted' = accepted \o FrameBytes(f) /\ UNCHANGED ret
    BY <1>3 DEF WriteStarts
  <2>2. EndsWith(accepted', FrameBytes(f))
    BY <1>1, <2>1, EndsWithAppended
  <2> QED  BY <1>1, <2>1, <2>2 DEF FrameAtEnd, WakeupAtEnd
<1> QED  BY <1>2, <1>3 DEF SendData

\* A step that neither accepts bytes nor changes the stage keeps the invariant if
\* it begins no write and turns no result but that of a write into ESP_OK.
LEMMA QuietFrames ==
  ASSUME FramesInv, LockTypeOK', UNCHANGED <<stage, accepted>>,
         \/ UNCHANGED <<call, ret>>
         \/ call = "writing" /\ call' = "idle"
  PROVE  FramesInv'
<1>1. stage' = stage /\ accepted' = accepted /\ (stage = "pause" => call = "idle")
  BY DEF FramesInv
<1>2. (stage = "pause" => call = "idle")' /\ WakeupAtEnd'
  BY <1>1 DEF FramesInv, WakeupAtEnd
<1>3. FrameAtEnd' /\ LatchAfterWakeup'
  BY <1>1 DEF FramesInv, FrameAtEnd, LatchAfterWakeup
<1> QED  BY <1>2, <1>3 DEF FramesInv

\* Every step of the lock driver keeps the order of wake-up and latch command.
LEMMA FramesStep == FramesInv /\ [LockNext]_vars => FramesInv'
<1> SUFFICES ASSUME FramesInv, [LockNext]_vars  PROVE FramesInv'
  OBVIOUS
<1>1. LockTypeOK /\ LockTypeOK'
  BY LockTypeStep DEF FramesInv
<1> USE DEF lockVars, LockFrames
<1>2. ASSUME stage' = "idle"  PROVE FramesInv'
  BY <1>1, <1>2 DEF FramesInv, FrameAtEnd, WakeupAtEnd, LatchAfterWakeup
<1>3. ASSUME NEW p \in Pins, InitLock(p[1], p[2]) \/ InitRefused(p[1], p[2])
      PROVE  FramesInv'
  BY <1>2, <1>3 DEF InitLock, InitRefused
<1>4. ASSUME NEW f \in {"setKey", "open", "wakeup"}, SendData(f), stage' = f
      PROVE  FramesInv'
  BY <1>1, <1>4, AfterSend DEF FramesInv, LatchAfterWakeup
<1>5. CASE SetKey \/ OpenLock \/ TurnOffAutomaticLatch
  BY <1>4, <1>5 DEF SetKey, OpenLock, SendFrame, TurnOffAutomaticLatch
<1>6. CASE StartPause
  <2>1. /\ stage = "wakeup" /\ stage' = "pause" /\ call = "idle"
        /\ UNCHANGED <<call, ret, accepted>>
    BY <1>6 DEF StartPause, uartVars, callVars, historyVars
  <2> QED  BY <1>1, <2>1 DEF FramesInv, FrameAtEnd, WakeupAtEnd, LatchAfterWakeup
<1>7. CASE Tick
  <2>1. UNCHANGED <<stage, call, ret, accepted>>
    BY <1>7 DEF Tick, ShiftOut, uartVars, callVars, historyVars
  <2> QED  BY <1>1, <2>1, QuietFrames
<1>8. CASE DisableLatch
  <2>1. stage = "pause" /\ SendData("disableLatch") /\ stage' = "disableLatch"
    BY <1>8 DEF DisableLatch
  <2>2. /\ FrameAtEnd' /\ WakeupAtEnd'
        /\ \/ call' = "idle"
           \/ accepted' = accepted \o FrameBytes("disableLatch") /\ UNCHANGED ret
    BY <2>1, AfterSend
  <2>3. /\ accepted \in Seq(Byte) /\ FrameBytes("wakeup") \in Seq(Byte)
        /\ FrameBytes("disableLatch") \in Seq(Byte)
    BY <1>1, FrameAssumption, FrameBytesProperties DEF LockTypeOK, TypeOK
  <2>4. ASSUME ret = "OK"
        PROVE  EndsWith(accepted \o FrameBytes("disableLatch"),
                        FrameBytes("wakeup") \o FrameBytes("disableLatch"))
    <3>1. EndsWith(accepted, FrameBytes("wakeup"))
      BY <2>1, <2>4 DEF FramesInv, WakeupAtEnd
    <3> QED  BY <2>3, <3>1, EndsWithAppended
  <2>5. LatchAfterWakeup'
    BY <2>2, <2>4 DEF LatchAfterWakeup, FrameBytes
  <2> QED  BY <1>1, <2>1, <2>2, <2>5 DEF FramesInv
<1>9. CASE Return \/ Restart
  BY <1>2, <1>9 DEF Return, Restart
<1>10. CASE UartRuns
  <2>1. UNCHANGED <<stage, accepted>>
    BY <1>10 DEF UartRuns, PutByte, WriteDone, FloatingPin, ShiftOut, historyVars
  <2>2. \/ UNCHANGED <<call, ret>>
        \/ call = "writing" /\ call' = "idle"
    BY <1>10 DEF UartRuns, PutByte, WriteDone, FloatingPin, ShiftOut, callVars
  <2> QED  BY <1>1, <2>1, <2>2, QuietFrames
<1>11. CASE UNCHANGED vars
  <2>1. UNCHANGED <<stage, call, ret, accepted>>
    BY <1>11 DEF vars, uartVars, callVars, historyVars
  <2> QED  BY <1>1, <2>1, QuietFrames
<1> QED
  BY <1>3, <1>5, <1>6, <1>7, <1>8, <1>9, <1>10, <1>11 DEF LockNext

-----------------------------------------------------------------------------
(* The theorems about the frames.                                          *)

\* It holds when nothing has been sent.
LEMMA FramesInitially == LockInit => FramesInv
<1> SUFFICES ASSUME LockInit  PROVE FramesInv
  OBVIOUS
<1>1. LockTypeOK
  BY LockInitially DEF LockInv
<1> QED
  BY <1>1 DEF LockInit, FramesInv, FrameAtEnd, WakeupAtEnd, LatchAfterWakeup, LockFrames

\* The order of wake-up and latch command in what the UART took on.
LEMMA FramesInvariance == LockSpec => []FramesInv
<1>1. LockInit => FramesInv
  BY FramesInitially
<1>2. FramesInv /\ [LockNext]_vars => FramesInv'
  BY FramesStep
<1> QED  BY <1>1, <1>2, PTL DEF LockSpec

\* Every variable of the lock driver has its type.
THEOREM LockTyping == LockSpec => []LockTypeOK
BY FramesInvariance, PTL DEF FramesInv

\* Nothing slips in between the wake-up and the command of turnOffAutomaticLatch,
\* whose pause leaves the line to nobody else.
THEOREM LatchFollowsWakeup == LockSpec => []LatchAfterWakeup
BY FramesInvariance, PTL DEF FramesInv

\* A call that returns ESP_OK has just had its frame accepted.
LEMMA ReturnStep ==
  FramesInv /\ Return /\ result' = "OK" => EndsWith(accepted, FrameBytes(stage))
BY DEF Return, FramesInv, FrameAtEnd, LockFrames

\* A caller that is told ESP_OK has its whole command with the UART.
THEOREM OkIsSent == LockSpec => OkMeansSent
<1>1. FramesInv /\ [LockNext]_vars
        => [Return /\ result' = "OK" => EndsWith(accepted, FrameBytes(stage))]_vars
  BY ReturnStep
<1> QED  BY <1>1, FramesInvariance, PTL DEF LockSpec, OkMeansSent
=============================================================================
