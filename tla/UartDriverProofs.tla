-------------------------- MODULE UartDriverProofs --------------------------
(***************************************************************************)
(* Proofs about the UART driver: its type invariant, the integrity of the  *)
(* byte stream, the framing of the wire, the bound on the backlog, and     *)
(* that it implements the safety part of ByteLink, for every set of        *)
(* frames, frame length, FIFO length and number of calls and restarts.     *)
(***************************************************************************)
EXTENDS UartDriver, SequenceTheorems, TLAPS

-----------------------------------------------------------------------------
(* Sequences.                                                              *)

\* The bytes of a frame are a sequence of Size[f] bytes, numbered from 1.
LEMMA FrameBytesProperties ==
  ASSUME NEW f \in Frame
  PROVE  /\ FrameBytes(f) \in Seq(Byte)
         /\ Len(FrameBytes(f)) = Size[f]
         /\ Size[f] \in Nat \ {0}
         /\ \A i \in 1 .. Size[f] : FrameBytes(f)[i] = <<f, i>>
<1>1. Size[f] \in Nat \ {0}
  BY SizeAssumption
<1>2. \A i \in 1 .. Size[f] : <<f, i>> \in Byte
  BY <1>1 DEF Byte
<1> QED
  BY <1>1, <1>2 DEF FrameBytes

\* Moving the head of t to the end of s does not change s \o t.
LEMMA MoveHead ==
  ASSUME NEW S, NEW s \in Seq(S), NEW t \in Seq(S), t /= <<>>
  PROVE  /\ Append(s, Head(t)) \in Seq(S)
         /\ Tail(t) \in Seq(S)
         /\ Append(s, Head(t)) \o Tail(t) = s \o t
<1> DEFINE a == Append(s, Head(t))
           b == Tail(t)
<1>1. Head(t) \in S /\ b \in Seq(S) /\ Len(b) = Len(t) - 1
      /\ \A i \in 1 .. Len(b) : b[i] = t[i + 1]
  BY HeadTailProperties
<1>2. Head(t) = t[1] /\ Len(t) \in Nat \ {0}
  BY EmptySeq
<1>3. /\ a \in Seq(S) /\ Len(a) = Len(s) + 1
      /\ \A i \in 1 .. Len(s) : a[i] = s[i]
      /\ a[Len(s) + 1] = t[1]
  BY <1>1, <1>2, AppendProperties
<1>4. /\ a \o b \in Seq(S) /\ Len(a \o b) = Len(a) + Len(b)
      /\ \A i \in 1 .. Len(a) + Len(b) :
           (a \o b)[i] = IF i <= Len(a) THEN a[i] ELSE b[i - Len(a)]
  BY <1>1, <1>3, ConcatProperties
<1>5. /\ s \o t \in Seq(S) /\ Len(s \o t) = Len(s) + Len(t)
      /\ \A i \in 1 .. Len(s) + Len(t) :
           (s \o t)[i] = IF i <= Len(s) THEN s[i] ELSE t[i - Len(s)]
  BY ConcatProperties
<1>6. Len(s) \in Nat /\ Len(b) \in Nat
  BY <1>1, LenProperties
<1> HIDE DEF a, b
<1>7. Len(a \o b) = Len(s \o t)
  BY <1>1, <1>2, <1>3, <1>4, <1>5, <1>6
<1>8. ASSUME NEW i \in 1 .. Len(a \o b) PROVE (a \o b)[i] = (s \o t)[i]
  <2>0. i \in Nat
    BY <1>1, <1>2, <1>3, <1>4, <1>6
  <2>1. CASE i <= Len(s)
    BY <2>1, <1>1, <1>2, <1>3, <1>4, <1>5, <1>6
  <2>2. CASE i = Len(s) + 1
    BY <2>2, <1>1, <1>2, <1>3, <1>4, <1>5, <1>6
  <2>3. CASE i > Len(s) + 1
    <3>1. (a \o b)[i] = b[i - (Len(s) + 1)]
      BY <2>3, <1>3, <1>4, <1>6
    <3>2. i - (Len(s) + 1) \in 1 .. Len(b)
      BY <2>3, <1>3, <1>4, <1>6
    <3>3. b[i - (Len(s) + 1)] = t[(i - (Len(s) + 1)) + 1]
      BY <3>2, <1>1
    <3>4. (s \o t)[i] = t[i - Len(s)]
      BY <2>3, <1>1, <1>2, <1>3, <1>4, <1>5, <1>6
    <3> QED
      BY <3>1, <3>3, <3>4, <1>6
  <2>4. i <= Len(s) \/ i = Len(s) + 1 \/ i > Len(s) + 1
    BY <2>0, <1>6
  <2> QED
    BY <2>1, <2>2, <2>3, <2>4
<1>9. a \o b = s \o t
  BY <1>4, <1>5, <1>7, <1>8, SeqEqual
<1> QED
  BY <1>1, <1>3, <1>9 DEF a, b

-----------------------------------------------------------------------------
(* The inductive invariant.                                                *)

\* The invariant holds before init is called.
LEMMA Initially == UartInit => UartInv
<1> SUFFICES ASSUME UartInit PROVE UartInv
  OBVIOUS
<1>1. TypeOK
  BY EmptySeq DEF UartInit, TypeOK
<1>2. StreamIntegrity
  BY EmptySeq, ConcatEmptySeq DEF UartInit, StreamIntegrity
<1>3. AcceptedFramed /\ AcceptedEndsFrame
  BY EmptySeq DEF UartInit, AcceptedFramed, AcceptedEndsFrame
<1>4. IdleHasWritten /\ FifoBounded
  BY EmptySeq, FifoAssumption DEF UartInit, IdleHasWritten, FifoBounded
<1> QED
  BY <1>1, <1>2, <1>3, <1>4 DEF UartInv

\* A step that leaves the byte stream alone: only the call may end, with
\* nothing pending.
LEMMA QuietStep ==
  ASSUME UartInv, TypeOK',
         UNCHANGED <<pending, fifo, wire, accepted, cuts>>,
         call' = "idle" => pending = <<>>
  PROVE  UartInv'
BY DEF UartInv, StreamIntegrity, AcceptedFramed, AcceptedEndsFrame,
       IdleHasWritten, FifoBounded

\* sendData keeps the invariant when it starts to write a frame.
LEMMA WriteStartsStep ==
  ASSUME UartInv, TypeOK', NEW f \in Frame, call = "idle", WriteStarts(f),
         UNCHANGED <<fifo, wire, cuts>>
  PROVE  UartInv'
<1> DEFINE F == FrameBytes(f)
           L == Len(accepted)
<1>1. /\ F \in Seq(Byte) /\ Len(F) = Size[f] /\ Size[f] \in Nat \ {0}
      /\ \A i \in 1 .. Size[f] : F[i] = <<f, i>>
  BY FrameBytesProperties
<1>2. /\ wire \in Seq(Byte) /\ fifo \in Seq(Byte) /\ accepted \in Seq(Byte)
      /\ pending = <<>> /\ pending' = F /\ accepted' = accepted \o F
      /\ L \in Nat
  BY LenProperties DEF UartInv, TypeOK, IdleHasWritten, WriteStarts
<1> HIDE DEF F
<1>3. StreamIntegrity'
  <2>1. (wire \o fifo) \in Seq(Byte)
    BY <1>2, ConcatProperties
  <2>2. wire \o fifo = accepted
    BY <1>2, <2>1, ConcatEmptySeq DEF UartInv, StreamIntegrity
  <2> QED
    BY <1>2, <2>2 DEF StreamIntegrity
<1>4. /\ Len(accepted') = L + Size[f]
      /\ \A i \in 1 .. L + Size[f] :
           accepted'[i] = IF i <= L THEN accepted[i] ELSE F[i - L]
  <2>1. /\ Len(accepted \o F) = Len(accepted) + Len(F)
        /\ \A i \in 1 .. Len(accepted) + Len(F) : (accepted \o F)[i] =
             IF i <= Len(accepted) THEN accepted[i] ELSE F[i - Len(accepted)]
    BY <1>1, <1>2, ConcatProperties
  <2> QED
    BY <2>1, <1>1, <1>2
<1>5. \A i \in L + 1 .. L + Size[f] : accepted'[i] = <<f, i - L>>
  <2> SUFFICES ASSUME NEW i \in L + 1 .. L + Size[f]
               PROVE  accepted'[i] = <<f, i - L>>
    OBVIOUS
  <2>1. i \in 1 .. L + Size[f] /\ ~(i <= L) /\ i - L \in 1 .. Size[f]
    BY <1>1, <1>2
  <2> QED
    BY <1>1, <1>4, <2>1
<1>6. \A i \in 1 .. L : accepted'[i] = accepted[i]
  BY <1>1, <1>2, <1>4
<1> HIDE DEF L
<1>7. AcceptedFramed'
  <2>1. FirstByte(accepted'[1])
    <3>1. CASE L = 0
      <4>1. 1 \in L + 1 .. L + Size[f] /\ 1 - L = 1
        BY <3>1, <1>1
      <4>2. accepted'[1] = <<f, 1>>
        BY <4>1, <1>5
      <4> QED
        BY <4>2 DEF FirstByte
    <3>2. CASE L > 0
      <4>1. accepted /= <<>> /\ 1 \in 1 .. L
        BY <3>2, <1>2, EmptySeq DEF L
      <4>2. accepted'[1] = accepted[1]
        BY <4>1, <1>6
      <4>3. FirstByte(accepted[1])
        BY <4>1 DEF UartInv, AcceptedFramed
      <4> QED
        BY <4>2, <4>3 DEF FirstByte
    <3>3. L = 0 \/ L > 0
      BY <1>2
    <3> QED
      BY <3>1, <3>2, <3>3
  <2>2. ASSUME NEW i \in 1 .. L + Size[f] - 1
        PROVE  \/ NextByte(accepted'[i], accepted'[i + 1])
               \/ /\ FirstByte(accepted'[i + 1])
                  /\ LastByte(accepted'[i]) \/ i \in cuts
    <3>1. CASE i < L
      <4>1. i \in 1 .. L /\ i + 1 \in 1 .. L /\ i \in 1 .. Len(accepted) - 1
        BY <3>1, <1>1, <1>2 DEF L
      <4>2. accepted'[i] = accepted[i] /\ accepted'[i + 1] = accepted[i + 1]
        BY <4>1, <1>6
      <4> QED
        BY <4>1, <4>2 DEF UartInv, AcceptedFramed
    <3>2. CASE i = L
      <4>1. i \in 1 .. L /\ i + 1 \in L + 1 .. L + Size[f]
        BY <3>2, <1>1, <1>2
      <4>2. accepted'[i] = accepted[L] /\ accepted'[i + 1] = <<f, (i + 1) - L>>
        BY <4>1, <3>2, <1>5, <1>6
      <4>3. FirstByte(accepted'[i + 1])
        BY <4>2, <3>2, <1>2 DEF FirstByte
      <4>4. accepted /= <<>>
        BY <4>1, <3>2, EmptySeq DEF L
      <4>5. LastByte(accepted[L]) \/ L \in cuts
        BY <4>4 DEF UartInv, AcceptedEndsFrame, L
      <4> QED
        BY <4>2, <4>3, <4>5, <3>2
    <3>3. CASE i > L
      <4>1. i \in L + 1 .. L + Size[f] /\ i + 1 \in L + 1 .. L + Size[f]
        BY <3>3, <1>1, <1>2
      <4>2. /\ accepted'[i] = <<f, i - L>>
            /\ accepted'[i + 1] = <<f, (i + 1) - L>>
        BY <4>1, <1>5
      <4>3. (i + 1) - L = (i - L) + 1
        BY <4>1, <1>1, <1>2
      <4> QED
        BY <4>2, <4>3 DEF NextByte
    <3>4. i < L \/ i = L \/ i > L
      BY <1>1, <1>2
    <3> QED
      BY <3>1, <3>2, <3>3, <3>4
  <2>3. cuts' = cuts
    OBVIOUS
  <2>4. Len(accepted') - 1 = L + Size[f] - 1
    BY <1>1, <1>2, <1>4
  <2> QED
    BY <2>1, <2>2, <2>3, <2>4
       DEF AcceptedFramed, FirstByte, LastByte, NextByte
<1>8. AcceptedEndsFrame'
  <2>1. L + Size[f] \in L + 1 .. L + Size[f]
    BY <1>1, <1>2
  <2>2. accepted'[L + Size[f]] = <<f, (L + Size[f]) - L>>
    BY <2>1, <1>5
  <2>3. (L + Size[f]) - L = Size[f]
    BY <1>1, <1>2
  <2>4. LastByte(accepted'[Len(accepted')])
    BY <2>2, <2>3, <1>4 DEF LastByte
  <2> QED
    BY <2>4 DEF AcceptedEndsFrame, LastByte
<1>9. IdleHasWritten' /\ FifoBounded'
  BY DEF UartInv, IdleHasWritten, FifoBounded, WriteStarts
<1> QED
  BY <1>3, <1>7, <1>8, <1>9 DEF UartInv

\* StreamIntegrity makes the wire a prefix of what was accepted, the FIFO next.
LEMMA WirePrefix ==
  ASSUME TypeOK, StreamIntegrity
  PROVE  /\ Len(wire) \in Nat /\ Len(fifo) \in Nat /\ Len(pending) \in Nat
         /\ Len(accepted) = Len(wire) + Len(fifo) + Len(pending)
         /\ Len(accepted) \in Nat /\ Len(wire) <= Len(accepted)
         /\ \A i \in 1 .. Len(wire) : wire[i] = accepted[i]
         /\ fifo /= <<>> => accepted[Len(wire) + 1] = Head(fifo)
<1> DEFINE t == fifo \o pending
<1>1. /\ wire \in Seq(Byte) /\ fifo \in Seq(Byte) /\ pending \in Seq(Byte)
      /\ Len(wire) \in Nat /\ Len(fifo) \in Nat /\ Len(pending) \in Nat
  BY LenProperties DEF TypeOK
<1>2. /\ t \in Seq(Byte) /\ Len(t) = Len(fifo) + Len(pending)
      /\ \A i \in 1 .. Len(fifo) + Len(pending) :
           t[i] = IF i <= Len(fifo) THEN fifo[i] ELSE pending[i - Len(fifo)]
  BY <1>1, ConcatProperties
<1>3. wire \o t = accepted
  <2>1. (wire \o fifo) \o pending = wire \o t
    BY <1>1, ConcatAssociative
  <2> QED
    BY <2>1 DEF StreamIntegrity
<1> HIDE DEF t
<1>4. /\ Len(accepted) = Len(wire) + Len(t)
      /\ \A i \in 1 .. Len(wire) + Len(t) :
           accepted[i] = IF i <= Len(wire) THEN wire[i] ELSE t[i - Len(wire)]
  BY <1>1, <1>2, <1>3, ConcatProperties
<1>5. \A i \in 1 .. Len(wire) : wire[i] = accepted[i]
  BY <1>1, <1>2, <1>4
<1>6. ASSUME fifo /= <<>> PROVE accepted[Len(wire) + 1] = Head(fifo)
  <2>1. Len(fifo) >= 1 /\ Head(fifo) = fifo[1]
    BY <1>1, <1>6, EmptySeq
  <2>2. accepted[Len(wire) + 1] = t[(Len(wire) + 1) - Len(wire)]
    BY <1>1, <1>2, <1>4, <2>1
  <2>3. (Len(wire) + 1) - Len(wire) = 1
    BY <1>1
  <2>4. t[1] = fifo[1]
    BY <1>1, <1>2, <2>1
  <2> QED
    BY <2>1, <2>2, <2>3, <2>4
<1> QED
  BY <1>1, <1>2, <1>4, <1>5, <1>6

\* The type invariant is inductive by itself.
LEMMA TypeStep == TypeOK /\ [UartNext]_uartVars => TypeOK'
<1> SUFFICES ASSUME TypeOK, [UartNext]_uartVars PROVE TypeOK'
  OBVIOUS
<1> USE DEF lineVars, callVars, historyVars
<1>1. ASSUME NEW a \in InitArgs, InitDriver(a) PROVE TypeOK'
  <2>1. a.hwFlow \in BOOLEAN
    BY InitArgsAssumption
  <2> QED
    BY <1>1, <2>1 DEF TypeOK, InitDriver
<1>2. ASSUME NEW f \in Frame, SendData(f) PROVE TypeOK'
  <2>1. CASE SendFails
    BY <1>2, <2>1 DEF TypeOK, SendData, SendFails
  <2>2. CASE WriteStarts(f)
    <3>1. pending' \in Seq(Byte) /\ accepted' \in Seq(Byte)
      BY <2>2, FrameBytesProperties, ConcatProperties DEF TypeOK, WriteStarts
    <3> QED
      BY <1>2, <2>2, <3>1 DEF TypeOK, SendData, WriteStarts
  <2> QED
    BY <1>2, <2>1, <2>2 DEF SendData
<1>3. ASSUME PutByte PROVE TypeOK'
  <2>1. fifo' \in Seq(Byte) /\ pending' \in Seq(Byte)
    BY <1>3, MoveHead DEF TypeOK, PutByte
  <2> QED
    BY <1>3, <2>1 DEF TypeOK, PutByte
<1>4. ASSUME WriteDone PROVE TypeOK'
  BY <1>4 DEF TypeOK, WriteDone
<1>5. ASSUME ShiftOut PROVE TypeOK'
  <2>1. wire' \in Seq(Byte) /\ fifo' \in Seq(Byte)
    BY <1>5, MoveHead DEF TypeOK, ShiftOut
  <2> QED
    BY <1>5, <2>1 DEF TypeOK, ShiftOut
<1>6. ASSUME FloatingPin PROVE TypeOK'
  BY <1>6 DEF TypeOK, FloatingPin
<1>7. ASSUME Reset PROVE TypeOK'
  <2>1. Len(wire) \in Nat
    BY LenProperties DEF TypeOK
  <2>2. cuts' = cuts \cup {Len(wire)} /\ cuts \in SUBSET Nat
    BY <1>7 DEF TypeOK, Reset
  <2>3. cuts' \in SUBSET Nat
    BY <2>1, <2>2
  <2>4. resets' \in Nat /\ sends' \in Nat
    BY <1>7 DEF TypeOK, Reset
  <2> QED
    BY <1>7, <2>3, <2>4, EmptySeq DEF TypeOK, Reset
<1>8. ASSUME UNCHANGED uartVars PROVE TypeOK'
  BY <1>8 DEF TypeOK, uartVars
<1> QED
  BY <1>1, <1>2, <1>3, <1>4, <1>5, <1>6, <1>7, <1>8 DEF UartNext

\* A restart keeps the invariant: what was accepted is now what is on the wire.
LEMMA ResetStep == UartInv /\ TypeOK' /\ Reset => UartInv'
<1> SUFFICES ASSUME UartInv, TypeOK', Reset PROVE UartInv'
  OBVIOUS
<1>1. /\ wire \in Seq(Byte) /\ wire' = wire /\ accepted' = wire
      /\ fifo' = <<>> /\ pending' = <<>> /\ cuts' = cuts \cup {Len(wire)}
  BY DEF UartInv, TypeOK, Reset
<1>2. /\ \A i \in 1 .. Len(wire) : wire[i] = accepted[i]
      /\ Len(wire) <= Len(accepted) /\ Len(wire) \in Nat /\ Len(accepted) \in Nat
  BY WirePrefix DEF UartInv
<1>3. StreamIntegrity'
  BY <1>1, ConcatEmptySeq DEF StreamIntegrity
<1>4. AcceptedFramed'
  <2>1. wire /= <<>> => FirstByte(wire[1])
    <3> SUFFICES ASSUME wire /= <<>> PROVE FirstByte(wire[1])
      OBVIOUS
    <3>1. 1 \in 1 .. Len(wire) /\ accepted /= <<>>
      BY <1>1, <1>2, EmptySeq
    <3>2. wire[1] = accepted[1]
      BY <1>2, <3>1
    <3> QED
      BY <3>1, <3>2 DEF UartInv, AcceptedFramed, FirstByte
  <2>2. ASSUME NEW i \in 1 .. Len(wire) - 1
        PROVE  \/ NextByte(wire[i], wire[i + 1])
               \/ FirstByte(wire[i + 1]) /\ (LastByte(wire[i]) \/ i \in cuts)
    <3>1. /\ i \in 1 .. Len(wire) /\ i + 1 \in 1 .. Len(wire)
          /\ i \in 1 .. Len(accepted) - 1
      BY <1>2
    <3>2. wire[i] = accepted[i] /\ wire[i + 1] = accepted[i + 1]
      BY <1>2, <3>1
    <3> QED
      BY <3>1, <3>2 DEF UartInv, AcceptedFramed
  <2> QED
    BY <1>1, <2>1, <2>2 DEF AcceptedFramed, FirstByte, LastByte, NextByte
<1>5. AcceptedEndsFrame' /\ IdleHasWritten' /\ FifoBounded'
  BY <1>1, EmptySeq, FifoAssumption
     DEF AcceptedEndsFrame, IdleHasWritten, FifoBounded
<1> QED
  BY <1>3, <1>4, <1>5 DEF UartInv

\* Every step keeps the inductive invariant.
LEMMA Inductive == UartInv /\ [UartNext]_uartVars => UartInv'
<1> SUFFICES ASSUME UartInv, [UartNext]_uartVars PROVE UartInv'
  OBVIOUS
<1>1. TypeOK'
  BY TypeStep DEF UartInv
<1>2. TypeOK /\ IdleHasWritten
  BY DEF UartInv
<1> USE DEF lineVars, callVars, historyVars
<1>3. ASSUME NEW a \in InitArgs, InitDriver(a) PROVE UartInv'
  BY <1>1, <1>2, <1>3, QuietStep DEF InitDriver, IdleHasWritten
<1>4. ASSUME NEW f \in Frame, SendData(f) PROVE UartInv'
  <2>1. CASE SendFails
    BY <1>1, <1>2, <1>4, <2>1, QuietStep DEF SendData, SendFails, IdleHasWritten
  <2>2. CASE WriteStarts(f)
    BY <1>1, <1>4, <2>2, WriteStartsStep DEF SendData
  <2> QED
    BY <1>4, <2>1, <2>2 DEF SendData
<1>5. ASSUME PutByte PROVE UartInv'
  <2>1. /\ wire \in Seq(Byte) /\ fifo \in Seq(Byte) /\ pending \in Seq(Byte)
        /\ wire' = wire /\ accepted' = accepted /\ cuts' = cuts /\ call' = call
        /\ fifo' = Append(fifo, Head(pending)) /\ pending' = Tail(pending)
        /\ pending /= <<>> /\ call = "writing" /\ Len(fifo) < FifoLen
    BY <1>2, <1>5 DEF TypeOK, PutByte
  <2>2. /\ fifo' \in Seq(Byte) /\ pending' \in Seq(Byte)
        /\ fifo' \o pending' = fifo \o pending
    <3>1. /\ Append(fifo, Head(pending)) \in Seq(Byte)
          /\ Tail(pending) \in Seq(Byte)
          /\ Append(fifo, Head(pending)) \o Tail(pending) = fifo \o pending
      BY <2>1, MoveHead
    <3> QED
      BY <2>1, <3>1
  <2>3. StreamIntegrity'
    <3>0. wire \in Seq(Byte) /\ fifo \in Seq(Byte) /\ pending \in Seq(Byte)
      BY <2>1
    <3>1. ASSUME NEW a \in Seq(Byte), NEW b \in Seq(Byte)
          PROVE  (wire \o a) \o b = wire \o (a \o b)
      BY <3>0, ConcatAssociative
    <3>2. (wire \o fifo) \o pending = wire \o (fifo \o pending)
      BY <3>0, <3>1
    <3>3. (wire \o fifo') \o pending' = wire \o (fifo' \o pending')
      BY <2>2, <3>1
    <3>4. wire \o (fifo' \o pending') = wire \o (fifo \o pending)
      BY <2>2
    <3> QED
      BY <2>1, <3>2, <3>3, <3>4 DEF UartInv, StreamIntegrity
  <2>4. FifoBounded'
    <3>1. Head(pending) \in Byte
      BY <2>1, HeadTailProperties
    <3>2. Len(fifo') = Len(fifo) + 1 /\ Len(fifo) \in Nat
      BY <2>1, <3>1, AppendProperties, LenProperties
    <3> QED
      BY <2>1, <3>2, FifoAssumption DEF FifoBounded
  <2>5. AcceptedFramed' /\ AcceptedEndsFrame' /\ IdleHasWritten'
    BY <2>1 DEF UartInv, AcceptedFramed, AcceptedEndsFrame, IdleHasWritten
  <2> QED
    BY <1>1, <2>3, <2>4, <2>5 DEF UartInv
<1>6. ASSUME WriteDone PROVE UartInv'
  BY <1>1, <1>6, QuietStep DEF WriteDone
<1>7. ASSUME ShiftOut PROVE UartInv'
  <2>1. /\ wire \in Seq(Byte) /\ fifo \in Seq(Byte) /\ pending \in Seq(Byte)
        /\ wire' = Append(wire, Head(fifo)) /\ fifo' = Tail(fifo)
        /\ fifo /= <<>> /\ call' = call
        /\ pending' = pending /\ accepted' = accepted /\ cuts' = cuts
    BY <1>2, <1>7 DEF TypeOK, ShiftOut
  <2>2. wire' \o fifo' = wire \o fifo
    BY <2>1, MoveHead
  <2>3. StreamIntegrity'
    BY <2>1, <2>2 DEF UartInv, StreamIntegrity
  <2>4. FifoBounded'
    <3>1. Len(fifo') = Len(fifo) - 1 /\ Len(fifo) \in Nat
      BY <2>1, HeadTailProperties, LenProperties
    <3> QED
      BY <3>1, FifoAssumption DEF UartInv, FifoBounded
  <2>5. AcceptedFramed' /\ AcceptedEndsFrame' /\ IdleHasWritten'
    BY <2>1 DEF UartInv, AcceptedFramed, AcceptedEndsFrame, IdleHasWritten
  <2> QED
    BY <1>1, <2>3, <2>4, <2>5 DEF UartInv
<1>8. ASSUME FloatingPin PROVE UartInv'
  BY <1>1, <1>2, <1>8, QuietStep DEF FloatingPin, IdleHasWritten
<1>9. ASSUME Reset PROVE UartInv'
  BY <1>1, <1>9, ResetStep
<1>10. ASSUME UNCHANGED uartVars PROVE UartInv'
  BY <1>1, <1>2, <1>10, QuietStep DEF uartVars, IdleHasWritten
<1> QED
  BY <1>3, <1>4, <1>5, <1>6, <1>7, <1>8, <1>9, <1>10 DEF UartNext

-----------------------------------------------------------------------------
(* The theorems.                                                           *)

\* The inductive invariant of the UART driver: what sendData took on is framed, ends
\* with a last byte or at a cut, and is on the wire, in the FIFO or with the caller.
THEOREM Invariance == UartSpec => []UartInv
<1>1. UartInit => UartInv
  BY Initially
<1>2. UartInv /\ [UartNext]_uartVars => UartInv'
  BY Inductive
<1> QED
  BY <1>1, <1>2, PTL DEF UartSpec

\* Type correctness of the driver's state (init, sendData, uart_write_bytes).
THEOREM Typing == UartSpec => []TypeOK
<1>1. UartInv => TypeOK
  BY DEF UartInv
<1> QED
  BY <1>1, Invariance, PTL

\* Whatever sendData took on is on the wire, in the FIFO or with the blocked
\* caller, in the order of the calls: nothing is lost, repeated or overtaken.
THEOREM Integrity == UartSpec => []StreamIntegrity
<1>1. UartInv => StreamIntegrity
  BY DEF UartInv
<1> QED
  BY <1>1, Invariance, PTL

\* The wire is framed because everything accepted is.
LEMMA FramedByInv == UartInv => FramesWhole
<1>1. ASSUME UartInv PROVE FramesWhole
  <2>1. /\ \A i \in 1 .. Len(wire) : wire[i] = accepted[i]
        /\ Len(wire) <= Len(accepted) /\ Len(wire) \in Nat /\ Len(accepted) \in Nat
    BY <1>1, WirePrefix DEF UartInv
  <2>2. ASSUME wire /= <<>> PROVE FirstByte(wire[1])
    <3>1. 1 \in 1 .. Len(wire) /\ accepted /= <<>>
      BY <1>1, <2>1, <2>2, EmptySeq DEF UartInv, TypeOK
    <3>2. wire[1] = accepted[1]
      BY <2>1, <3>1
    <3>3. FirstByte(accepted[1])
      BY <1>1, <3>1 DEF UartInv, AcceptedFramed
    <3> QED
      BY <3>2, <3>3
  <2>3. ASSUME NEW i \in 1 .. Len(wire) - 1
        PROVE  \/ NextByte(wire[i], wire[i + 1])
               \/ FirstByte(wire[i + 1]) /\ (LastByte(wire[i]) \/ i \in cuts)
    <3>1. /\ i \in 1 .. Len(wire) /\ i + 1 \in 1 .. Len(wire)
          /\ i \in 1 .. Len(accepted) - 1
      BY <2>1
    <3>2. wire[i] = accepted[i] /\ wire[i + 1] = accepted[i + 1]
      BY <2>1, <3>1
    <3> QED
      BY <1>1, <3>1, <3>2 DEF UartInv, AcceptedFramed
  <2> QED
    BY <2>2, <2>3 DEF FramesWhole
<1> QED
  BY <1>1

\* The wire carries whole frames, torn only where the controller restarted.
THEOREM Framing == UartSpec => []FramesWhole
BY FramedByInv, Invariance, PTL

\* When sendData has returned, at most a FIFO of bytes is not on the wire yet.
THEOREM Backlog == UartSpec => []BacklogBounded
<1>1. ASSUME UartInv PROVE BacklogBounded
  <2> SUFFICES ASSUME call = "idle"
               PROVE  Len(accepted) - Len(wire) <= FifoLen
    BY DEF BacklogBounded
  <2>1. Len(pending) = 0
    BY <1>1, EmptySeq DEF UartInv, IdleHasWritten
  <2>2. /\ Len(accepted) = Len(wire) + Len(fifo) + Len(pending)
        /\ Len(wire) \in Nat /\ Len(fifo) \in Nat
    BY <1>1, WirePrefix DEF UartInv
  <2>3. Len(fifo) <= FifoLen
    BY <1>1 DEF UartInv, FifoBounded
  <2> QED
    BY <2>1, <2>2, <2>3
<1> QED
  BY <1>1, Invariance, PTL

\* The safety part of the byte link: every step of the driver submits a frame,
\* delivers the next byte, cuts off what is not on the wire, or is invisible.
THEOREM LinkSafety == UartSpec => Link!LinkInit /\ [][Link!LinkNext]_(Link!linkVars)
<1>1. UartInit => Link!LinkInit
  BY DEF UartInit, Link!LinkInit
<1>2. ASSUME UartInv, [UartNext]_uartVars
      PROVE  [Link!LinkNext]_(Link!linkVars)
  <2> USE DEF lineVars, callVars, historyVars
  <2>1. ASSUME NEW a \in InitArgs, InitDriver(a)
        PROVE  UNCHANGED Link!linkVars
    BY <2>1 DEF InitDriver, Link!linkVars
  <2>2. ASSUME NEW f \in Frame, SendData(f)
        PROVE  Link!LinkNext \/ UNCHANGED Link!linkVars
    <3>1. CASE SendFails
      BY <2>2, <3>1 DEF SendData, SendFails, Link!linkVars
    <3>2. CASE WriteStarts(f)
      <4>1. Link!Submit(f)
        BY <2>2, <3>2 DEF SendData, WriteStarts, Link!Submit, Link!FrameBytes,
                          FrameBytes
      <4> QED
        BY <4>1 DEF Link!LinkNext
    <3> QED
      BY <2>2, <3>1, <3>2 DEF SendData
  <2>3. ASSUME ShiftOut PROVE Link!LinkNext
    <3>1. /\ Len(accepted) = Len(wire) + Len(fifo) + Len(pending)
          /\ Len(wire) \in Nat /\ Len(fifo) \in Nat /\ Len(pending) \in Nat
          /\ accepted[Len(wire) + 1] = Head(fifo)
      BY <1>2, <2>3, WirePrefix DEF UartInv, ShiftOut
    <3>2. Len(fifo) > 0
      BY <1>2, <2>3, EmptySeq DEF UartInv, TypeOK, ShiftOut
    <3>3. Link!Deliver
      BY <2>3, <3>1, <3>2 DEF ShiftOut, Link!Deliver
    <3> QED
      BY <3>3 DEF Link!LinkNext
  <2>4. ASSUME Reset PROVE Link!LinkNext
    BY <2>4 DEF Reset, Link!LinkNext, Link!Cut
  <2>5. ASSUME PutByte \/ WriteDone \/ FloatingPin PROVE UNCHANGED Link!linkVars
    BY <2>5 DEF PutByte, WriteDone, FloatingPin, Link!linkVars
  <2>6. ASSUME UNCHANGED uartVars PROVE UNCHANGED Link!linkVars
    BY <2>6 DEF uartVars, Link!linkVars
  <2> QED
    BY <1>2, <2>1, <2>2, <2>3, <2>4, <2>5, <2>6 DEF UartNext
<1> QED
  BY <1>1, <1>2, Invariance, PTL DEF UartSpec
=============================================================================
