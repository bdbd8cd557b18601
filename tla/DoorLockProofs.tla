--------------------------- MODULE DoorLockProofs ---------------------------
(***************************************************************************)
(* The device is a door lock: every step of boot, callbacks, drivers, UART *)
(* and restarts is a step of DoorLock.tla or none of its business, for any *)
(* number of commands, failing sends and restarts and all frame and FIFO   *)
(* lengths.                                                                *)
(***************************************************************************)
EXTENDS OpeningsProofs

-----------------------------------------------------------------------------
(***************************************************************************)
(* How often a sequence holds an element                                   *)
(***************************************************************************)

Times(s, b) == Cardinality({i \in DOMAIN s : s[i] = b})

\* It is a natural number.
LEMMA TimesNat == ASSUME NEW S, NEW s \in Seq(S), NEW b  PROVE Times(s, b) \in Nat
<1>1. Len(s) \in Nat /\ DOMAIN s = 1 .. Len(s)
  BY LenProperties
<1>2. {i \in DOMAIN s : s[i] = b} \subseteq 1 .. Len(s)
  BY <1>1
<1> QED  BY <1>1, <1>2, Positions DEF Times

\* There is none in the empty sequence.
LEMMA TimesEmpty == \A b : Times(<<>>, b) = 0
<1> SUFFICES ASSUME NEW b  PROVE Times(<<>>, b) = 0
  OBVIOUS
<1>1. {i \in DOMAIN <<>> : <<>>[i] = b} = {}
  OBVIOUS
<1> QED  BY <1>1, FS_EmptySet DEF Times

\* One more at the end.
LEMMA TimesAppend ==
  ASSUME NEW S, NEW s \in Seq(S), NEW e \in S, NEW b
  PROVE  Times(Append(s, e), b) = Times(s, b) + (IF e = b THEN 1 ELSE 0)
<1> DEFINE t == Append(s, e)
           P == {i \in DOMAIN s : s[i] = b}
           Q == {i \in DOMAIN t : t[i] = b}
           n == Len(s)
<1>1. n \in Nat /\ DOMAIN s = 1 .. n
  BY LenProperties
<1>2. /\ t \in Seq(S) /\ Len(t) = n + 1 /\ t[n + 1] = e
      /\ \A i \in 1 .. n : t[i] = s[i]
  BY AppendProperties
<1>3. DOMAIN t = 1 .. n + 1
  BY <1>2, LenProperties
<1>4. P \subseteq 1 .. n
  BY <1>1
<1>5. Cardinality(P \cup {n + 1}) = Cardinality(P) + 1 /\ Cardinality(P) \in Nat
  BY <1>1, <1>4, Positions
<1> HIDE DEF t, n
<1>6. \A i \in 1 .. n + 1 : i \in 1 .. n \/ i = n + 1
  BY <1>1
<1>7. \A i \in 1 .. n : i \in 1 .. n + 1
  BY <1>1
<1>8. n + 1 \in 1 .. n + 1
  BY <1>1
<1>9. Q = IF e = b THEN P \cup {n + 1} ELSE P
  BY <1>1, <1>2, <1>3, <1>6, <1>7, <1>8
<1> HIDE DEF P, Q
<1>10. Cardinality(Q) = Cardinality(P) + (IF e = b THEN 1 ELSE 0)
  <2>1. CASE e = b
    BY <1>5, <1>9, <2>1
  <2>2. CASE e /= b
    BY <1>5, <1>9, <2>2
  <2> QED  BY <2>1, <2>2
<1> QED  BY <1>10 DEF Times, t, P, Q

\* The head is one of them or not, and the rest are those of the tail.
LEMMA TimesTail ==
  ASSUME NEW S, NEW s \in Seq(S), s /= <<>>, NEW b
  PROVE  Times(s, b) = Times(Tail(s), b) + (IF Head(s) = b THEN 1 ELSE 0)
<1> DEFINE t == Tail(s)
           n == Len(s)
           P == {i \in DOMAIN s : s[i] = b}
           Q == {i \in DOMAIN t : t[i] = b}
           U == {i \in 2 .. n : s[i] = b}
           f == [i \in U |-> i - 1]
<1>1. n \in Nat \ {0} /\ DOMAIN s = 1 .. n /\ Head(s) = s[1]
  BY LenProperties, EmptySeq
<1>2. /\ t \in Seq(S) /\ Len(t) = n - 1
      /\ \A i \in 1 .. n - 1 : t[i] = s[i + 1]
  BY HeadTailProperties
<1>3. DOMAIN t = 1 .. n - 1
  BY <1>2, LenProperties
<1>4. U \subseteq 1 .. n /\ IsFiniteSet(U) /\ Cardinality(U) \in Nat /\ 1 \notin U
  <2>1. U \subseteq 1 .. n /\ 1 \notin U
    BY <1>1
  <2> QED  BY <1>1, <2>1, Positions
<1> HIDE DEF t, n
<1>5. Cardinality(Q) = Cardinality(U)
  <2>1. f \in [U -> Q]
    <3> SUFFICES ASSUME NEW i \in 2 .. n, s[i] = b  PROVE i - 1 \in 1 .. n - 1 /\ t[i - 1] = b
      BY <1>3
    <3>1. i - 1 \in 1 .. n - 1 /\ (i - 1) + 1 = i
      BY <1>1
    <3> QED  BY <1>2, <3>1
  <2>2. \A i, j \in U : f[i] = f[j] => i = j
    BY <1>1
  <2>3. ASSUME NEW q \in Q  PROVE \E i \in U : f[i] = q
    <3>1. q \in 1 .. n - 1 /\ t[q] = b
      BY <1>3
    <3>2. q + 1 \in 2 .. n /\ (q + 1) - 1 = q
      BY <1>1, <3>1
    <3>3. q + 1 \in U
      BY <1>2, <3>1, <3>2
    <3>4. f[q + 1] = q
      BY <3>2, <3>3
    <3> QED  BY <3>3, <3>4
  <2> HIDE DEF f, U, Q
  <2>4. f \in Bijection(U, Q)
    BY <2>1, <2>2, <2>3 DEF Bijection, Injection, IsInjective, Surjection
  <2> QED  BY <1>4, <2>4, FS_Bijection DEF ExistsBijection
<1>6. P = IF Head(s) = b THEN U \cup {1} ELSE U
  <2>1. \A i \in 1 .. n : i = 1 \/ i \in 2 .. n
    BY <1>1
  <2>2. 1 \in 1 .. n /\ \A i \in 2 .. n : i \in 1 .. n /\ i /= 1
    BY <1>1
  <2> QED  BY <1>1, <2>1, <2>2
<1> HIDE DEF P, Q, U
<1>7. Cardinality(P) = Cardinality(U) + (IF Head(s) = b THEN 1 ELSE 0)
  <2>1. CASE Head(s) = b
    <3>1. Cardinality(U \cup {1}) = Cardinality(U) + 1
      BY <1>4, FS_AddElement
    <3> QED  BY <1>6, <2>1, <3>1
  <2>2. CASE Head(s) /= b
    BY <1>4, <1>6, <2>2
  <2> QED  BY <2>1, <2>2
<1> QED  BY <1>5, <1>7 DEF Times, t, P, Q

\* A sequence of openings only.
LEMMA TimesAll == ASSUME NEW s \in Seq({"open"})  PROVE Times(s, "open") = Len(s)
<1>1. Len(s) \in Nat /\ DOMAIN s = 1 .. Len(s)
  BY LenProperties
<1>2. \A i \in 1 .. Len(s) : s[i] = "open"
  BY <1>1
<1>3. {i \in DOMAIN s : s[i] = "open"} = 1 .. Len(s)
  BY <1>1, <1>2
<1>4. Cardinality(1 .. Len(s)) = Len(s)
  BY <1>1, FS_Interval
<1> QED  BY <1>3, <1>4 DEF Times

LastByteOfOpening == <<"open", Size["open"]>>

\* The last byte of an opening is in the frame of an opening, once, and in no other.
LEMMA TimesFrame ==
  ASSUME NEW f \in Frame
  PROVE  Times(FrameBytes(f), LastByteOfOpening) = IF f = "open" THEN 1 ELSE 0
<1> DEFINE P == {i \in DOMAIN FrameBytes(f) : FrameBytes(f)[i] = LastByteOfOpening}
<1>1. /\ Size[f] \in Nat \ {0} /\ DOMAIN FrameBytes(f) = 1 .. Size[f]
      /\ \A i \in 1 .. Size[f] : FrameBytes(f)[i] = <<f, i>>
  BY FrameBytesProperties DEF FrameBytes
<1>2. CASE f = "open"
  <2>1. P = {Size["open"]}
    BY <1>1, <1>2 DEF LastByteOfOpening
  <2> QED  BY <1>2, <2>1, FS_Singleton DEF Times
<1>3. CASE f /= "open"
  <2>1. P = {}
    BY <1>1, <1>3 DEF LastByteOfOpening
  <2> QED  BY <1>3, <2>1, FS_EmptySet DEF Times
<1> QED  BY <1>2, <1>3

-----------------------------------------------------------------------------
(***************************************************************************)
(* Where the openings are                                                  *)
(***************************************************************************)

\* The counts of the mapping, told with Times.
LEMMA Counts ==
  /\ OnTheirWay = Times(todo, "open") + Times(pending, LastByteOfOpening)
                                      + Times(fifo, LastByteOfOpening)
  /\ OpenBytes(wire, Size["open"]) = Times(wire, LastByteOfOpening)
BY DEF OnTheirWay, OpeningsToMake, OpenBytes, Times, LastByteOfOpening

\* The same after a step.
LEMMA CountsAfter ==
  /\ OnTheirWay' = Times(todo', "open") + Times(pending', LastByteOfOpening)
                                       + Times(fifo', LastByteOfOpening)
  /\ OpenBytes(wire, Size["open"])' = Times(wire', LastByteOfOpening)
BY DEF OnTheirWay, OpeningsToMake, OpenBytes, Times, LastByteOfOpening

\* What is counted.
LEMMA DoorTypes ==
  SmartInv =>
    /\ todo \in Seq(LockCalls) /\ pending \in Seq(Byte) /\ fifo \in Seq(Byte)
    /\ wire \in Seq(Byte) /\ Openings \in Nat /\ OnTheirWay \in Nat
    /\ Times(todo, "open") \in Nat /\ Times(pending, LastByteOfOpening) \in Nat
    /\ Times(fifo, LastByteOfOpening) \in Nat /\ Times(wire, LastByteOfOpening) \in Nat
    /\ main \in {"reset", "init", "task", "loop", "noTask"}
<1> SUFFICES ASSUME SmartInv
             PROVE  /\ todo \in Seq(LockCalls) /\ pending \in Seq(Byte)
                    /\ fifo \in Seq(Byte) /\ wire \in Seq(Byte)
                    /\ Openings \in Nat /\ OnTheirWay \in Nat
                    /\ Times(todo, "open") \in Nat
                    /\ Times(pending, LastByteOfOpening) \in Nat
                    /\ Times(fifo, LastByteOfOpening) \in Nat
                    /\ Times(wire, LastByteOfOpening) \in Nat
                    /\ main \in {"reset", "init", "task", "loop", "noTask"}
  OBVIOUS
<1>1. /\ todo \in Seq(LockCalls) /\ pending \in Seq(Byte) /\ fifo \in Seq(Byte)
      /\ wire \in Seq(Byte)
      /\ main \in {"reset", "init", "task", "loop", "noTask"}
  BY DEF SmartInv, SmartTypeOK, LockTypeOK, TypeOK, LockCalls
<1>2. /\ Times(todo, "open") \in Nat /\ Times(pending, LastByteOfOpening) \in Nat
      /\ Times(fifo, LastByteOfOpening) \in Nat /\ Times(wire, LastByteOfOpening) \in Nat
  BY <1>1, TimesNat
<1>3. OnTheirWay \in Nat
  BY <1>2, Counts
<1> QED  BY <1>1, <1>2, <1>3, CountTypes

\* A byte of an opening is only ever in the FIFO of a device that has booted.
LEMMA OpeningsOnlyBooted ==
  ASSUME SmartInv, fifo /= <<>>, Head(fifo) = LastByteOfOpening
  PROVE  main \in {"task", "loop", "noTask"}
<1>1. /\ wire \in Seq(Byte) /\ fifo \in Seq(Byte) /\ pending \in Seq(Byte)
      /\ accepted \in Seq(Byte) /\ wire \o fifo \o pending = accepted
      /\ CutsOnWire /\ BootOrder /\ cuts \in SUBSET Nat
      /\ main \in {"reset", "init", "task", "loop", "noTask"}
  BY DEF SmartInv, LockInv, UartInv, TypeOK, StreamIntegrity, SmartTypeOK
<1> DEFINE p == Len(wire) + 1
<1>2. /\ Len(wire) \in Nat /\ Len(fifo) \in Nat \ {0} /\ Len(pending) \in Nat
      /\ Head(fifo) = fifo[1]
  BY <1>1, LenProperties, EmptySeq
<1>3. /\ wire \o fifo \in Seq(Byte) /\ Len(wire \o fifo) = Len(wire) + Len(fifo)
      /\ (wire \o fifo)[p] = fifo[1]
  <2>1. /\ wire \o fifo \in Seq(Byte) /\ Len(wire \o fifo) = Len(wire) + Len(fifo)
        /\ \A i \in 1 .. Len(wire) + Len(fifo) :
             (wire \o fifo)[i] = IF i <= Len(wire) THEN wire[i] ELSE fifo[i - Len(wire)]
    BY <1>1, ConcatProperties
  <2>2. p \in 1 .. Len(wire) + Len(fifo) /\ ~(p <= Len(wire)) /\ p - Len(wire) = 1
    BY <1>2
  <2> QED  BY <2>1, <2>2
<1>4. p \in DOMAIN accepted /\ accepted[p] = LastByteOfOpening
  <2> DEFINE s == wire \o fifo
  <2>1. s \in Seq(Byte) /\ Len(s) = Len(wire) + Len(fifo) /\ s[p] = fifo[1]
    BY <1>3
  <2> HIDE DEF s
  <2>2. accepted = s \o pending
    BY <1>1 DEF s
  <2>3. /\ Len(accepted) = Len(s) + Len(pending)
        /\ \A i \in 1 .. Len(s) + Len(pending) :
             accepted[i] = IF i <= Len(s) THEN s[i] ELSE pending[i - Len(s)]
    BY <1>1, <2>1, <2>2, ConcatProperties
  <2>4. p \in 1 .. Len(s) + Len(pending) /\ p <= Len(s)
    BY <1>2, <2>1
  <2>5. DOMAIN accepted = 1 .. Len(accepted)
    BY <1>1, LenProperties
  <2> QED  BY <1>2, <2>1, <2>3, <2>4, <2>5
<1>5. \A c \in cuts : c < p
  BY <1>1, <1>2 DEF CutsOnWire
<1>6. ASSUME NEW S, SinceRestart(S)  PROVE "open" \in S
  <2>1. accepted[p][1] \in S
    BY <1>4, <1>5, <1>6 DEF SinceRestart
  <2> QED  BY <1>4, <2>1 DEF LastByteOfOpening
<1>7. main \notin {"reset", "init"}
  BY <1>1, <1>6 DEF BootOrder
<1> QED  BY <1>1, <1>7

\* A step that leaves the task's calls, the UART's bytes and the requests alone is
\* none of the door's business, as long as the device has booted or has not.
LEMMA NotTheDoors ==
  UNCHANGED <<todo, pending, fifo, wire, calls, failed, forgotten>>
    /\ (main \in {"task", "loop", "noTask"})' = (main \in {"task", "loop", "noTask"})
  => UNCHANGED Door!doorVars
BY DEF Door!doorVars, OnTheirWay, OpeningsToMake, OpenBytes, Openings

-----------------------------------------------------------------------------
(***************************************************************************)
(* The steps                                                               *)
(***************************************************************************)

\* sendData has nothing of the frame before it in hand, and takes on a last byte of
\* an opening with an opening only, unless it fails.
LEMMA SendOpenings ==
  ASSUME SmartInv, NEW f \in LockFrames, SendData(f)
  PROVE  /\ UNCHANGED <<fifo, wire>> /\ Times(pending, LastByteOfOpening) = 0
         /\ Times(pending', LastByteOfOpening)
              = IF f = "open" /\ ~SendFails THEN 1 ELSE 0
<1>1. /\ UNCHANGED <<fifo, wire>> /\ pending = <<>> /\ f \in Frame
      /\ \/ pending' = pending /\ SendFails
         \/ pending' = FrameBytes(f) /\ ~SendFails
  BY FrameAssumption
  DEF SendData, SendFails, WriteStarts, SmartInv, LockInv, UartInv, IdleHasWritten
<1>2. Times(pending, LastByteOfOpening) = 0
  BY <1>1, TimesEmpty
<1>3. CASE pending' = pending /\ SendFails
  BY <1>1, <1>2, <1>3
<1>4. CASE pending' = FrameBytes(f) /\ ~SendFails
  BY <1>1, <1>2, <1>4, TimesFrame
<1> QED  BY <1>1, <1>3, <1>4

\* The call the task makes next is an opening, of a device that has booted, which
\* sendData takes on or fails; or it is one of boot.
LEMMA CallLockDoor ==
  SmartInv /\ CallLock => Door!Fail \/ UNCHANGED Door!doorVars
<1> SUFFICES ASSUME SmartInv, CallLock  PROVE Door!Fail \/ UNCHANGED Door!doorVars
  OBVIOUS
<1>1. /\ todo /= <<>> /\ todo' = Tail(todo) /\ main' = main /\ calls' = calls
      /\ failed' = failed + (IF OpeningFails THEN 1 ELSE 0) /\ failed \in Nat
      /\ forgotten' = forgotten /\ BootOrder /\ todo \in Seq(LockCalls)
      /\ main \in {"reset", "init", "task", "loop", "noTask"}
  BY DoorTypes DEF CallLock, zclVars, SmartInv, SmartTypeOK
<1>2. Openings' = Openings
  BY <1>1 DEF Openings
<1>3. Times(todo, "open") = Times(todo', "open") + (IF Head(todo) = "open" THEN 1 ELSE 0)
  BY <1>1, TimesTail
<1>4. /\ Times(todo', "open") \in Nat /\ Times(fifo, LastByteOfOpening) \in Nat
      /\ OnTheirWay \in Nat
  <2>1. todo' \in Seq(LockCalls)
    BY <1>1, HeadTailProperties
  <2> QED  BY <2>1, TimesNat, DoorTypes
<1>5. CASE Head(todo) = "open"
  <2>1. SendData("open")
    BY <1>5 DEF CallLock, OpenLock, SendFrame
  <2>2. /\ UNCHANGED <<fifo, wire>> /\ Times(pending, LastByteOfOpening) = 0
        /\ Times(pending', LastByteOfOpening) = IF SendFails THEN 0 ELSE 1
        /\ failed' = failed + (IF SendFails THEN 1 ELSE 0)
    BY <1>1, <1>5, <2>1, SendOpenings DEF LockFrames, OpeningFails
  <2>3. main \in {"task", "loop", "noTask"}
    BY <1>1, <1>5 DEF BootOrder
  <2>4. OpenBytes(wire, Size["open"])' = OpenBytes(wire, Size["open"])
    BY <2>2, Counts, CountsAfter
  <2>5. /\ OnTheirWay = (Times(todo', "open") + 1) + 0 + Times(fifo, LastByteOfOpening)
        /\ OnTheirWay' = Times(todo', "open") + Times(pending', LastByteOfOpening)
                                             + Times(fifo, LastByteOfOpening)
    BY <1>3, <1>5, <2>2, Counts, CountsAfter
  <2>6. CASE ~SendFails
    <3>1. OnTheirWay' = OnTheirWay /\ failed' = failed
      BY <1>1, <1>4, <2>2, <2>5, <2>6
    <3> QED  BY <1>1, <1>2, <2>4, <3>1 DEF Door!doorVars
  <2>7. CASE SendFails
    <3>1. OnTheirWay' = OnTheirWay - 1 /\ OnTheirWay > 0 /\ failed' = failed + 1
      BY <1>4, <2>2, <2>5, <2>7
    <3> QED  BY <1>1, <1>2, <2>3, <2>4, <3>1 DEF Door!Fail, Door!Leave
  <2> QED  BY <2>6, <2>7
<1>6. CASE Head(todo) /= "open"
  <2>1. PICK f \in {"setKey", "wakeup"} : SendData(f)
    BY <1>6 DEF CallLock, SetKey, SendFrame, TurnOffAutomaticLatch
  <2>2. /\ UNCHANGED <<fifo, wire>> /\ Times(pending, LastByteOfOpening) = 0
        /\ Times(pending', LastByteOfOpening) = 0 /\ failed' = failed
    BY <1>1, <1>6, <2>1, SendOpenings DEF LockFrames, OpeningFails
  <2>3. Times(todo, "open") = Times(todo', "open")
    BY <1>3, <1>4, <1>6
  <2>4. /\ OpenBytes(wire, Size["open"])' = OpenBytes(wire, Size["open"])
        /\ OnTheirWay' = OnTheirWay
    BY <2>2, <2>3, Counts, CountsAfter
  <2> QED  BY <1>1, <1>2, <2>2, <2>4 DEF Door!doorVars
<1> QED  BY <1>5, <1>6

\* A callback asks for an opening, or the loop goes on.
LEMMA LoopDoor == SmartInv /\ Loop => Door!Ask \/ UNCHANGED Door!doorVars
<1> SUFFICES ASSUME SmartInv, Loop  PROVE Door!Ask \/ UNCHANGED Door!doorVars
  OBVIOUS
<1>1. /\ main = "loop" /\ main' = "loop" /\ todo = <<>>
      /\ UNCHANGED <<pending, fifo, wire, failed, forgotten>>
  BY DEF Loop, Free, vars, uartVars, callVars, fateVars
<1>2. Openings' = Openings + Len(todo') /\ Len(todo') \in {0, 1}
  BY LoopCounts
<1>3. Times(todo', "open") = Len(todo')
  <2>1. TaskTypeOK
    BY DoorTypes DEF SmartInv, SmartTypeOK, TaskTypeOK
  <2>2. todo' \in Seq({"open"})
    BY <2>1, LoopTypes
  <2> QED  BY <2>2, TimesAll
<1>4. Times(todo, "open") = 0
  BY <1>1, TimesEmpty
<1>5. /\ Times(pending, LastByteOfOpening) \in Nat /\ Times(fifo, LastByteOfOpening) \in Nat
      /\ Openings \in Nat
  BY DoorTypes
<1>6. OpenBytes(wire, Size["open"])' = OpenBytes(wire, Size["open"])
  BY <1>1, Counts, CountsAfter
<1>7. OnTheirWay' = OnTheirWay + Len(todo')
  BY <1>1, <1>2, <1>3, <1>4, <1>5, Counts, CountsAfter
<1>8. OnTheirWay \in Nat
  BY DoorTypes
<1>9. CASE Len(todo') = 0
  <2>1. Openings' = Openings /\ OnTheirWay' = OnTheirWay
    BY <1>2, <1>5, <1>7, <1>8, <1>9
  <2> QED  BY <1>1, <1>6, <2>1 DEF Door!doorVars
<1>10. CASE Len(todo') = 1
  <2>1. Openings' = Openings + 1 /\ OnTheirWay' = OnTheirWay + 1
    BY <1>2, <1>7, <1>10
  <2> QED  BY <1>1, <1>6, <2>1 DEF Door!Ask
<1> QED  BY <1>2, <1>9, <1>10

\* The shift register brings an opening to its end, of a device that has booted, or
\* moves another byte.
LEMMA ShiftDoor ==
  SmartInv /\ ShiftOut /\ UNCHANGED <<todo, main, calls, failed, forgotten>>
    => Door!Open \/ UNCHANGED Door!doorVars
<1> SUFFICES ASSUME SmartInv, ShiftOut, UNCHANGED <<todo, main, calls, failed, forgotten>>
             PROVE  Door!Open \/ UNCHANGED Door!doorVars
  OBVIOUS
<1> DEFINE L == LastByteOfOpening
           d == IF Head(fifo) = L THEN 1 ELSE 0
<1>1. /\ fifo /= <<>> /\ wire' = Append(wire, Head(fifo)) /\ fifo' = Tail(fifo)
      /\ pending' = pending
  BY DEF ShiftOut, callVars
<1>2. /\ fifo \in Seq(Byte) /\ wire \in Seq(Byte) /\ Head(fifo) \in Byte
      /\ fifo' \in Seq(Byte)
  BY <1>1, DoorTypes, HeadTailProperties
<1>3. /\ Times(fifo, L) = Times(fifo', L) + d
      /\ Times(wire', L) = Times(wire, L) + d
  BY <1>1, <1>2, TimesTail, TimesAppend
<1>4. /\ Times(fifo', L) \in Nat /\ Times(wire, L) \in Nat /\ Times(todo, "open") \in Nat
      /\ Times(pending, L) \in Nat
  BY <1>2, TimesNat, DoorTypes
<1>5. Openings' = Openings
  BY DEF Openings
<1>6. /\ OnTheirWay = Times(todo, "open") + Times(pending, L) + (Times(fifo', L) + d)
      /\ OnTheirWay' = Times(todo, "open") + Times(pending, L) + Times(fifo', L)
      /\ OpenBytes(wire, Size["open"]) = Times(wire, L)
      /\ OpenBytes(wire, Size["open"])' = Times(wire, L) + d
  BY <1>1, <1>3, Counts, CountsAfter
<1>7. CASE Head(fifo) = L
  <2>1. main \in {"task", "loop", "noTask"}
    BY <1>1, <1>7, OpeningsOnlyBooted
  <2>2. /\ OnTheirWay' = OnTheirWay - 1 /\ OnTheirWay > 0
        /\ OpenBytes(wire, Size["open"])' = OpenBytes(wire, Size["open"]) + 1
    BY <1>4, <1>6, <1>7
  <2> QED  BY <1>5, <2>1, <2>2 DEF Door!Open, Door!Leave
<1>8. CASE Head(fifo) /= L
  <2>1. /\ OnTheirWay' = OnTheirWay
        /\ OpenBytes(wire, Size["open"])' = OpenBytes(wire, Size["open"])
    BY <1>4, <1>6, <1>8
  <2> QED  BY <1>5, <2>1 DEF Door!doorVars
<1> QED  BY <1>7, <1>8

\* What uart_write_bytes puts into the FIFO stays on its way.
LEMMA PutDoor ==
  SmartInv /\ PutByte /\ UNCHANGED <<todo, main, calls, failed, forgotten>> => UNCHANGED Door!doorVars
<1> SUFFICES ASSUME SmartInv, PutByte, UNCHANGED <<todo, main, calls, failed, forgotten>>
             PROVE  UNCHANGED Door!doorVars
  OBVIOUS
<1> DEFINE L == LastByteOfOpening
           d == IF Head(pending) = L THEN 1 ELSE 0
<1>1. /\ pending /= <<>> /\ fifo' = Append(fifo, Head(pending)) /\ pending' = Tail(pending)
      /\ wire' = wire
  BY DEF PutByte
<1>2. /\ fifo \in Seq(Byte) /\ pending \in Seq(Byte) /\ Head(pending) \in Byte
      /\ pending' \in Seq(Byte)
  BY <1>1, DoorTypes, HeadTailProperties
<1>3. /\ Times(pending, L) = Times(pending', L) + d
      /\ Times(fifo', L) = Times(fifo, L) + d
  BY <1>1, <1>2, TimesTail, TimesAppend
<1>4. /\ Times(pending', L) \in Nat /\ Times(fifo, L) \in Nat /\ Times(todo, "open") \in Nat
  BY <1>2, TimesNat, DoorTypes
<1>5. Openings' = Openings
  BY DEF Openings
<1>6. /\ OnTheirWay = Times(todo, "open") + (Times(pending', L) + d) + Times(fifo, L)
      /\ OnTheirWay' = Times(todo, "open") + Times(pending', L) + (Times(fifo, L) + d)
      /\ OpenBytes(wire, Size["open"])' = OpenBytes(wire, Size["open"])
  BY <1>1, <1>3, Counts, CountsAfter
<1>7. OnTheirWay' = OnTheirWay
  BY <1>4, <1>6
<1> QED  BY <1>5, <1>6, <1>7 DEF Door!doorVars

\* Every step of the device is a step of the door lock or leaves it alone.
LEMMA DoorStep == SmartInv /\ [SmartNext]_allVars => [Door!DoorNext]_(Door!doorVars)
<1> SUFFICES ASSUME SmartInv, [SmartNext]_allVars
             PROVE  Door!DoorNext \/ UNCHANGED Door!doorVars
  OBVIOUS
<1>1. CASE AppMain
  <2>1. /\ main = "reset" /\ main' = "init" /\ todo = <<>>
        /\ todo' = <<"setKey", "turnOffAutomaticLatch">>
        /\ UNCHANGED <<pending, fifo, wire, calls, failed, forgotten>>
    BY <1>1 DEF AppMain, InitLock, InitDriver, zclVars, fateVars, SmartInv, BootOrder
  <2>2. Times(todo', "open") = 0 /\ Times(todo, "open") = 0
    <3>1. {i \in DOMAIN todo' : todo'[i] = "open"} = {}
      BY <2>1
    <3> QED  BY <2>1, <3>1, FS_EmptySet, TimesEmpty DEF Times
  <2>3. /\ OnTheirWay' = OnTheirWay /\ Openings' = Openings
        /\ OpenBytes(wire, Size["open"])' = OpenBytes(wire, Size["open"])
    BY <2>1, <2>2, Counts, CountsAfter DEF Openings
  <2> QED  BY <2>1, <2>3 DEF Door!doorVars
<1>2. CASE CallLock
  BY <1>2, CallLockDoor DEF Door!DoorNext
<1>3. CASE CreateTask
  <2>1. /\ main = "init" /\ main' \in {"task", "noTask"}
        /\ UNCHANGED <<todo, pending, fifo, wire, calls, failed, forgotten>>
    BY <1>3 DEF CreateTask, vars, uartVars, callVars, zclVars, fateVars
  <2>2. /\ OnTheirWay' = OnTheirWay /\ Openings' = Openings
        /\ OpenBytes(wire, Size["open"])' = OpenBytes(wire, Size["open"])
    BY <2>1, Counts, CountsAfter DEF Openings
  <2>3. Door!Boot
    BY <2>1, <2>2 DEF Door!Boot
  <2> QED  BY <2>3 DEF Door!DoorNext
<1>4. CASE StartStack
  <2>1. /\ main = "task" /\ main' = "loop"
        /\ UNCHANGED <<todo, pending, fifo, wire, calls, failed, forgotten>>
    BY <1>4 DEF StartStack, vars, uartVars, callVars, zclVars, fateVars
  <2> QED  BY <2>1, NotTheDoors
<1>5. CASE Loop
  BY <1>5, LoopDoor DEF Door!DoorNext
<1>6. CASE Crash
  <2>1. /\ main' = "reset" /\ todo' = <<>> /\ pending' = <<>> /\ fifo' = <<>>
        /\ UNCHANGED <<wire, calls, failed>>
        /\ forgotten' = forgotten + OnTheirWay
    BY <1>6 DEF Crash, Restart, Reset
  <2>2. /\ OnTheirWay' = 0 /\ Openings' = Openings
        /\ OpenBytes(wire, Size["open"])' = OpenBytes(wire, Size["open"])
    BY <2>1, TimesEmpty, Counts, CountsAfter DEF Openings
  <2>3. Door!Restart
    BY <2>1, <2>2 DEF Door!Restart
  <2> QED  BY <2>3 DEF Door!DoorNext
<1>7. ASSUME NEW c \in Command, Arrive(c)  PROVE UNCHANGED Door!doorVars
  <2>1. UNCHANGED <<main, todo, pending, fifo, wire, calls, failed, forgotten>>
    BY <1>7 DEF Arrive, Zcl!Arrive, vars, uartVars, callVars, taskVars, fateVars
  <2> QED  BY <2>1, NotTheDoors
<1>8. ASSUME UNCHANGED topVars
      PROVE  UNCHANGED <<main, todo, calls, failed, forgotten>>
  BY <1>8 DEF topVars, taskVars, zclVars, fateVars
<1>9. CASE Under(DisableLatch)
  <2>1. SendData("disableLatch") /\ UNCHANGED <<main, todo, calls, failed, forgotten>>
    BY <1>8, <1>9 DEF Under, DisableLatch
  <2>2. /\ UNCHANGED <<fifo, wire>> /\ Times(pending, LastByteOfOpening) = 0
        /\ Times(pending', LastByteOfOpening) = 0
    BY <2>1, SendOpenings DEF LockFrames
  <2>3. /\ OnTheirWay' = OnTheirWay /\ Openings' = Openings
        /\ OpenBytes(wire, Size["open"])' = OpenBytes(wire, Size["open"])
    BY <2>1, <2>2, Counts, CountsAfter DEF Openings
  <2> QED  BY <2>1, <2>3 DEF Door!doorVars
<1>10. CASE Under(StartPause \/ Return)
  <2>1. UNCHANGED <<main, todo, pending, fifo, wire, calls, failed, forgotten>>
    BY <1>8, <1>10 DEF Under, StartPause, Return, uartVars, callVars
  <2> QED  BY <2>1, NotTheDoors
<1>11. CASE Under(Tick)
  <2>1. \/ ShiftOut
        \/ UNCHANGED <<pending, fifo, wire>>
    BY <1>11 DEF Under, Tick, uartVars, callVars
  <2> QED  BY <1>8, <1>11, <2>1, ShiftDoor, NotTheDoors DEF Under, Door!DoorNext
<1>12. CASE Under(UartRuns)
  <2>1. \/ PutByte \/ ShiftOut
        \/ UNCHANGED <<pending, fifo, wire>>
    BY <1>12 DEF Under, UartRuns, WriteDone, FloatingPin, callVars
  <2> QED  BY <1>8, <1>12, <2>1, PutDoor, ShiftDoor, NotTheDoors DEF Under, Door!DoorNext
<1>13. CASE UNCHANGED allVars
  <2>1. UNCHANGED <<main, todo, pending, fifo, wire, calls, failed, forgotten>>
    BY <1>8, <1>13 DEF allVars, vars, uartVars, callVars
  <2> QED  BY <2>1, NotTheDoors
<1> QED
  BY <1>1, <1>2, <1>3, <1>4, <1>5, <1>6, <1>7, <1>9, <1>10, <1>11, <1>12, <1>13
  DEF SmartNext, Under

\* Nothing is on its way when the device is made.
LEMMA DoorInitially == SmartInit => Door!DoorInit
<1> SUFFICES ASSUME SmartInit  PROVE Door!DoorInit
  OBVIOUS
<1>1. /\ main = "reset" /\ todo = <<>> /\ pending = <<>> /\ fifo = <<>> /\ wire = <<>>
      /\ calls = <<>> /\ failed = 0 /\ forgotten = 0
  BY DEF SmartInit, LockInit, UartInit, Zcl!ZclInit
<1>2. OnTheirWay = 0 /\ OpenBytes(wire, Size["open"]) = 0
  BY <1>1, TimesEmpty, Counts
<1>3. Openings = 0
  <2>1. {k \in DOMAIN calls : calls[k].call = "open"} = {}
    BY <1>1
  <2> QED  BY <2>1, FS_EmptySet DEF Openings
<1> QED  BY <1>1, <1>2, <1>3 DEF Door!DoorInit

-----------------------------------------------------------------------------
(* The theorems.                                                           *)

\* The safety part of ImplementsDoorLock: an opening the lock hears to the end was
\* asked for by a command since the last restart and is counted once; one that is not
\* heard has failed in its own sendData, was forgotten in a restart, or is still on
\* its way.
THEOREM IsDoorLock == SmartSpec => Door!DoorInit /\ [][Door!DoorNext]_(Door!doorVars)
BY DoorInitially, DoorStep, SmartInvariance, PTL DEF SmartSpec

\* No opening is lost without a reason or made twice: as in every door lock of
\* DoorLock.tla, those asked for are those on the wire, those on their way, those
\* whose sendData failed and those a restart took, for any number of each.
THEOREM OpeningsAreAccountedFor == SmartSpec => []OpeningsAccounted
<1>1. SmartInit => OpeningsAccounted
  BY DoorInitially DEF Door!DoorInit, OpeningsAccounted
<1>2. SmartInv /\ OpeningsAccounted /\ [SmartNext]_allVars => OpeningsAccounted'
  <2> SUFFICES ASSUME SmartInv, OpeningsAccounted, [Door!DoorNext]_(Door!doorVars)
               PROVE  OpeningsAccounted'
    BY DoorStep
  <2>1. /\ OpenBytes(wire, Size["open"]) \in Nat /\ OnTheirWay \in Nat /\ Openings \in Nat
        /\ failed \in Nat /\ forgotten \in Nat
    BY DoorTypes, Counts DEF SmartInv, SmartTypeOK
  <2> QED
    BY <2>1
    DEF OpeningsAccounted, Door!DoorNext, Door!Boot, Door!Ask, Door!Open, Door!Fail,
        Door!Leave, Door!Restart, Door!doorVars
<1> QED  BY <1>1, <1>2, SmartInvariance, PTL DEF SmartSpec
=============================================================================
