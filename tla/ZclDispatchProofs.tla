-------------------------- MODULE ZclDispatchProofs --------------------------
(***************************************************************************)
(* What holds of ZclDispatch for every set of commands and any bounds: the *)
(* raw callback's misplaced read makes it open the lock exactly once for   *)
(* each command with the id of Unlock Door, and for nothing else.          *)
(***************************************************************************)
EXTENDS ZclDispatch, FiniteSetTheorems, TLAPS

\* The command being processed is the head of the stack's buffer.
CurrentIsHead ==
  step /= "idle" => done /= <<>> /\ inbox /= <<>> /\ done[Len(done)] = Head(inbox)

\* The lock was only told to open, once, and for commands the raw callback opens
\* for, none of them still ahead of the raw callback.
CallsAreOpenings ==
  \A k \in DOMAIN calls :
    /\ calls[k].call = "open"
    /\ calls[k].n \in DOMAIN done /\ RawOpens(done[calls[k].n])
    /\ step = "raw" => calls[k].n /= Len(done)

CalledOnce ==
  \A k, l \in DOMAIN calls : calls[k].n = calls[l].n => k = l

\* Every such command the raw callback has seen made a call.
NoneMissed ==
  \A n \in DOMAIN done : RawOpens(done[n]) /\ (n < Len(done) \/ step /= "raw")
                           => \E k \in DOMAIN calls : calls[k].n = n

ZclInv == /\ ZclTypeOK /\ CurrentIsHead
          /\ CallsAreOpenings /\ CalledOnce /\ NoneMissed

Calls == [call : {"setKey", "open"}, n : Nat]

-----------------------------------------------------------------------------
\* The wrong type lands on the high byte of the profile and the command id.
LEMMA RawReads == \A c \in Command : CmdInfoClusterId(c) = 1 + 256 * c.cmd
<1>1. TailSize(27) = 28 /\ TailSize(14) = 16
  BY DEF TailSize
<1> SUFFICES ASSUME NEW c \in Command
             PROVE  CmdInfoClusterId(c) = 1 + 256 * c.cmd
  OBVIOUS
<1>2. c.profile = 260 /\ c.cmd \in CommandId
  BY CommandAssumption DEF CommandAssumption, HA_PROFILE
<1>3. CmdInfoClusterId(c) = HeaderByte(c, 18) + 256 * HeaderByte(c, 19)
  BY <1>1 DEF CmdInfoClusterId
<1>4. HeaderByte(c, 18) = 1 /\ HeaderByte(c, 19) = c.cmd
  BY <1>2 DEF HeaderByte
<1> QED  BY <1>2, <1>3, <1>4 DEF CommandId

\* So the raw callback's condition is one on the command id alone.
LEMMA RawOpensById == \A c \in Command : RawOpens(c) <=> c.cmd = UNLOCK_DOOR
<1> SUFFICES ASSUME NEW c \in Command  PROVE RawOpens(c) <=> c.cmd = UNLOCK_DOOR
  OBVIOUS
<1>1. CmdInfoClusterId(c) = 1 + 256 * c.cmd
  BY RawReads
<1> QED  BY <1>1 DEF RawOpens, DOOR_LOCK, UNLOCK_DOOR

\* No attribute passes the attribute handler: no type is 0 and 16.
LEMMA NeverArrives == \A a : AttributeVerdict(a) \in {"wrong", "none"}
BY DEF AttributeVerdict, TypeAccepted, ON_OFF_ID, TYPE_BOOL

-----------------------------------------------------------------------------
\* The invariant holds before the first command.
LEMMA InvInit == ZclInit => ZclInv
BY DEF ZclInit, ZclInv, ZclTypeOK, CurrentIsHead, CallsAreOpenings, CalledOnce,
       NoneMissed, NoCallback

\* A command put into the buffer disturbs nothing.
LEMMA ArriveStep == ASSUME ZclInv, NEW c \in Command, Arrive(c)  PROVE ZclInv'
<1>1. inbox' \in Seq(Command) /\ (inbox /= <<>> => inbox' /= <<>> /\ Head(inbox') = Head(inbox))
  BY DEF ZclInv, ZclTypeOK, Arrive
<1>2. UNCHANGED <<step, cb, done, calls, verdict>>
  BY DEF Arrive
<1>3. ZclTypeOK' /\ CurrentIsHead'
  BY <1>1, <1>2 DEF ZclInv, ZclTypeOK, CurrentIsHead
<1>4. CallsAreOpenings' /\ CalledOnce' /\ NoneMissed'
  BY <1>2 DEF ZclInv, CallsAreOpenings, CalledOnce, NoneMissed
<1> QED  BY <1>3, <1>4 DEF ZclInv

\* A command taken for processing has no history yet.
LEMMA TakeStep == ASSUME ZclInv, Take  PROVE ZclInv'
<1>1. /\ inbox \in Seq(Command) /\ inbox /= <<>> /\ done \in Seq(Command)
      /\ step = "idle" /\ step' = "raw" /\ done' = Append(done, Head(inbox))
      /\ UNCHANGED <<inbox, cb, calls, verdict>>
  BY DEF ZclInv, ZclTypeOK, Take
<1>2. /\ done' \in Seq(Command) /\ Len(done') = Len(done) + 1
      /\ done' /= <<>> /\ done'[Len(done')] = Head(inbox)
      /\ \A n \in DOMAIN done : n \in DOMAIN done' /\ done'[n] = done[n]
                                /\ n < Len(done')
      /\ \A n \in DOMAIN done' : n \in DOMAIN done \/ n = Len(done')
  BY <1>1
<1>3. ZclTypeOK' /\ CurrentIsHead'
  BY <1>1, <1>2 DEF ZclInv, ZclTypeOK, CurrentIsHead
<1>4. CallsAreOpenings'
  <2> SUFFICES ASSUME NEW k \in DOMAIN calls
               PROVE  /\ calls[k].call = "open"
                      /\ calls[k].n \in DOMAIN done' /\ RawOpens(done'[calls[k].n])
                      /\ calls[k].n /= Len(done')
    BY <1>1 DEF CallsAreOpenings
  <2>1. calls[k].call = "open" /\ calls[k].n \in DOMAIN done /\ RawOpens(done[calls[k].n])
    BY DEF ZclInv, CallsAreOpenings
  <2>2. calls[k].n < Len(done') /\ Len(done') \in Nat /\ calls[k].n \in Nat
    BY <1>1, <1>2, <2>1
  <2> QED  BY <1>2, <2>1, <2>2
<1>5. CalledOnce'
  BY <1>1 DEF ZclInv, CalledOnce
<1>6. NoneMissed'
  <2> SUFFICES ASSUME NEW n \in DOMAIN done', RawOpens(done'[n]), n < Len(done')
               PROVE  \E k \in DOMAIN calls : calls[k].n = n
    BY <1>1 DEF NoneMissed
  <2>1. n \in DOMAIN done /\ done'[n] = done[n]
    BY <1>1, <1>2
  <2> QED  BY <1>1, <2>1 DEF ZclInv, NoneMissed
<1> QED  BY <1>3, <1>4, <1>5, <1>6 DEF ZclInv

\* The raw callback opens once at most and for the ids it tests.
LEMMA RawStep == ASSUME ZclInv, RawCommandCallback  PROVE ZclInv'
<1>1. /\ step = "raw" /\ step' = "stack" /\ UNCHANGED <<inbox, cb, done, verdict>>
      /\ done \in Seq(Command) /\ calls \in Seq(Calls)
      /\ done /= <<>> /\ done[Len(done)] = Head(inbox)
  BY DEF ZclInv, ZclTypeOK, CurrentIsHead, RawCommandCallback, Calls
<1>2. Len(done) \in DOMAIN done /\ Len(done) \in Nat
  BY <1>1
<1>3. CurrentIsHead'
  BY <1>1 DEF ZclInv, CurrentIsHead
<1>4. CASE ~RawOpens(Head(inbox))
  <2>1. calls' = calls
    BY <1>4 DEF RawCommandCallback
  <2>2. ZclTypeOK' /\ CallsAreOpenings' /\ CalledOnce'
    BY <1>1, <2>1 DEF ZclInv, ZclTypeOK, CallsAreOpenings, CalledOnce
  <2>3. NoneMissed'
    <3> SUFFICES ASSUME NEW n \in DOMAIN done, RawOpens(done[n])
                 PROVE  \E k \in DOMAIN calls : calls[k].n = n
      BY <1>1, <2>1 DEF NoneMissed
    <3>1. n /= Len(done)
      BY <1>1, <1>4
    <3>2. n < Len(done)
      BY <1>1, <3>1
    <3> QED  BY <3>2 DEF ZclInv, NoneMissed
  <2> QED  BY <1>3, <2>2, <2>3 DEF ZclInv
<1>5. CASE RawOpens(Head(inbox))
  <2> DEFINE new == [call |-> "open", n |-> Len(done)]
  <2>1. calls' = Append(calls, new) /\ new \in Calls
    BY <1>2, <1>5 DEF RawCommandCallback, Call, Calls
  <2>2. /\ calls' \in Seq(Calls) /\ Len(calls') = Len(calls) + 1
        /\ calls'[Len(calls')] = new /\ Len(calls') \in DOMAIN calls'
        /\ \A k \in DOMAIN calls : k \in DOMAIN calls' /\ calls'[k] = calls[k]
        /\ \A k \in DOMAIN calls' : k \in DOMAIN calls \/ k = Len(calls')
    BY <1>1, <2>1
  <2>3. new.call = "open" /\ new.n = Len(done)
    OBVIOUS
  <2> HIDE DEF new
  <2>4. ZclTypeOK'
    BY <1>1, <2>2 DEF ZclInv, ZclTypeOK, Calls
  <2>5. CallsAreOpenings'
    BY <1>1, <1>2, <1>5, <2>2, <2>3 DEF ZclInv, CallsAreOpenings
  <2>6. CalledOnce'
    BY <1>1, <2>2, <2>3 DEF ZclInv, CallsAreOpenings, CalledOnce
  <2>7. NoneMissed'
    <3> SUFFICES ASSUME NEW n \in DOMAIN done, RawOpens(done[n])
                 PROVE  \E k \in DOMAIN calls' : calls'[k].n = n
      BY <1>1 DEF NoneMissed
    <3>1. CASE n = Len(done)
      BY <2>2, <2>3, <3>1
    <3>2. CASE n /= Len(done)
      <4>1. n < Len(done)
        BY <1>1, <3>2
      <4> QED  BY <2>2, <4>1 DEF ZclInv, NoneMissed
    <3> QED  BY <3>1, <3>2
  <2> QED  BY <1>3, <2>4, <2>5, <2>6, <2>7 DEF ZclInv
<1> QED  BY <1>4, <1>5

\* What the stack does between the two callbacks.
LEMMA StackStep == ASSUME ZclInv, StackProcesses  PROVE ZclInv'
<1>1. step = "stack" /\ step' = "action" /\ UNCHANGED <<inbox, done, calls, verdict>>
  BY DEF StackProcesses
<1>2. cb'.id \in {"none", "SET_ATTR_VALUE", "DOOR_LOCK_LOCK_DOOR"}
  BY DEF StackProcesses, StackCallbacks, NoCallback
<1>3. ZclTypeOK' /\ CurrentIsHead'
  BY <1>1, <1>2 DEF ZclInv, ZclTypeOK, CurrentIsHead
<1>4. CallsAreOpenings' /\ CalledOnce' /\ NoneMissed'
  BY <1>1 DEF ZclInv, CallsAreOpenings, CalledOnce, NoneMissed
<1> QED  BY <1>3, <1>4 DEF ZclInv

\* The action handler adds no opening to that of the raw callback.
LEMMA ActionStep == ASSUME ZclInv, ActionHandler  PROVE ZclInv'
<1>1. /\ step = "action" /\ step' = "idle" /\ done' = done
      /\ inbox' = Tail(inbox) /\ cb' = NoCallback
  BY DEF ActionHandler
<1>2. calls' = calls /\ verdict' \in {"none", "wrong", verdict}
  BY NeverArrives DEF ActionHandler
<1>3. inbox' \in Seq(Command)
  BY <1>1 DEF ZclInv, ZclTypeOK, CurrentIsHead
<1>4. ZclTypeOK' /\ CurrentIsHead'
  BY <1>1, <1>2, <1>3 DEF ZclInv, ZclTypeOK, CurrentIsHead, NoCallback
<1>5. CallsAreOpenings' /\ CalledOnce' /\ NoneMissed'
  BY <1>1, <1>2 DEF ZclInv, CallsAreOpenings, CalledOnce, NoneMissed
<1> QED  BY <1>4, <1>5 DEF ZclInv

\* The inductive invariant of the callbacks.
LEMMA Invariance == ZclSpec => []ZclInv
<1>1. ZclInv /\ [ZclNext]_vars => ZclInv'
  <2> SUFFICES ASSUME ZclInv, [ZclNext]_vars  PROVE ZclInv'
    OBVIOUS
  <2>1. CASE UNCHANGED vars
    BY <2>1 DEF vars, ZclInv, ZclTypeOK, CurrentIsHead, CallsAreOpenings, CalledOnce,
                NoneMissed
  <2> QED
    BY <2>1, ArriveStep, TakeStep, RawStep, StackStep, ActionStep DEF ZclNext
<1> QED  BY <1>1, InvInit, PTL DEF ZclSpec

-----------------------------------------------------------------------------
\* The calls that opened the lock for a command: one of them, or none.
LEMMA OpensCount ==
  ZclInv => \A n \in DOMAIN done :
              /\ Opens(n) \in {0, 1}
              /\ Opens(n) = 1 <=> \E k \in DOMAIN calls : calls[k].n = n
<1> SUFFICES ASSUME ZclInv, NEW n \in DOMAIN done
             PROVE  /\ Opens(n) \in {0, 1}
                    /\ Opens(n) = 1 <=> \E k \in DOMAIN calls : calls[k].n = n
  OBVIOUS
<1> DEFINE S == {k \in DOMAIN calls : calls[k].call = "open" /\ calls[k].n = n}
<1>1. S = {k \in DOMAIN calls : calls[k].n = n}
  BY DEF ZclInv, CallsAreOpenings
<1>2. CASE \E k \in DOMAIN calls : calls[k].n = n
  <2>1. PICK k \in DOMAIN calls : calls[k].n = n
    BY <1>2
  <2>2. S = {k}
    BY <1>1, <2>1 DEF ZclInv, CalledOnce
  <2>3. Cardinality(S) = 1
    BY <2>2, FS_Singleton
  <2> QED  BY <1>2, <2>3 DEF Opens
<1>3. CASE ~\E k \in DOMAIN calls : calls[k].n = n
  <2>1. S = {}
    BY <1>1, <1>3
  <2>2. Cardinality(S) = 0
    BY <2>1, FS_EmptySet
  <2> QED  BY <1>3, <2>2 DEF Opens
<1> QED  BY <1>2, <1>3

\* Every variable has its type.
THEOREM Typing == ZclSpec => []ZclTypeOK
BY Invariance, PTL DEF ZclInv

\* Each Unlock Door command opens the lock, although the raw callback looks for
\* the cluster in the wrong place.
THEOREM EveryUnlockOpensHolds == ZclSpec => []EveryUnlockOpens
<1>1. ZclInv => EveryUnlockOpens
  <2> SUFFICES ASSUME ZclInv, NEW n \in DOMAIN done, IsUnlock(done[n]), Finished(n)
               PROVE  Opens(n) >= 1
    BY DEF EveryUnlockOpens
  <2>1. done[n] \in Command
    BY DEF ZclInv, ZclTypeOK
  <2>2. RawOpens(done[n])
    BY <2>1, RawOpensById DEF IsUnlock
  <2>3. n < Len(done) \/ step /= "raw"
    BY DEF Finished
  <2>4. Opens(n) = 1
    BY <2>2, <2>3, OpensCount DEF ZclInv, NoneMissed
  <2> QED  BY <2>4
<1> QED  BY <1>1, Invariance, PTL

\* No command opens it twice, although two callbacks are made for it: what keeps
\* the second one from opening is that its condition is never true.
THEOREM NeverOpensTwiceHolds == ZclSpec => []NeverOpensTwice
<1>1. ZclInv => NeverOpensTwice
  BY OpensCount DEF NeverOpensTwice
<1> QED  BY <1>1, Invariance, PTL

\* Commands with another id never open it, whatever their cluster.
THEOREM OtherIdsNeverOpenHolds == ZclSpec => []OtherIdsNeverOpen
<1>1. ZclInv => OtherIdsNeverOpen
  <2> SUFFICES ASSUME ZclInv, NEW n \in DOMAIN done, done[n].cmd /= UNLOCK_DOOR
               PROVE  Opens(n) = 0
    BY DEF OtherIdsNeverOpen
  <2>1. done[n] \in Command
    BY DEF ZclInv, ZclTypeOK
  <2>2. ~RawOpens(done[n])
    BY <2>1, RawOpensById
  <2>3. ~\E k \in DOMAIN calls : calls[k].n = n
    BY <2>2 DEF ZclInv, CallsAreOpenings
  <2> QED  BY <2>3, OpensCount
<1> QED  BY <1>1, Invariance, PTL
=============================================================================
