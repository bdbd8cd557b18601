-------------------------- MODULE DataModelProofs --------------------------
(***************************************************************************)
(* What holds of the registration for any number of failures: a call that  *)
(* succeeded is never undone, neither by a later call nor by the failure   *)
(* of one, so that a failure stays with the clusters its call was for.     *)
(***************************************************************************)
EXTENDS DataModel, TLAPS

\* What the calls that were made and did not fail have put in is still there.
SuccessesLast ==
  \A i \in DOMAIN Program :
    i < pc /\ i \notin failed => Program[i].items \subseteq objects[Program[i].obj]

ModelInv == ModelTypeOK /\ SuccessesLast

\* The call that creates an object.
CreatedAt(o) ==
  CASE o = "basic" -> 1 [] o = "identify" -> 7 [] o = "groups" -> 9
    [] o = "scenes" -> 11 [] o = "onOff" -> 13 [] o = "clusterList" -> 14
    [] o = "doorAttributes" -> 20 [] o = "doorLock" -> 24 [] o = "epList" -> 26
    [] OTHER -> 0

-----------------------------------------------------------------------------
(***************************************************************************)
(* The list of calls                                                       *)
(***************************************************************************)

\* Program, call by call.
LEMMA CallAt ==
  /\ Program[1] = Create("basic", {})
  /\ Program[2] = Add("basic", "zclVersion")
  /\ Program[3] = Add("basic", "powerSource")
  /\ Program[4] = Update("basic", "zclVersion")
  /\ Program[5] = Add("basic", "modelIdentifier")
  /\ Program[6] = Add("basic", "manufacturerName")
  /\ Program[7] = Create("identify", {})
  /\ Program[8] = Add("identify", "identifyTime")
  /\ Program[9] = Create("groups", {})
  /\ Program[10] = Add("groups", "nameSupport")
  /\ Program[11] = Create("scenes", {"nameSupport"})
  /\ Program[12] = Update("scenes", "nameSupport")
  /\ Program[13] = Create("onOff", {"onOff"})
  /\ Program[14] = Create("clusterList", {})
  /\ Program[15] = Add("clusterList", "basic")
  /\ Program[16] = Add("clusterList", "identify")
  /\ Program[17] = Add("clusterList", "groups")
  /\ Program[18] = Add("clusterList", "scenes")
  /\ Program[19] = Add("clusterList", "onOff")
  /\ Program[20] = Create("doorAttributes", {})
  /\ Program[21] = Add("doorAttributes", "lockState")
  /\ Program[22] = Add("doorAttributes", "lockType")
  /\ Program[23] = Add("doorAttributes", "openPeriod")
  /\ Program[24] = Create("doorLock", {"lockState", "lockType", "actuatorEnabled"})
  /\ Program[25] = Add("clusterList", "doorLock")
  /\ Program[26] = Create("epList", {})
  /\ Program[27] = Add("epList", "clusterList")
  /\ Program[28] = Add("device", "epList")
BY DEF Program

\* There are 28 calls.
LEMMA Calls28 == Len(Program) = 28 /\ DOMAIN Program = 1 .. 28
BY DEF Program

\* No object is created once something was put into it, and none twice.
LEMMA CreatedFirst ==
  \A i, j \in 1 .. 28 :
    Program[j].op = "create" /\ Program[i].obj = Program[j].obj => j <= i
<1>1. \A i \in 1 .. 28 :
        /\ CreatedAt(Program[i].obj) \in Nat /\ CreatedAt(Program[i].obj) <= i
        /\ Program[i].op = "create" => CreatedAt(Program[i].obj) = i
  BY CallAt DEF Create, Add, Update, CreatedAt
<1> QED  BY <1>1

\* Every call is for one of the objects.
LEMMA CallObject == \A i \in 1 .. 28 : Program[i].obj \in Objects
BY CallAt DEF Create, Add, Update, Objects, Clusters

\* Every cluster is put into the cluster list, which goes into the endpoint list,
\* which is registered.
LEMMA EveryClusterAdded ==
  /\ \A o \in Clusters : \E i \in 1 .. 28 : Program[i] = Add("clusterList", o)
  /\ \E i \in 1 .. 28 : Program[i] = Add("epList", "clusterList")
  /\ \E i \in 1 .. 28 : Program[i] = Add("device", "epList")
<1>1. /\ 15 \in 1 .. 28 /\ 16 \in 1 .. 28 /\ 17 \in 1 .. 28 /\ 18 \in 1 .. 28
      /\ 19 \in 1 .. 28 /\ 27 \in 1 .. 28 /\ 28 \in 1 .. 28
  OBVIOUS
<1>2. \A o \in Clusters : \E i \in 1 .. 28 : Program[i] = Add("clusterList", o)
  BY <1>1, CallAt DEF Clusters
<1> QED  BY <1>1, <1>2, CallAt

-----------------------------------------------------------------------------
(***************************************************************************)
(* The invariant                                                           *)
(***************************************************************************)

\* The invariant holds before the first call.
LEMMA ModelInitially == ModelInit => ModelInv
<1> SUFFICES ASSUME ModelInit  PROVE ModelInv
  OBVIOUS
<1>1. ModelTypeOK
  BY Calls28 DEF ModelInit, ModelTypeOK
<1>2. SuccessesLast
  BY Calls28 DEF ModelInit, SuccessesLast
<1> QED  BY <1>1, <1>2 DEF ModelInv

\* Every call, succeeding or failing, keeps it.
LEMMA ModelStep == ModelInv /\ [ModelNext]_vars => ModelInv'
<1> SUFFICES ASSUME ModelInv, [ModelNext]_vars  PROVE ModelInv'
  OBVIOUS
<1>1. /\ pc \in 1 .. 29 /\ failed \subseteq 1 .. 28
      /\ objects \in [Objects -> {NULL} \cup SUBSET Items]
      /\ identifyTime \in {<<>>, <<0, 0>>, <<4, 0>>}
      /\ \A i \in 1 .. 28 : i < pc /\ i \notin failed
                              => Program[i].items \subseteq objects[Program[i].obj]
  <2>1. ModelTypeOK /\ SuccessesLast
    BY DEF ModelInv
  <2>2. pc \in 1 .. Len(Program) + 1 /\ failed \subseteq DOMAIN Program
    BY <2>1 DEF ModelTypeOK
  <2>3. pc \in 1 .. 29 /\ failed \subseteq 1 .. 28
    BY <2>2, Calls28
  <2>4. /\ objects \in [Objects -> {NULL} \cup SUBSET Items]
        /\ identifyTime \in {<<>>, <<0, 0>>, <<4, 0>>}
    BY <2>1 DEF ModelTypeOK
  <2> QED  BY <2>1, <2>3, <2>4, Calls28 DEF SuccessesLast
<1>2. ASSUME NEW op, Calls(op)
      PROVE  /\ pc \in 1 .. 28 /\ pc' = pc + 1 /\ pc' \in 1 .. 29
             /\ Program[pc].op = op /\ Program[pc].obj \in Objects
             /\ Program[pc].items \subseteq Items
  <2>1. pc <= 28 /\ Program[pc].op = op /\ pc' = pc + 1
    BY <1>2, Calls28 DEF Calls
  <2>2. pc \in 1 .. 28 /\ pc' \in 1 .. 29
    BY <1>1, <2>1
  <2> QED  BY <2>1, <2>2, Calls28, CallObject DEF Items
<1>3. CASE CreateObject
  <2>1. /\ pc \in 1 .. 28 /\ pc' = pc + 1 /\ pc' \in 1 .. 29
        /\ Program[pc].op = "create" /\ Program[pc].obj \in Objects
        /\ Program[pc].items \subseteq Items
    BY <1>2, <1>3 DEF CreateObject
  <2>2. /\ objects' = [objects EXCEPT ![Program[pc].obj] = Program[pc].items]
        /\ UNCHANGED <<identifyTime, failed>>
    BY <1>3 DEF CreateObject
  <2>3. ModelTypeOK'
    BY <1>1, <2>1, <2>2, Calls28 DEF ModelTypeOK
  <2>4. SuccessesLast'
    <3> SUFFICES ASSUME NEW i \in 1 .. 28, i < pc', i \notin failed'
                 PROVE  Program[i].items \subseteq objects'[Program[i].obj]
      BY Calls28 DEF SuccessesLast
    <3>1. CASE i = pc
      BY <1>1, <2>1, <2>2, <3>1
    <3>2. CASE i < pc
      <4>1. Program[i].obj /= Program[pc].obj
        <5>1. ~(pc <= i)
          BY <2>1, <3>2
        <5> QED  BY <2>1, <5>1, CreatedFirst
      <4> QED  BY <1>1, <2>2, <3>2, <4>1, CallObject
    <3> QED  BY <1>1, <2>1, <3>1, <3>2
  <2> QED  BY <2>3, <2>4 DEF ModelInv
<1>4. CASE AddItem
  <2>1. /\ pc \in 1 .. 28 /\ pc' = pc + 1 /\ pc' \in 1 .. 29
        /\ Program[pc].obj \in Objects /\ Program[pc].items \subseteq Items
        /\ objects[Program[pc].obj] /= NULL
    BY <1>2, <1>4 DEF AddItem, Valid
  <2>2. /\ objects' = [objects EXCEPT ![Program[pc].obj] = @ \cup Program[pc].items]
        /\ identifyTime' \in {identifyTime, <<0, 0>>, <<4, 0>>} /\ failed' = failed
    BY <1>4 DEF AddItem
  <2>3. ModelTypeOK'
    <3>1. objects[Program[pc].obj] \cup Program[pc].items \in SUBSET Items
      BY <1>1, <2>1
    <3>2. objects' \in [Objects -> {NULL} \cup SUBSET Items]
      BY <1>1, <2>1, <2>2, <3>1
    <3> QED  BY <1>1, <2>1, <2>2, <3>2, Calls28 DEF ModelTypeOK
  <2>4. SuccessesLast'
    <3> SUFFICES ASSUME NEW i \in 1 .. 28, i < pc', i \notin failed'
                 PROVE  Program[i].items \subseteq objects'[Program[i].obj]
      BY Calls28 DEF SuccessesLast
    <3>1. objects[Program[i].obj] \subseteq objects'[Program[i].obj]
      BY <1>1, <2>1, <2>2, CallObject
    <3>2. CASE i = pc
      BY <1>1, <2>1, <2>2, <3>2
    <3>3. CASE i < pc
      BY <1>1, <2>2, <3>1, <3>3
    <3> QED  BY <1>1, <2>1, <3>2, <3>3
  <2> QED  BY <2>3, <2>4 DEF ModelInv
<1>5. CASE UpdateAttr
  <2>1. /\ pc \in 1 .. 28 /\ pc' = pc + 1 /\ pc' \in 1 .. 29
        /\ Program[pc].items \subseteq objects[Program[pc].obj]
        /\ UNCHANGED <<objects, identifyTime, failed>>
    BY <1>2, <1>5 DEF UpdateAttr, Present
  <2>2. ModelTypeOK'
    BY <1>1, <2>1, Calls28 DEF ModelTypeOK
  <2>3. SuccessesLast'
    <3> SUFFICES ASSUME NEW i \in 1 .. 28, i < pc', i \notin failed'
                 PROVE  Program[i].items \subseteq objects'[Program[i].obj]
      BY Calls28 DEF SuccessesLast
    <3>1. i = pc \/ i < pc
      BY <1>1, <2>1
    <3> QED  BY <1>1, <2>1, <3>1
  <2> QED  BY <2>2, <2>3 DEF ModelInv
<1>6. CASE CallFails
  <2>1. /\ pc \in 1 .. 28 /\ pc' = pc + 1 /\ pc' \in 1 .. 29
        /\ failed' = failed \cup {pc} /\ UNCHANGED <<objects, identifyTime>>
    BY <1>2, <1>6 DEF CallFails
  <2>2. ModelTypeOK'
    <3>1. failed' \subseteq DOMAIN Program /\ pc' \in 1 .. Len(Program) + 1
      BY <1>1, <2>1, Calls28
    <3> QED  BY <1>1, <2>1, <3>1 DEF ModelTypeOK
  <2>3. SuccessesLast'
    <3> SUFFICES ASSUME NEW i \in 1 .. 28, i < pc', i \notin failed'
                 PROVE  Program[i].items \subseteq objects'[Program[i].obj]
      BY Calls28 DEF SuccessesLast
    <3>1. i < pc /\ i \notin failed
      BY <1>1, <2>1
    <3> QED  BY <1>1, <2>1, <3>1
  <2> QED  BY <2>2, <2>3 DEF ModelInv
<1>7. CASE UNCHANGED vars
  <2>1. ModelTypeOK'
    BY <1>7 DEF vars, ModelInv, ModelTypeOK
  <2>2. SuccessesLast'
    BY <1>7 DEF vars, ModelInv, SuccessesLast
  <2> QED  BY <2>1, <2>2 DEF ModelInv
<1> QED  BY <1>3, <1>4, <1>5, <1>6, <1>7 DEF ModelNext

\* The inductive invariant of the registration.
LEMMA ModelInvariance == ModelSpec => []ModelInv
BY ModelInitially, ModelStep, PTL DEF ModelSpec

-----------------------------------------------------------------------------
(***************************************************************************)
(* The theorems                                                            *)
(***************************************************************************)

\* Every variable has its type.
THEOREM ModelTyping == ModelSpec => []ModelTypeOK
BY ModelInvariance, PTL DEF ModelInv

\* Any calls of the registration may fail, any number of them: the clusters they
\* were not for are on the device with all their attributes.
THEOREM FailuresStayLocalHolds == ModelSpec => []FailuresStayLocal
<1>1. ModelInv => FailuresStayLocal
  <2> SUFFICES ASSUME ModelInv, Started, NEW o \in Clusters,
                      failed \cap (Concerns(o) \cup Shared) = {}
               PROVE  /\ Registered(o)
                      /\ \A i \in Concerns(o) :
                           Program[i].obj = o => Program[i].items \subseteq objects[o]
    BY DEF FailuresStayLocal
  <2>1. \A i \in 1 .. 28 : i \notin failed => Program[i].items \subseteq objects[Program[i].obj]
    BY Calls28 DEF ModelInv, SuccessesLast, Started
  <2>2. \A i \in Concerns(o) \cup Shared : i \notin failed
    OBVIOUS
  <2>3. \A i \in Concerns(o) \cup Shared :
          i \in 1 .. 28 /\ Program[i].items \subseteq objects[Program[i].obj]
    BY <2>1, <2>2, Calls28 DEF Concerns, Shared
  <2>4. o \in objects["clusterList"]
    <3>1. PICK i \in 1 .. 28 : Program[i] = Add("clusterList", o)
      BY EveryClusterAdded
    <3>2. Program[i].obj = "clusterList" /\ Program[i].items = {o}
      BY <3>1 DEF Add
    <3> QED  BY <2>3, <3>2, Calls28 DEF Concerns
  <2>5. "clusterList" \in objects["epList"]
    <3>1. PICK i \in 1 .. 28 : Program[i] = Add("epList", "clusterList")
      BY EveryClusterAdded
    <3>2. Program[i].obj = "epList" /\ Program[i].items = {"clusterList"}
      BY <3>1 DEF Add
    <3> QED  BY <2>3, <3>2, Calls28 DEF Shared
  <2>6. "epList" \in objects["device"]
    <3>1. PICK i \in 1 .. 28 : Program[i] = Add("device", "epList")
      BY EveryClusterAdded
    <3>2. Program[i].obj = "device" /\ Program[i].items = {"epList"}
      BY <3>1 DEF Add
    <3> QED  BY <2>3, <3>2, Calls28 DEF Shared
  <2> QED  BY <2>3, <2>4, <2>5, <2>6 DEF Registered
<1> QED  BY <1>1, ModelInvariance, PTL
=============================================================================
