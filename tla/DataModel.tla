----------------------------- MODULE DataModel -----------------------------
(***************************************************************************)
(* The registration of the device's clusters in Zigbee::rtosTask: a        *)
(* straight sequence of calls of the ESP Zigbee library, each of which may *)
(* fail (no memory, invalid argument) and none of whose results is looked  *)
(* at, until esp_zb_start.  Every object the calls build is a set:  an     *)
(* attribute list of attributes, the cluster list of attribute lists, the  *)
(* endpoint list of cluster lists, the device of endpoint lists.           *)
(***************************************************************************)
EXTENDS Naturals, Sequences, FiniteSets

CONSTANT MaxFailures  \* bound: no call runs out of memory after so many failures

Clusters == {"basic", "identify", "groups", "scenes", "onOff"}
Objects  == Clusters \cup {"clusterList", "doorAttributes", "doorLock",
                           "epList", "device"}
NULL == {"null"}      \* what a create call returns when it fails

Create(obj, attrs) == [op |-> "create", obj |-> obj, items |-> attrs]
Add(obj, item)     == [op |-> "add", obj |-> obj, items |-> {item}]
Update(obj, attr)  == [op |-> "update", obj |-> obj, items |-> {attr}]

\* The calls of rtosTask in their order; items of a create call are what the
\* library puts in by itself.
Program ==
  << Create("basic", {}), Add("basic", "zclVersion"), Add("basic", "powerSource"),
     Update("basic", "zclVersion"),
     Add("basic", "modelIdentifier"), Add("basic", "manufacturerName"),
     Create("identify", {}), Add("identify", "identifyTime"),
     Create("groups", {}), Add("groups", "nameSupport"),
     Create("scenes", {"nameSupport"}), Update("scenes", "nameSupport"),
     Create("onOff", {"onOff"}), Create("clusterList", {}),
     Add("clusterList", "basic"), Add("clusterList", "identify"),
     Add("clusterList", "groups"), Add("clusterList", "scenes"),
     Add("clusterList", "onOff"),
     Create("doorAttributes", {}), Add("doorAttributes", "lockState"),
     Add("doorAttributes", "lockType"), Add("doorAttributes", "openPeriod"),
     Create("doorLock", {"lockState", "lockType", "actuatorEnabled"}),
     Add("clusterList", "doorLock"),  \* with the function for On/Off clusters
     Create("epList", {}), Add("epList", "clusterList"), Add("device", "epList") >>

VARIABLES
  pc,           \* the next call
  objects,      \* what the objects hold
  identifyTime, \* the value of the Identify Time attribute, high byte first
  failed        \* the calls that failed

vars == <<pc, objects, identifyTime, failed>>

ModelInit ==
  /\ pc = 1 /\ identifyTime = <<>> /\ failed = {}
  /\ objects = [o \in Objects |-> IF o = "device" THEN {} ELSE NULL]

-----------------------------------------------------------------------------
(***************************************************************************)
(* Faulty variants of operations defined below.                            *)
(***************************************************************************)

\* The task gives up at the first call that fails.
CallFails_GivesUp ==
  /\ pc <= Len(Program) /\ failed = {}
  /\ failed' = {pc} /\ pc' = Len(Program) + 1
  /\ UNCHANGED <<objects, identifyTime>>

-----------------------------------------------------------------------------
Calls(op) == pc <= Len(Program) /\ Program[pc].op = op /\ pc' = pc + 1

\* Neither the object nor an object it is given is NULL.
Valid(call) == /\ objects[call.obj] /= NULL
               /\ \A i \in call.items \cap Objects : objects[i] /= NULL

CreateObject ==
  /\ Calls("create")
  /\ objects' = [objects EXCEPT ![Program[pc].obj] = Program[pc].items]
  /\ UNCHANGED <<identifyTime, failed>>

\* Identify Time has 16 bits and is copied from the uint8_t test_attr: its high
\* byte is what lies next to test_attr, test_attr2 = 4 for one.
AddItem ==
  /\ Calls("add") /\ Valid(Program[pc])
  /\ objects' = [objects EXCEPT ![Program[pc].obj] = @ \cup Program[pc].items]
  /\ IF "identifyTime" \in Program[pc].items
     THEN identifyTime' \in {<<0, 0>>, <<4, 0>>} ELSE UNCHANGED identifyTime
  /\ UNCHANGED failed

Present(call) == call.items \subseteq objects[call.obj]

UpdateAttr == /\ Calls("update") /\ Present(Program[pc])
              /\ UNCHANGED <<objects, identifyTime, failed>>

\* The library may refuse a Door Lock list that comes as an On/Off cluster.
Refusable(call) == call = Add("clusterList", "doorLock")

\* (Faulty: the failure is put down to the call after the one that failed.)
CallFails_Next ==
  /\ \E op \in {"create", "add", "update"} : Calls(op)
  /\ Cardinality(failed) < MaxFailures /\ failed' = failed \cup {pc'}
  /\ UNCHANGED <<objects, identifyTime>>

\* A call fails, and the task goes on to the next one: the registrations of the
\* clusters, for one, have a result that nobody looks at.
CallFails ==
  /\ \E op \in {"create", "add", "update"} : Calls(op)
  /\ \/ Cardinality(failed) < MaxFailures
     \/ Program[pc].op = "add" /\ (~Valid(Program[pc]) \/ Refusable(Program[pc]))
     \/ Program[pc].op = "update" /\ ~Present(Program[pc])
  /\ failed' = failed \cup {pc}
  /\ UNCHANGED <<objects, identifyTime>>

ModelNext == CreateObject \/ AddItem \/ UpdateAttr \/ CallFails

ModelSpec == ModelInit /\ [][ModelNext]_vars

-----------------------------------------------------------------------------
(***************************************************************************)
(* Properties                                                              *)
(***************************************************************************)

Started == pc = Len(Program) + 1
Registered(o) == /\ "epList" \in objects["device"]
                 /\ "clusterList" \in objects["epList"]
                 /\ o \in objects["clusterList"]

Items == UNION {Program[i].items : i \in DOMAIN Program}

\* Every variable has its type.
ModelTypeOK ==
  /\ pc \in 1 .. Len(Program) + 1
  /\ objects \in [Objects -> {NULL} \cup SUBSET Items]
  /\ identifyTime \in {<<>>, <<0, 0>>, <<4, 0>>}
  /\ failed \subseteq DOMAIN Program

\* The calls whose failure may keep cluster o, or its attributes, out.
Concerns(o) == {i \in DOMAIN Program : o \in {Program[i].obj} \cup Program[i].items}
Shared == {i \in DOMAIN Program :
             \/ Program[i].obj \in {"epList", "device"}
             \/ Program[i].obj = "clusterList" /\ Program[i].op = "create"}

\* A call that fails takes no other cluster down: a cluster none of whose own
\* calls failed is on the device, with all its attributes, unless the lists they
\* share failed.  (The task drops every result and goes on with what it has.)
FailuresStayLocal ==
  Started => \A o \in Clusters :
    failed \cap (Concerns(o) \cup Shared) = {}
      => /\ Registered(o)
         /\ \A i \in Concerns(o) : Program[i].obj = o => Program[i].items \subseteq objects[o]

\* "Add an attribute in door lock cluster": what rtosTask adds to the Door Lock
\* cluster when it configures it is on the device when every call succeeds.
LockAttributesRegistered ==
  Started /\ failed = {} =>
    /\ Registered("doorLock")
    /\ objects["doorAttributes"] \subseteq objects["doorLock"]

\* The device does not claim to be identifying itself when it starts: Identify
\* Time has its default value 0, which test_attr holds.
IdentifyTimeStartsAtZero == identifyTime \in {<<>>, <<0, 0>>}
=============================================================================
