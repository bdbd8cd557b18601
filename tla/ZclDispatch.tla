---------------------------- MODULE ZclDispatch ----------------------------
(***************************************************************************)
(* The Zigbee component's callbacks (components/zigbee): what one received *)
(* ZCL command makes the lock do.  The Zigbee task hands a command first   *)
(* to esp_zb_zcl_raw_command_callback; the callback returns false, so the  *)
(* stack goes on to process the command itself and may call action_handler,*)
(* which may call attribute_handler.  Two of the three call the lock.      *)
(*                                                                         *)
(* Commands arrive in any order, any number of times or not at all: the    *)
(* retries and losses of the network are among the sequences of Arrive.    *)
(***************************************************************************)
EXTENDS Naturals, Sequences, FiniteSets

CONSTANTS
  Command,   \* the commands received: [cluster, profile, cmd, common]
  InboxLen,  \* bound: commands waiting for the Zigbee task
  MaxCommands \* bound: commands the Zigbee task takes on

ON_OFF        == 6    \* ESP_ZB_ZCL_CLUSTER_ID_ON_OFF
IDENTIFY      == 3    \* ESP_ZB_ZCL_CLUSTER_ID_IDENTIFY
DOOR_LOCK     == 257  \* ESP_ZB_ZCL_CLUSTER_ID_DOOR_LOCK
UNLOCK_DOOR   == 1    \* ESP_ZB_ZCL_CMD_DOOR_LOCK_UNLOCK_DOOR
ON_OFF_ID     == 0    \* ESP_ZB_ZCL_ATTR_ON_OFF_ON_OFF_ID
TYPE_BOOL     == 16   \* ESP_ZB_ZCL_ATTR_TYPE_BOOL
TYPE_U16      == 33   \* ESP_ZB_ZCL_ATTR_TYPE_U16
HA_PROFILE    == 260  \* endPoint.app_profile_id (zigbee.cpp:128)
HA_ESP_LOCK_ENDPOINT == 1

ClusterId == 0 .. 65535  \* zb_uint16_t cluster_id
CommandId == 0 .. 255    \* zb_uint8_t cmd_id

\* The stack delivers to the registered endpoint what has its profile.
ASSUME CommandAssumption ==
  Command \subseteq [cluster : ClusterId, profile : {HA_PROFILE},
                     cmd : CommandId, common : BOOLEAN]

VARIABLES
  inbox,   \* the commands the stack has buffered; the head is being processed
  step,    \* "idle", "raw": at the raw callback, "stack": at the stack's own
           \*   processing, "action": at action_handler
  cb,      \* the argument of action_handler
  done,    \* history: the commands processed, and the one being processed
  calls,   \* history: the calls of the lock, [call, n]: made for done[n]
  verdict  \* what attribute_handler logged last

vars == <<inbox, step, cb, done, calls, verdict>>

NoCallback == [id |-> "none"]

ZclInit == /\ inbox = <<>> /\ step = "idle" /\ cb = NoCallback
           /\ done = <<>> /\ calls = <<>> /\ verdict = "none"

-----------------------------------------------------------------------------
(***************************************************************************)
(* The command's header as the raw callback reads it.  A parameter of n    *)
(* bytes lies n bytes, rounded up to whole words, before the end of the    *)
(* buffer; the header zb_zcl_parsed_hdr_t is there, 27 bytes long.  Its    *)
(* cluster id, profile id, command and direction are at 15, 17, 19 and 20. *)
(***************************************************************************)
TailSize(n) == 4 * ((n + 3) \div 4)

HeaderByte(c, i) == CASE i = 15 -> c.cluster % 256
                      [] i = 16 -> c.cluster \div 256
                      [] i = 17 -> c.profile % 256
                      [] i = 18 -> c.profile \div 256
                      [] i = 19 -> c.cmd
                      [] i = 20 -> 0  \* from the client to the server

\* cmd_info->cluster_id: 6 bytes into a zb_zcl_attr_addr_info_t, 14 bytes long,
\* read from the tail that holds the header.
CmdInfoClusterId(c) ==
  LET i == TailSize(27) - TailSize(14) + 6
  IN  HeaderByte(c, i) + 256 * HeaderByte(c, i + 1)

-----------------------------------------------------------------------------
(***************************************************************************)
(* Faulty variants of operations defined below.                            *)
(***************************************************************************)

\* The raw callback looks at the cluster only, read from the right place.
RawOpens_AnyCommand(c) == c.cluster = DOOR_LOCK

\* The raw callback compares the id of the Lock Door command.
RawOpens_LockDoor(c) == CmdInfoClusterId(c) = DOOR_LOCK /\ c.cmd = UNLOCK_DOOR - 1

\* The attribute handler hands back the data type in place of its verdict.
AttributeVerdict_Type(a) == IF a.cluster = ON_OFF THEN "type" ELSE "none"

\* The attribute handler compares the type with the Boolean type only.
TypeAccepted_Bool(t) == t = TYPE_BOOL

-----------------------------------------------------------------------------
\* The condition of the raw callback.
RawOpens(c) == CmdInfoClusterId(c) = DOOR_LOCK /\ c.cmd = UNLOCK_DOOR

\* The inner condition of attribute_handler: the type of the attribute's data
\* is compared with an attribute id and with a type.
TypeAccepted(t) == t = ON_OFF_ID /\ t = TYPE_BOOL

\* What the lock is told, and what is logged, when attribute a has been set.
AttributeVerdict(a) ==
  IF a.endpoint = HA_ESP_LOCK_ENDPOINT /\ a.cluster = ON_OFF /\ a.attr = ON_OFF_ID
  THEN IF TypeAccepted(a.type) THEN "arrived" ELSE "wrong"
  ELSE "none"

\* The callbacks the stack may make of its own processing of c: it sets the
\* attribute of an On/Off or Identify command to the one endpoint registered;
\* whether it knows the Door Lock cluster, registered as an On/Off cluster
\* (zigbee.cpp:189), is open.
StackCallbacks(c) ==
  LET SetAttr(type) == [id |-> "SET_ATTR_VALUE", endpoint |-> HA_ESP_LOCK_ENDPOINT,
                        cluster |-> c.cluster, attr |-> 0, type |-> type]
  IN  CASE ~c.common /\ c.cluster = ON_OFF -> {SetAttr(TYPE_BOOL)}
        [] ~c.common /\ c.cluster = IDENTIFY -> {SetAttr(TYPE_U16)}
        [] ~c.common /\ c.cluster = DOOR_LOCK
             -> {NoCallback, [id |-> "DOOR_LOCK_LOCK_DOOR"]}
        [] OTHER -> {NoCallback}

-----------------------------------------------------------------------------
\* The stack buffers a command, or has no buffer for it and drops it.
Arrive(c) ==
  /\ Len(inbox) < InboxLen
  /\ inbox' = Append(inbox, c)
  /\ UNCHANGED <<step, cb, done, calls, verdict>>

\* The scheduler of the Zigbee task takes the next command.
Take ==
  /\ step = "idle" /\ inbox /= <<>> /\ Len(done) < MaxCommands
  /\ step' = "raw" /\ done' = Append(done, Head(inbox))
  /\ UNCHANGED <<inbox, cb, calls, verdict>>

Call(c) == [call |-> c, n |-> Len(done)]

RawCommandCallback ==
  /\ step = "raw"
  /\ calls' = IF RawOpens(Head(inbox)) THEN Append(calls, Call("open"))
                                       ELSE calls
  /\ step' = "stack"  \* the callback returns false
  /\ UNCHANGED <<inbox, cb, done, verdict>>

StackProcesses ==
  /\ step = "stack"
  /\ cb' \in StackCallbacks(Head(inbox))
  /\ step' = "action"
  /\ UNCHANGED <<inbox, done, calls, verdict>>

\* action_handler, with attribute_handler in it; the buffer is then freed.
ActionHandler ==
  /\ step = "action"
  /\ IF cb.id = "SET_ATTR_VALUE"
     THEN /\ verdict' = AttributeVerdict(cb)
          /\ calls' = IF verdict' = "arrived"
                      THEN calls \o <<Call("setKey"), Call("open")>> ELSE calls
     ELSE UNCHANGED <<verdict, calls>>
  /\ step' = "idle" /\ cb' = NoCallback /\ inbox' = Tail(inbox)
  /\ UNCHANGED done

ZclNext ==
  \/ \E c \in Command : Arrive(c)
  \/ Take \/ RawCommandCallback \/ StackProcesses \/ ActionHandler

ZclSpec == ZclInit /\ [][ZclNext]_vars

-----------------------------------------------------------------------------
(***************************************************************************)
(* Properties                                                              *)
(***************************************************************************)

Opens(n) == Cardinality({k \in DOMAIN calls : calls[k].call = "open"
                                               /\ calls[k].n = n})

Finished(n) == n < Len(done) \/ step = "idle"

IsUnlock(c) == c.cluster = DOOR_LOCK /\ c.cmd = UNLOCK_DOOR /\ ~c.common

\* Every variable has its type.
ZclTypeOK ==
  /\ inbox \in Seq(Command) /\ done \in Seq(Command)
  /\ step \in {"idle", "raw", "stack", "action"}
  /\ cb.id \in {"none", "SET_ATTR_VALUE", "DOOR_LOCK_LOCK_DOOR"}
  /\ calls \in Seq([call : {"setKey", "open"}, n : Nat])
  /\ verdict \in {"none", "arrived", "wrong"}

\* Every Unlock Door command the device processes opens the lock, in spite of
\* the cluster id being read from the wrong place.
EveryUnlockOpens ==
  \A n \in DOMAIN done : IsUnlock(done[n]) /\ Finished(n) => Opens(n) >= 1

\* No command opens the lock twice, although the raw callback and the attribute
\* handler are both called for it and both open the lock.
NeverOpensTwice == \A n \in DOMAIN done : Opens(n) <= 1

\* Lock Door, Off and everything else whose id is not that of Unlock Door leave
\* the lock shut.
OtherIdsNeverOpen ==
  \A n \in DOMAIN done : done[n].cmd /= UNLOCK_DOOR => Opens(n) = 0

\* What door_lock.h says of the command the raw callback tests for, and its own
\* log line: only an Unlock Door command makes it open the lock.
OpensOnlyForUnlock == \A n \in DOMAIN done : Opens(n) > 0 => IsUnlock(done[n])

\* data.type is a ZCL type: setting the Boolean On/Off attribute is what the
\* attribute handler is there for, not a "Wrong Lock command".
BooleanWriteAccepted == verdict /= "wrong"
=============================================================================
