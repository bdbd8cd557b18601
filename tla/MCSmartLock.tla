----------------------------- MODULE MCSmartLock -----------------------------
(* Frames in miniature, the key and the opening as long as the FIFO and one  *)
(* byte more, so that a restart can cut both and the task blocks in each.    *)
EXTENDS SmartLock

MCSize == [f \in LockFrames |-> IF f \in {"setKey", "open"} THEN 2 ELSE 1]

MCInitArgs == {UartArgs}
MCPins == {<<4, 5>>}

\* Lock Door and Unlock Door of the Door Lock cluster, and On of the On/Off
\* cluster, which both callbacks look at.
MCCommand ==
  {[cluster |-> x[1], profile |-> 260, cmd |-> x[2], common |-> FALSE] :
     x \in {<<257, 0>>, <<257, 1>>, <<6, 1>>}}
=============================================================================
