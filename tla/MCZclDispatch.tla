---------------------------- MODULE MCZclDispatch ----------------------------
(* The commands a coordinator sends a lock: for both callbacks that open the *)
(* lock, one they open for, its opposite, and a general command that shares  *)
(* their cluster and the number of Unlock Door (Read Attributes Response).   *)
EXTENDS ZclDispatch

MCCommand ==
  {[cluster |-> x[1], profile |-> HA_PROFILE, cmd |-> x[2], common |-> x[3]] :
     x \in {<<DOOR_LOCK, 0, FALSE>>, <<DOOR_LOCK, 1, FALSE>>,
            <<DOOR_LOCK, 1, TRUE>>,
            <<ON_OFF, 0, FALSE>>, <<ON_OFF, 1, FALSE>>, <<IDENTIFY, 0, FALSE>>}}
=============================================================================
