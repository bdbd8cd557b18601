----------------------------- MODULE MCDataModel -----------------------------
(* Two calls fail by themselves, one after or because of the other or not.   *)
EXTENDS DataModel
=============================================================================
