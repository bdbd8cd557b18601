--------------------------- MODULE MCCommissioning ---------------------------
(* Commissioning needs no constants beyond its bounds: they are in the cfg.  *)
EXTENDS Commissioning
=============================================================================
