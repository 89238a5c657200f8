--------------------------- MODULE MCOmiInterface ---------------------------
(* Model-checking instance of OmiInterface; the constants are given in     *)
(* MCOmiInterface.cfg.                                                     *)
EXTENDS OmiInterface
=============================================================================
