--------------------------- MODULE MCOmiEnumerate ---------------------------
(***************************************************************************)
(* Model-checking instance of OmiEnumerate.  The constants are model       *)
(* values given in the .cfg files; this module only adds the state bound   *)
(* TLC needs and nothing else.                                             *)
(***************************************************************************)
EXTENDS OmiEnumerate

=============================================================================
