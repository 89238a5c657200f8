---------------------------- MODULE MCOmiSession ----------------------------
(* Model-checking instance of OmiSession; the constants are given in the   *)
(* .cfg files: MCOmiSession.cfg (a caller that disconnects before it       *)
(* connects again) and MCOmiSession_Reconnect.cfg (a caller that connects  *)
(* a connected object).                                                    *)
EXTENDS OmiSession
=============================================================================
