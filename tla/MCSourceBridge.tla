--------------------------- MODULE MCSourceBridge ---------------------------
(***************************************************************************)
(* Instances of SourceBridge for TLC.                                      *)
(***************************************************************************)
EXTENDS SourceBridge
=============================================================================
