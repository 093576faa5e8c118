--------------------------- MODULE MCZHTKeyValue ---------------------------
(***************************************************************************)
(* Instance of ZHTKeyValue for TLC.                                        *)
(***************************************************************************)
EXTENDS ZHTKeyValue
=============================================================================
