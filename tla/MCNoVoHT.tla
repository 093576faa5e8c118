------------------------------ MODULE MCNoVoHT ------------------------------
(***************************************************************************)
(* Instance of NoVoHT for TLC: a and b share a chain until the table has   *)
(* been resized.  The memory of a's pair may hold anything where diff is,  *)
(* that of b's is zero.                                                    *)
(***************************************************************************)
EXTENDS NoVoHT

CONSTANTS a, b

MCHash == [k \in Keys |-> IF k = a THEN 0 ELSE 1]
MCDiffs == [k \in Keys |-> IF k = a THEN BOOLEAN ELSE {FALSE}]
=============================================================================
