--------------------------- MODULE MCIntegerSqrt ---------------------------
(* Every argument up to Bound.                                             *)
EXTENDS IntegerSqrt
CONSTANT Bound
UpToBound == 0..Bound
=============================================================================
