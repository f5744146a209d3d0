------------------------------ MODULE MCEppicExpr ------------------------------
(***************************************************************************)
(* Model-checking instances of EppicExpr: an image of 64 bits whose default   *)
(* type is unsigned, as the crash extension sets it, and bytes of one bit, so   *)
(* that an int has 4 bits and a long long has 8.                             *)
(***************************************************************************)
EXTENDS EppicExpr

\* Around the ends of the types.
MCNumbers == {-8, -1, 0, 1, 9}
MCTypes == {0, 3, 4, 5, 6}
MCCases == {<<{1}, {Default}>>, <<{Default, 1}, {2, -1}>>, <<{2}, {-1, 7}>>, <<{0}, {-8}, {Default}>>}
MCStrings == 0..2
=============================================================================
