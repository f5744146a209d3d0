---------------------------- MODULE MCEppicTypes ----------------------------
(* Model-checking instance of EppicTypes: an image of two structs, one with  *)
(* members of the other and of itself, and a typedef of the other.           *)
EXTENDS EppicTypes

CONSTANTS outer, inner, alias

MCNames == {outer, inner, alias}
MCStructs == {outer, inner}
MCMentions == [s \in MCStructs |-> IF s = outer THEN {outer, inner} ELSE {}]
MCTypedefs == alias :> [tag |-> inner, ref |-> 0]
=============================================================================
