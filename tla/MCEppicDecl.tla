------------------------------ MODULE MCEppicDecl ------------------------------
(***************************************************************************)
(* Model-checking instances of EppicDecl, on images of 32 and 64 bits.        *)
(***************************************************************************)
EXTENDS EppicDecl

MCWords == {4, 8}
=============================================================================
