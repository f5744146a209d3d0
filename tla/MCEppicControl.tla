--------------------------- MODULE MCEppicControl ---------------------------
(* Model-checking instances of EppicControl: the sets of allowed faults.   *)
EXTENDS EppicControl

NoFaults == {}
ApiAbort == {"apiAbort"}
=============================================================================
