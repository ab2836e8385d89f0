------------------------------ MODULE MCNsEval ------------------------------
(* Small instances of NsEval; every bound is in its configuration.         *)
EXTENDS NsEval
=============================================================================
