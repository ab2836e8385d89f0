--------------------------- MODULE MCNewtonRadio ---------------------------
(* Small instances of NewtonRadio; every bound is in its configuration.    *)
EXTENDS NewtonRadio
=============================================================================
