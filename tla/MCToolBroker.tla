---------------------------- MODULE MCToolBroker ----------------------------
(* Small instances of ToolBroker; every bound is in its configuration.     *)
EXTENDS ToolBroker
=============================================================================
