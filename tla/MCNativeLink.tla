---------------------------- MODULE MCNativeLink ----------------------------
(* Small instances of NativeLink; every bound is in its configuration.     *)
EXTENDS NativeLink
=============================================================================
