--------------------------- MODULE MCDispatchers ---------------------------
(***************************************************************************)
(* DispatcherProperties for TLC: the constants are ordinary values, given  *)
(* in the configurations.                                                  *)
(***************************************************************************)
EXTENDS DispatcherProperties
=============================================================================
