------------------------------- MODULE MCCore -------------------------------
(***************************************************************************)
(* CoreProperties for TLC: the constants are ordinary values, given in the *)
(* configurations.                                                         *)
(***************************************************************************)
EXTENDS CoreProperties
=============================================================================
