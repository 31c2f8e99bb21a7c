----------------------------- MODULE MCCommands -----------------------------
(***************************************************************************)
(* Commands for TLC, and with it the safety of the two threads it extends. *)
(***************************************************************************)
EXTENDS Commands
=============================================================================
