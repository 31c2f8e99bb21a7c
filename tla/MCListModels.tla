---------------------------- MODULE MCListModels ----------------------------
(***************************************************************************)
(* ListModels for TLC: frames with nothing in sight and with four points.  *)
(***************************************************************************)
EXTENDS ListModels

MCFrames ==
    {[n \in 0 .. 3 |-> "lost"],
     [n \in 0 .. 3 |-> "here"]}
=============================================================================
