--------------------------- MODULE MCVirtualCursor ---------------------------
(***************************************************************************)
(* VirtualCursor for TLC: a camera with few pixels, and a score that is    *)
(* stable after few samples.                                               *)
(***************************************************************************)
EXTENDS VirtualCursor
=============================================================================
