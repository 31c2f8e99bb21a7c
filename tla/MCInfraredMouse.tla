-------------------------- MODULE MCInfraredMouse --------------------------
(***************************************************************************)
(* InfraredMouse for TLC: a plain and an accelerated mouse of one remote,  *)
(* positions with fractions of a pixel on both sides of the centre.        *)
(***************************************************************************)
EXTENDS InfraredMouse

At(x, y) == [a \in Axes |-> IF a = "x" THEN x ELSE y]

MCMouseGroups == <<"plain", "fast">>
MCIdOf == [m \in Mice |-> 1]
MCPoints == {At(0, 0), At(-3, 1)}
MCBoost == [v \in Places |-> IF v = 0 THEN 0 ELSE 2]
MCGarbage == {At(5, 0)}
=============================================================================
