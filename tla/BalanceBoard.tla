---------------------------- MODULE BalanceBoard ----------------------------
(***************************************************************************)
(* BalanceBoardProcessor: the stick position of a player who leans on a    *)
(* balance board, from the weight on its four sensors.                     *)
(***************************************************************************)
EXTENDS Integers

CONSTANTS StickMax,    \* WIIMOTEDEV_STICK_MAX, 32767
          Threshold    \* 600: no more weight than this is nobody

ASSUME StickMaxAssumption == StickMax \in Nat \ {0}
ASSUME ThresholdAssumption == Threshold \in Nat

StickMin == -StickMax - 1

Sensors == {"tl", "tr", "bl", "br"}

Occupied(d) == d["tl"] + d["tr"] + d["bl"] + d["br"] > Threshold

Lesser(a, b) == IF a < b THEN a ELSE b

\* calculate for two positive sides: (x / y - 1) * max when x >= y,
\* (y / x - 1) * min otherwise, with quotients up to 2, truncated towards
\* zero.  (The quotients are doubles; rounding can cost one unit.)
Lean(x, y) ==
    IF x >= y
    THEN ((Lesser(x, 2 * y) - y) * StickMax) \div y
    ELSE -(((Lesser(y, 2 * x) - x) * (-StickMin)) \div x)

XLean(d) == Lean(d["tl"] + d["bl"] + 1, d["tr"] + d["br"] + 1)
YLean(d) == Lean(d["tl"] + d["tr"] + 1, d["bl"] + d["br"] + 1)
=============================================================================
