--------------------------- MODULE CursorProcessor ---------------------------
(***************************************************************************)
(* VirtualCursorProcessor: the two infrared points it tracks, the score    *)
(* that says for how long, and which way round it believes the sensor bar  *)
(* to be.  Points are positions on one axis, in camera pixels; the         *)
(* accelerometer's roll and the roll of the pair are 0 or 180 degrees.     *)
(* The position, distance and angles of the cursor itself are floating-    *)
(* point geometry of the pair and are left out.                            *)
(***************************************************************************)
EXTENDS Integers, Sequences

CONSTANTS Pixels,        \* the camera reports positions 0 .. Pixels
          StableScore    \* 200: samples after which an inversion is kept

ASSUME PixelsAssumption == Pixels \in Nat
ASSUME StableScoreAssumption == StableScore \in Nat

VARIABLES
    last_points,      \* <<>> or the two points
    accRoll,          \* roll of m_acc, or NoReading
    tracking_score,   \* m_tracking_score, up to MaxScore
    last_inverted,    \* m_last_inverted
    previous          \* m_previous.visible

procvars == <<last_points, accRoll, tracking_score, last_inverted, previous>>

NoReading == -1

MaxScore == StableScore + 1     \* bound: larger scores compare the same

\* Where a point can be: one that is extrapolated may leave the frame, by at
\* most the distance of the two points.
Positions == -Pixels .. 2 * Pixels

ProcessorTypeOK ==
    /\ last_points \in {<<>>} \cup (Positions \X Positions)
    /\ accRoll \in {NoReading, 0, 180}
    /\ tracking_score \in 0 .. MaxScore
    /\ last_inverted \in BOOLEAN
    /\ previous \in BOOLEAN

\* A processor as it is constructed; also the values of one that is not there.
Fresh ==
    /\ last_points' = <<>>
    /\ accRoll' = NoReading
    /\ tracking_score' = 0
    /\ last_inverted' = FALSE
    /\ previous' = FALSE

ProcessorInit ==
    /\ last_points = <<>>
    /\ accRoll = NoReading
    /\ tracking_score = 0
    /\ last_inverted = FALSE
    /\ previous = FALSE

-----------------------------------------------------------------------------
Abs(n) == IF n < 0 THEN -n ELSE n

\* The distance of the two points of a pair.
Span(p) == Abs(p[2] - p[1])

\* The far point is moved against the near one.
OnePointMirrored(last, x) ==
    LET d1   == Abs(x - last[1])
        d2   == Abs(x - last[2])
        near == IF d1 < d2 THEN 1 ELSE 2
        far  == IF d1 < d2 THEN 2 ELSE 1
        p1   == last[far] - (x - last[near])
    IN  IF d1 > d2 THEN <<p1, x>> ELSE <<x, p1>>

\* process_1point: the visible point is taken for the nearer one of the last
\* pair, and the other one is moved along with it.
OnePoint(last, x) ==
    LET d1   == Abs(x - last[1])
        d2   == Abs(x - last[2])
        near == IF d1 < d2 THEN 1 ELSE 2
        far  == IF d1 < d2 THEN 2 ELSE 1
        p1   == last[far] + (x - last[near])
    IN  IF d1 > d2 THEN <<p1, x>> ELSE <<x, p1>>

\* stage1_heuristic_prefferable_points of the valid points `ir': a pair, or
\* nothing.  Three or four points give nothing.
Probe(ir, last) ==
    IF Len(ir) = 2 THEN <<ir[1], ir[2]>>
    ELSE IF Len(ir) = 1 /\ last # <<>> THEN OnePoint(last, ir[1])
    ELSE <<>>

\* The accelerometer disagrees with the pair by more than 90 degrees.  A
\* missing reading is compared in the wrong unit and counts as roll 0.
Disagrees(p) ==
    LET irRoll == IF p[2] < p[1] THEN 180 ELSE 0
    IN  irRoll # (IF accRoll = NoReading THEN 0 ELSE accRoll)

\* calculate: does the sample show a cursor, and what is remembered of it.
\* The score is raised before stage 2 looks at it; its reset for a changed
\* number of points cannot be reached, as stage 1 stores the number first.
Visible(ir) == Probe(ir, last_points) # <<>>

Calculate(ir) ==
    LET p     == Probe(ir, last_points)
        score == IF tracking_score < MaxScore THEN tracking_score + 1 ELSE MaxScore
        kept  == last_inverted /\ score > StableScore
    IN  IF p = <<>>
        THEN /\ tracking_score' = 0
             /\ UNCHANGED <<last_points, accRoll, last_inverted, previous>>
        ELSE /\ last_points' = p
             /\ tracking_score' = score
             /\ last_inverted' = (kept \/ Disagrees(p))
             /\ previous' = TRUE
             /\ UNCHANGED accRoll

\* input(accdata)
InputAcc(roll) ==
    /\ accRoll' = roll
    /\ UNCHANGED <<last_points, tracking_score, last_inverted, previous>>

\* input(gyro): m_gyro is stored and never read.
InputGyro == UNCHANGED procvars
=============================================================================
