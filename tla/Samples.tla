------------------------------ MODULE Samples ------------------------------
(***************************************************************************)
(* What XWiimoteController::process makes of the readings of one remote:   *)
(* the acceleration smoothed over a window, the score of its stability,    *)
(* the calibration of the gyroscope, the masks of buttons and the sticks.  *)
(*                                                                         *)
(* A reading of a sensor is its number: what matters is which readings go  *)
(* into a result, which is their mean, their score or their sum in the     *)
(* code.  The first reading of a sensor only starts its clock and has no   *)
(* number.  Nothing here is reset when an extension is detached.  Angles   *)
(* and the correction of the gyroscope by the acceleration are left out.   *)
(***************************************************************************)
EXTENDS Integers, Sequences

CONSTANTS AccWindow,    \* 32 readings
          ScoreWindow,  \* 16 scores
          GyroWindow,   \* 64 readings (preffered_probe_count)
          StickMax,     \* WIIMOTEDEV_STICK_MAX, 32767
          Steps,        \* [Sticked -> Nat]: 100, 24 and 1280
          Keyed,        \* devices with keys
          Keys,         \* their keys
          Deflections,  \* the positions <<x, y>> a stick can say
          MaxReadings   \* bound: readings of a sensor

Accelerometers == {"wiimote", "nunchuk"}
Sticked == {"nunchuk", "classic_controller", "pro_controller"}

ASSUME WindowAssumption ==
    /\ AccWindow \in Nat /\ AccWindow >= 2
    /\ ScoreWindow \in Nat /\ ScoreWindow >= 2
    /\ GyroWindow \in Nat /\ GyroWindow >= 1
ASSUME StickAssumption ==
    /\ StickMax \in Nat
    /\ Steps \in [Sticked -> 1 .. StickMax]
    /\ Deflections \subseteq Int \X Int
ASSUME ReadingsAssumption == MaxReadings \in Nat

VARIABLES
    started,      \* sensors whose `last' has a value
    taken,        \* history: readings of a sensor after its first
    probes,       \* accel_state_cache::probes, of both accelerometers
    scores,       \* accel_state_cache::scores: the readings they compare
    calibrating,  \* gyro_callibration_stats::probes
    result,       \* gyro_callibration_stats::result: the readings in it
    turned,       \* gyro_state_cache::processed: the readings in the sum
    mask,         \* m_buttons
    told,         \* the mask clients have heard last
    held,         \* the keys that are down
    touched,      \* history: keys used since the device was attached
    stick         \* the last stick event of a device

accvars == <<probes, scores>>
gyrovars == <<calibrating, result, turned>>
clockvars == <<started, taken>>
keyvars == <<mask, told, held, touched>>
vars == <<clockvars, accvars, gyrovars, keyvars, stick>>

Sensors == Accelerometers \cup {"motion_plus"}
Tilts == -StickMax .. StickMax

TypeOK ==
    /\ started \subseteq Sensors
    /\ taken \in [Sensors -> Nat]
    /\ probes \in [Accelerometers -> Seq(Nat)]
    /\ scores \in [Accelerometers -> Seq(Nat \X Nat)]
    /\ calibrating \in Seq(Nat)
    /\ result \subseteq Nat
    /\ turned \subseteq Nat
    /\ mask \in [Keyed -> SUBSET Keys]
    /\ told \in [Keyed -> SUBSET Keys]
    /\ held \in [Keyed -> SUBSET Keys]
    /\ touched \in [Keyed -> SUBSET Keys]
    /\ stick \in [Sticked -> [left : Tilts \X Tilts, right : Tilts \X Tilts]]

Init ==
    /\ started = {}
    /\ taken = [s \in Sensors |-> 0]
    /\ probes = [d \in Accelerometers |-> <<>>]
    /\ scores = [d \in Accelerometers |-> <<>>]
    /\ calibrating = <<>>
    /\ result = {}
    /\ turned = {}
    /\ mask = [d \in Keyed |-> {}]
    /\ told = [d \in Keyed |-> {}]
    /\ held = [d \in Keyed |-> {}]
    /\ touched = [d \in Keyed |-> {}]
    /\ stick = [d \in Sticked |-> [left |-> <<0, 0>>, right |-> <<0, 0>>]]

-----------------------------------------------------------------------------
(* Windows.                                                                *)

\* The first reading of a sensor: cache.last gets its value.
Start(s) ==
    /\ s \notin started
    /\ started' = started \cup {s}
    /\ UNCHANGED <<taken, accvars, gyrovars, keyvars, stick>>

Count(s) ==
    /\ s \in started
    /\ taken[s] < MaxReadings
    /\ taken' = [taken EXCEPT ![s] = @ + 1]
    /\ UNCHANGED started

\* A window that rotates the other way: the oldest entry of the first n stays.
PushLeft(w, v, n) ==
    LET a == IF Len(w) < n THEN Append(w, v) ELSE w
    IN  IF Len(a) < n THEN a
        ELSE [i \in 1 .. n |-> IF i = 1 THEN v ELSE IF i < n THEN a[i + 1] ELSE a[1]]

\* probes and scores: entries are appended until there are n of them; a full
\* window is rotated to the right, and its first entry replaced.
Push(w, v, n) ==
    LET a == IF Len(w) < n THEN Append(w, v) ELSE w
    IN  IF Len(a) < n THEN a
        ELSE [i \in 1 .. n |-> IF i = 1 THEN v ELSE a[i - 1]]

\* Scores that compare with the last entry of the window.
ScoredWithLast(s, w, n) ==
    IF Len(w) < AccWindow THEN s ELSE Push(s, <<n, w[AccWindow]>>, ScoreWindow)

\* The score of a full window compares its first two entries.
Scored(s, w, n) ==
    IF Len(w) < AccWindow THEN s ELSE Push(s, <<n, w[2]>>, ScoreWindow)

\* process::acc
Acc(d) ==
    /\ Count(d)
    /\ LET n == taken[d] + 1
           w == Push(probes[d], n, AccWindow)
       IN  /\ probes' = [probes EXCEPT ![d] = w]
           /\ scores' = [scores EXCEPT ![d] = Scored(@, w, n)]
    /\ UNCHANGED <<gyrovars, keyvars, stick>>

\* A calibration that keeps its probes when it is done, and goes on.
CalibrateAgain(n) ==
    LET all == <<n>> \o calibrating
    IN  /\ calibrating' = all
        /\ IF Len(all) < GyroWindow THEN UNCHANGED <<result, turned>>
           ELSE /\ result' = {all[i] : i \in DOMAIN all}
                /\ turned' = turned \cup {n}

\* process::gyro: the first readings are averaged to what it says at rest,
\* and only then summed up; the last of them counts for both.
Calibrate(n) ==
    IF result # {}
    THEN turned' = turned \cup {n} /\ UNCHANGED <<calibrating, result>>
    ELSE LET all == <<n>> \o calibrating
         IN  IF Len(all) < GyroWindow
             THEN calibrating' = all /\ UNCHANGED <<result, turned>>
             ELSE /\ calibrating' = <<>>
                  /\ result' = {all[i] : i \in DOMAIN all}
                  /\ turned' = turned \cup {n}

Gyro ==
    /\ Count("motion_plus")
    /\ Calibrate(taken["motion_plus"] + 1)
    /\ UNCHANGED <<accvars, keyvars, stick>>

-----------------------------------------------------------------------------
(* Buttons.                                                                *)

\* A mask that only holds the key of the last event.
KeyAlone(d, k, state) == IF state THEN {k} ELSE {}

\* process_key
KeyMask(d, k, state) == IF state THEN mask[d] \cup {k} ELSE mask[d] \ {k}

KeyEvent(d, k, state) ==
    /\ mask' = [mask EXCEPT ![d] = KeyMask(d, k, state)]
    /\ told' = [told EXCEPT ![d] = KeyMask(d, k, state)]
    /\ touched' = [touched EXCEPT ![d] = @ \cup {k}]

Press(d, k) ==
    /\ k \notin held[d]
    /\ held' = [held EXCEPT ![d] = @ \cup {k}]
    /\ KeyEvent(d, k, TRUE)
    /\ UNCHANGED <<clockvars, accvars, gyrovars, stick>>

Release(d, k) ==
    /\ k \in held[d]
    /\ held' = [held EXCEPT ![d] = @ \ {k}]
    /\ KeyEvent(d, k, FALSE)
    /\ UNCHANGED <<clockvars, accvars, gyrovars, stick>>

\* The device goes, with keys down perhaps: its adaptor says that no button
\* is pressed, and m_buttons is what it was.
Detach(d) ==
    /\ told' = [told EXCEPT ![d] = {}]
    /\ held' = [held EXCEPT ![d] = {}]
    /\ touched' = [touched EXCEPT ![d] = {}]
    /\ UNCHANGED <<mask, clockvars, accvars, gyrovars, stick>>

-----------------------------------------------------------------------------
(* Sticks.                                                                 *)

Within(lo, hi, v) == IF v < lo THEN lo ELSE IF v > hi THEN hi ELSE v

\* Scaling that leaves the limit to the second clamp.
ScaledOnly(step, v) == Within(-StickMax - 1, StickMax, v * (StickMax \div step))

\* calculate: a clamp to the steps of the device, and another afterwards.
Scaled(step, v) ==
    Within(-StickMax - 1, StickMax, Within(-step, step, v) * (StickMax \div step))

\* process_stick: the y axes of the pro controller point down.
Tilt(d, p) ==
    LET y == Scaled(Steps[d], p[2])
    IN  <<Scaled(Steps[d], p[1]), IF d = "pro_controller" THEN -y ELSE y>>

Move(d, l, r) ==
    /\ stick' = [stick EXCEPT ![d] =
                   [left |-> Tilt(d, l),
                    right |-> IF d = "nunchuk" THEN <<0, 0>> ELSE Tilt(d, r)]]
    /\ UNCHANGED <<clockvars, accvars, gyrovars, keyvars>>

Next ==
    \/ \E s \in Sensors : Start(s)
    \/ \E d \in Accelerometers : Acc(d)
    \/ Gyro
    \/ \E d \in Keyed : Detach(d) \/ \E k \in Keys : Press(d, k) \/ Release(d, k)
    \/ \E d \in Sticked :
         \E l, r \in Deflections : Move(d, l, r)

Spec == Init /\ [][Next]_vars

-----------------------------------------------------------------------------
\* Windows that are appended to and then rotated the other way lose their
\* newest entries first; still nothing old stays: after two windows less one
\* reading the mean is that of the last readings, the newest first.
WindowIsRecent ==
    \A d \in Accelerometers :
        taken[d] >= 2 * AccWindow - 1 =>
            probes[d] = [i \in 1 .. AccWindow |-> taken[d] + 1 - i]

\* While the window is filled and turned over no reading counts twice, and
\* the newest one always counts.
EachCountsOnce ==
    \A d \in Accelerometers :
        /\ \A i, j \in DOMAIN probes[d] : i # j => probes[d][i] # probes[d][j]
        /\ taken[d] > 0 => \E i \in DOMAIN probes[d] : probes[d][i] = taken[d]

\* A score compares a reading with the one before it, except the first score
\* of a remote, which compares with the very first reading; the newest score
\* is always among them, and the odd one goes after two windows less one.
ScoresCompareNeighbours ==
    \A d \in Accelerometers :
        /\ \A i \in DOMAIN scores[d] :
              LET a == scores[d][i][1]
                  b == scores[d][i][2]
              IN  \/ a = b + 1
                  \/ /\ a = AccWindow /\ b = 1
                     /\ taken[d] < AccWindow + 2 * ScoreWindow - 2
        /\ taken[d] > AccWindow =>
              \E i \in DOMAIN scores[d] : scores[d][i] = <<taken[d], taken[d] - 1>>

\* The gyroscope is calibrated once, on its first readings exactly, and from
\* then on no reading is missing in the sum.
CalibratedOnce ==
    LET n == taken["motion_plus"]
    IN  IF n < GyroWindow THEN result = {} /\ turned = {}
        ELSE result = 1 .. GyroWindow /\ turned = GyroWindow .. n

\* Clients see a key down exactly when it is, once it was used since the
\* device was attached, also if the device was detached with keys down.
TouchedIsTrue ==
    \A d \in Keyed : \A k \in touched[d] : k \in told[d] <=> k \in held[d]
=============================================================================
