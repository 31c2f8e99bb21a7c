--------------------------- MODULE Samples_proofs ---------------------------
(***************************************************************************)
(* The windows, the calibration and the masks of Samples, for windows of   *)
(* any length and any number of readings.                                  *)
(***************************************************************************)
EXTENDS Samples, TLAPS

\* A window of length n after m entries f[1], f[2] ... f[m] were pushed.
Turned(f, m, n) ==
    IF m < n THEN [i \in 1 .. m |-> f[i]]
    ELSE [i \in 1 .. n |-> IF i <= m - n + 1 THEN f[m + 1 - i] ELSE f[i - (m - n + 1)]]

\* What Push makes of a window depends on the number of its entries alone:
\* the newest m - n + 1 come first, backwards, then the first ones forwards.
PushesRight(S, f, m, n) ==
    /\ Push(Turned(f, m, n), f[m + 1], n) = Turned(f, m + 1, n)
    /\ Turned(f, m, n) \in Seq(S)
    /\ Len(Turned(f, m, n)) = IF m < n THEN m ELSE n

LEMMA PushTurns ==
    ASSUME NEW S, NEW f \in [Nat \ {0} -> S], NEW m \in Nat, NEW n \in Nat, n >= 1
    PROVE  PushesRight(S, f, m, n)
<1> SUFFICES /\ Push(Turned(f, m, n), f[m + 1], n) = Turned(f, m + 1, n)
             /\ Turned(f, m, n) \in Seq(S)
             /\ Len(Turned(f, m, n)) = IF m < n THEN m ELSE n
  BY DEF PushesRight
<1> DEFINE w == Turned(f, m, n)
           v == f[m + 1]
<1>1. CASE m < n
  <2>1. /\ w = [i \in 1 .. m |-> f[i]]
        /\ w \in Seq(S)
        /\ Len(w) = m
    BY <1>1 DEF Turned
  <2>2. /\ Append(w, v) \in Seq(S)
        /\ Len(Append(w, v)) = m + 1
        /\ Append(w, v) = [i \in 1 .. m + 1 |-> f[i]]
    BY <2>1
  <2>3. CASE m + 1 < n
    BY <1>1, <2>1, <2>2, <2>3 DEF Push, Turned
  <2>4. CASE m + 1 = n
    <3> DEFINE a == Append(w, v)
    <3>1. Push(w, v, n) = [i \in 1 .. n |-> IF i = 1 THEN v ELSE a[i - 1]]
      <4>1. Len(w) < n /\ ~(Len(a) < n)
        BY <1>1, <2>1, <2>2, <2>4
      <4> HIDE DEF a, w, v
      <4> QED  BY <4>1 DEF Push, a
    <3>2. \A i \in 1 .. n : i # 1 => a[i - 1] = f[i - 1]
      BY <2>2, <2>4
    <3>3. Turned(f, m + 1, n) = [i \in 1 .. n |-> IF i = 1 THEN v ELSE f[i - 1]]
      BY <2>4 DEF Turned
    <3> HIDE DEF a
    <3> QED  BY <3>1, <3>2, <3>3, <1>1, <2>1
  <2> QED  BY <1>1, <2>3, <2>4, <2>1
<1>2. CASE m >= n
  <2>1. /\ w = [i \in 1 .. n |->
                  IF i <= m - n + 1 THEN f[m + 1 - i] ELSE f[i - (m - n + 1)]]
        /\ w \in Seq(S)
        /\ Len(w) = n
    BY <1>2 DEF Turned
  <2>2. Push(w, v, n) = [i \in 1 .. n |-> IF i = 1 THEN v ELSE w[i - 1]]
    <3>1. ~(Len(w) < n)
      BY <2>1
    <3> HIDE DEF w, v
    <3> QED  BY <3>1 DEF Push
  <2>3. ASSUME NEW i \in 1 .. n, i # 1
        PROVE  w[i - 1] = IF i <= (m + 1) - n + 1 THEN f[(m + 1) + 1 - i]
                                                 ELSE f[i - ((m + 1) - n + 1)]
    <3>1. i - 1 \in 1 .. n
      BY <2>3
    <3>2. w[i - 1] = IF i - 1 <= m - n + 1 THEN f[m + 1 - (i - 1)]
                                           ELSE f[(i - 1) - (m - n + 1)]
      <4> HIDE DEF w
      <4> QED  BY <2>1, <3>1, Zenon
    <3>3. /\ i - 1 <= m - n + 1 <=> i <= (m + 1) - n + 1
          /\ m + 1 - (i - 1) = (m + 1) + 1 - i
          /\ (i - 1) - (m - n + 1) = i - ((m + 1) - n + 1)
      OBVIOUS
    <3> HIDE DEF w
    <3> QED  BY <3>2, <3>3, Zenon
  <2>4. Turned(f, m + 1, n) =
          [i \in 1 .. n |-> IF i <= (m + 1) - n + 1 THEN f[(m + 1) + 1 - i]
                                                   ELSE f[i - ((m + 1) - n + 1)]]
    BY <1>2 DEF Turned
  <2>5. v = IF 1 <= (m + 1) - n + 1 THEN f[(m + 1) + 1 - 1] ELSE f[1 - ((m + 1) - n + 1)]
    BY <1>2
  <2> QED  BY <1>2, <2>1, <2>2, <2>3, <2>4, <2>5
<1> QED  BY <1>1, <1>2

-----------------------------------------------------------------------------
\* The entries of the two windows in the order they are pushed.
Numbered == [j \in Nat \ {0} |-> j]
Compared == [j \in Nat \ {0} |->
                <<AccWindow + j - 1, IF j = 1 THEN 1 ELSE AccWindow + j - 2>>]

\* Both windows as functions of the number of readings.
WindowsInv ==
    \A d \in Accelerometers :
        /\ probes[d] = Turned(Numbered, taken[d], AccWindow)
        /\ scores[d] = IF taken[d] < AccWindow THEN <<>>
                       ELSE Turned(Compared, taken[d] - AccWindow + 1, ScoreWindow)

\* The readings that the calibration still waits to average.
GyroInv ==
    /\ CalibratedOnce
    /\ LET n == taken["motion_plus"]
       IN  calibrating = IF n < GyroWindow THEN [i \in 1 .. n |-> n + 1 - i] ELSE <<>>

\* The controller's own mask is right for the keys that were used, and so is
\* what clients were told: the next event of another key does not spoil it.
KeysInv ==
    \A d \in Keyed : \A k \in touched[d] :
        /\ k \in mask[d] <=> k \in held[d]
        /\ k \in told[d] <=> k \in held[d]

IInv == TypeOK /\ WindowsInv /\ GyroInv /\ KeysInv

LEMMA SequencesInOrder ==
    /\ Numbered \in [Nat \ {0} -> Nat]
    /\ Compared \in [Nat \ {0} -> Nat \X Nat]
    /\ \A j \in Nat : j >= 1 =>
         /\ Numbered[j] = j
         /\ Compared[j] =
              <<AccWindow + j - 1, IF j = 1 THEN 1 ELSE AccWindow + j - 2>>
<1>1. ASSUME NEW j \in Nat \ {0}
      PROVE  /\ AccWindow + j - 1 \in Nat
             /\ (IF j = 1 THEN 1 ELSE AccWindow + j - 2) \in Nat
  BY WindowAssumption
<1>2. Compared \in [Nat \ {0} -> Nat \X Nat]
  BY <1>1 DEF Compared
<1>3. ASSUME NEW j \in Nat, j >= 1
      PROVE  j \in Nat \ {0}
  BY <1>3
<1> QED  BY <1>2, <1>3 DEF Numbered, Compared

\* A window before its first entry.
LEMMA NothingTurned ==
    ASSUME NEW f, NEW n \in Nat, n >= 1
    PROVE  Turned(f, 0, n) = <<>>
BY DEF Turned

\* PushTurns for the two windows.
LEMMA NumberedTurns ==
    ASSUME NEW m \in Nat
    PROVE  /\ Push(Turned(Numbered, m, AccWindow), m + 1, AccWindow)
                = Turned(Numbered, m + 1, AccWindow)
           /\ Turned(Numbered, m, AccWindow) \in Seq(Nat)
           /\ Len(Turned(Numbered, m, AccWindow)) = IF m < AccWindow THEN m ELSE AccWindow
<1>1. Numbered[m + 1] = m + 1
  BY SequencesInOrder
<1>2. AccWindow \in Nat /\ AccWindow >= 1
  BY WindowAssumption
<1>3. Numbered \in [Nat \ {0} -> Nat]
  BY SequencesInOrder
<1>4. PushesRight(Nat, Numbered, m, AccWindow)
  BY <1>2, <1>3, PushTurns, Zenon
<1> QED  BY <1>1, <1>4 DEF PushesRight

LEMMA ComparedTurns ==
    ASSUME NEW m \in Nat
    PROVE  /\ Push(Turned(Compared, m, ScoreWindow), Compared[m + 1], ScoreWindow)
                = Turned(Compared, m + 1, ScoreWindow)
           /\ Turned(Compared, m, ScoreWindow) \in Seq(Nat \X Nat)
<1>1. ScoreWindow \in Nat /\ ScoreWindow >= 1
  BY WindowAssumption
<1> DEFINE Pairs == Nat \X Nat
<1>2. Compared \in [Nat \ {0} -> Pairs]
  BY SequencesInOrder
<1> HIDE DEF Pairs
<1>3. PushesRight(Pairs, Compared, m, ScoreWindow)
  BY <1>1, <1>2, PushTurns, Zenon
<1> QED  BY <1>3 DEF Pairs, PushesRight

\* A full window starts with the newest reading and the one before it, except
\* when it has just been filled.
LEMMA SecondEntry ==
    ASSUME NEW m \in Nat, m >= AccWindow
    PROVE  Turned(Numbered, m, AccWindow)[2] = IF m = AccWindow THEN 1 ELSE m - 1
<1>1. Turned(Numbered, m, AccWindow) =
        [i \in 1 .. AccWindow |-> IF i <= m - AccWindow + 1
                                  THEN Numbered[m + 1 - i]
                                  ELSE Numbered[i - (m - AccWindow + 1)]]
  BY WindowAssumption DEF Turned
<1>2. 2 \in 1 .. AccWindow
  BY WindowAssumption
<1>3. CASE m = AccWindow
  BY <1>1, <1>2, <1>3, WindowAssumption DEF Numbered
<1>4. CASE m > AccWindow
  <2>1. 2 <= m - AccWindow + 1
    BY <1>4, WindowAssumption
  <2>2. Turned(Numbered, m, AccWindow)[2] = Numbered[m + 1 - 2]
    BY <1>1, <1>2, <2>1
  <2>3. m + 1 - 2 \in Nat \ {0} /\ m + 1 - 2 = m - 1
    BY <1>4, WindowAssumption
  <2>4. Numbered[m + 1 - 2] = m + 1 - 2
    BY <2>3 DEF Numbered
  <2> QED  BY <1>4, <2>2, <2>3, <2>4, WindowAssumption
<1> QED  BY <1>3, <1>4, WindowAssumption

\* Two clamps and a scale keep a stick within the symmetric range, so that
\* the axis that is turned round stays in it, too.
LEMMA ScaledInRange ==
    ASSUME NEW step \in 1 .. StickMax, NEW v \in Int
    PROVE  Scaled(step, v) \in Tilts
<1> DEFINE q == StickMax \div step
           u == Within(-step, step, v)
<1>1. /\ q \in Nat
      /\ step * q <= StickMax
  BY StickAssumption
<1>2. u \in Int /\ -step <= u /\ u <= step
  BY DEF Within
<1>3. u * q <= step * q /\ -(step * q) <= u * q /\ u * q \in Int
  <2> HIDE DEF q, u
  <2>1. step \in Int /\ q \in Int /\ q >= 0
    BY <1>1
  <2>2. (step - u) * q >= 0 /\ (step + u) * q >= 0
    BY <1>2, <2>1
  <2>3. /\ (step - u) * q = step * q - u * q
        /\ (step + u) * q = step * q + u * q
    BY <1>2, <2>1
  <2> QED  BY <1>2, <2>1, <2>2, <2>3
<1>4. u * q \in Int /\ -StickMax <= u * q /\ u * q <= StickMax
  <2> HIDE DEF q, u
  <2> QED  BY <1>1, <1>3, StickAssumption
<1>5. Scaled(step, v) = Within(-StickMax - 1, StickMax, u * q)
  BY DEF Scaled
<1> HIDE DEF q, u
<1> QED  BY <1>4, <1>5, StickAssumption DEF Within, Tilts

-----------------------------------------------------------------------------
\* A pushed reading: both windows of an accelerometer turn on.
LEMMA AccTurns ==
    ASSUME TypeOK, WindowsInv, NEW d \in Accelerometers, Acc(d)
    PROVE  /\ WindowsInv'
           /\ taken' \in [Sensors -> Nat]
           /\ probes' \in [Accelerometers -> Seq(Nat)]
           /\ scores' \in [Accelerometers -> Seq(Nat \X Nat)]
<1> DEFINE n == taken[d] + 1
           w == Push(probes[d], n, AccWindow)
           s == Scored(scores[d], w, n)
<1>1. /\ taken[d] \in Nat
      /\ taken' = [taken EXCEPT ![d] = n]
      /\ probes' = [probes EXCEPT ![d] = w]
      /\ scores' = [scores EXCEPT ![d] = s]
  BY DEF Acc, Count, TypeOK, Sensors
<1>2. /\ taken \in [Sensors -> Nat]
      /\ probes \in [Accelerometers -> Seq(Nat)]
      /\ scores \in [Accelerometers -> Seq(Nat \X Nat)]
      /\ d \in Sensors /\ Accelerometers \subseteq Sensors
  BY DEF TypeOK, Sensors
<1>3. /\ probes[d] = Turned(Numbered, taken[d], AccWindow)
      /\ scores[d] = IF taken[d] < AccWindow THEN <<>>
                     ELSE Turned(Compared, taken[d] - AccWindow + 1, ScoreWindow)
  BY DEF WindowsInv
<1>4. /\ w = Turned(Numbered, n, AccWindow)
      /\ w \in Seq(Nat)
      /\ Len(w) = IF n < AccWindow THEN n ELSE AccWindow
  <2>1. w = Turned(Numbered, n, AccWindow)
    BY <1>1, <1>3, NumberedTurns
  <2>2. n \in Nat
    BY <1>1
  <2> HIDE DEF w, n
  <2> QED  BY <2>1, <2>2, NumberedTurns
<1>5. /\ s = IF n < AccWindow THEN <<>>
             ELSE Turned(Compared, n - AccWindow + 1, ScoreWindow)
      /\ s \in Seq(Nat \X Nat)
  <2>1. CASE n < AccWindow
    <3>1. s = <<>>
      <4>1. Len(w) < AccWindow /\ scores[d] = <<>>
        BY <1>1, <1>3, <1>4, <2>1, WindowAssumption
      <4> HIDE DEF w, n
      <4> QED  BY <4>1 DEF Scored
    <3> HIDE DEF s, n
    <3> QED  BY <2>1, <3>1
  <2>2. CASE n >= AccWindow
    <3> DEFINE m == n - AccWindow
    <3>1. m \in Nat /\ ~(Len(w) < AccWindow)
      BY <1>1, <1>4, <2>2, WindowAssumption
    <3>2. scores[d] = Turned(Compared, m, ScoreWindow)
      <4>1. CASE n = AccWindow
        BY <1>1, <1>3, <4>1, NothingTurned, WindowAssumption
      <4>2. CASE n > AccWindow
        <5>1. ~(taken[d] < AccWindow) /\ taken[d] - AccWindow + 1 = m
          BY <1>1, <4>2, WindowAssumption
        <5> QED  BY <1>3, <5>1
      <4> QED  BY <1>1, <2>2, <4>1, <4>2, WindowAssumption
    <3>3. w[2] = IF m = 0 THEN 1 ELSE n - 1
      <4>1. n \in Nat /\ (m = 0 <=> n = AccWindow)
        BY <1>1, WindowAssumption
      <4> HIDE DEF w, n, m
      <4> QED  BY <1>4, <2>2, <4>1, SecondEntry
    <3>4. <<n, w[2]>> = Compared[m + 1]
      <4>1. Compared[m + 1] =
              <<AccWindow + (m + 1) - 1, IF m + 1 = 1 THEN 1 ELSE AccWindow + (m + 1) - 2>>
        BY <3>1, SequencesInOrder
      <4>2. n = AccWindow + (m + 1) - 1 /\ n - 1 = AccWindow + (m + 1) - 2
        BY <1>1, WindowAssumption
      <4> HIDE DEF w, n, m
      <4> QED  BY <3>1, <3>3, <4>1, <4>2
    <3>5. s = Push(Turned(Compared, m, ScoreWindow), Compared[m + 1], ScoreWindow)
      <4> HIDE DEF w, n, m
      <4> QED  BY <3>1, <3>2, <3>4 DEF Scored
    <3>6. /\ s = Turned(Compared, m + 1, ScoreWindow)
          /\ s \in Seq(Nat \X Nat)
      <4> HIDE DEF s, m
      <4> QED  BY <3>1, <3>5, ComparedTurns
    <3>7. ~(n < AccWindow) /\ m + 1 = n - AccWindow + 1
      BY <1>1, <2>2, WindowAssumption
    <3> HIDE DEF s, n, m
    <3> QED  BY <3>6, <3>7
  <2> QED  BY <1>1, <2>1, <2>2, WindowAssumption
<1> HIDE DEF n, w, s
<1>6. ASSUME NEW e \in Accelerometers
      PROVE  /\ probes'[e] = Turned(Numbered, taken'[e], AccWindow)
             /\ scores'[e] = IF taken'[e] < AccWindow THEN <<>>
                  ELSE Turned(Compared, taken'[e] - AccWindow + 1, ScoreWindow)
  <2>1. CASE e = d
    BY <1>1, <1>2, <1>4, <1>5, <2>1
  <2>2. CASE e # d
    BY <1>1, <1>2, <2>2 DEF WindowsInv
  <2> QED  BY <2>1, <2>2
<1>7. n \in Nat
  BY <1>1 DEF n
<1> QED  BY <1>1, <1>2, <1>4, <1>5, <1>6, <1>7 DEF WindowsInv

\* A reading of the gyroscope, before and after the calibration is done.
LEMMA GyroTurns ==
    ASSUME TypeOK, GyroInv, Gyro
    PROVE  /\ GyroInv'
           /\ taken' \in [Sensors -> Nat]
           /\ calibrating' \in Seq(Nat)
           /\ result' \subseteq Nat
           /\ turned' \subseteq Nat
<1> DEFINE g == taken["motion_plus"]
           n == g + 1
           all == <<n>> \o calibrating
<1>1. /\ g \in Nat
      /\ taken' = [taken EXCEPT !["motion_plus"] = n]
      /\ taken' \in [Sensors -> Nat]
      /\ taken'["motion_plus"] = n
      /\ Calibrate(n)
  BY DEF Gyro, Count, TypeOK, Sensors
<1>2. GyroWindow \in Nat /\ GyroWindow >= 1
  BY WindowAssumption
<1>3. CASE g >= GyroWindow
  <2>1. result = 1 .. GyroWindow /\ turned = GyroWindow .. g /\ calibrating = <<>>
    BY <1>1, <1>2, <1>3 DEF GyroInv, CalibratedOnce
  <2>2. result # {}
    BY <1>2, <2>1
  <2>3. turned' = turned \cup {n} /\ UNCHANGED <<calibrating, result>>
    BY <1>1, <2>2 DEF Calibrate
  <2>4. turned' = GyroWindow .. n
    BY <1>1, <1>2, <1>3, <2>1, <2>3
  <2> QED  BY <1>1, <1>2, <1>3, <2>1, <2>3, <2>4 DEF GyroInv, CalibratedOnce
<1>4. CASE g < GyroWindow
  <2>1. result = {} /\ turned = {} /\ calibrating = [i \in 1 .. g |-> g + 1 - i]
    BY <1>1, <1>2, <1>4 DEF GyroInv, CalibratedOnce
  <2>2. calibrating \in Seq(Nat) /\ Len(calibrating) = g
    BY <1>1, <2>1
  <2>3. /\ all \in Seq(Nat)
        /\ Len(all) = n
        /\ all = [i \in 1 .. n |-> n + 1 - i]
    BY <1>1, <2>1, <2>2
  <2>4. CASE n < GyroWindow
    <3>1. calibrating' = all /\ UNCHANGED <<result, turned>>
      BY <1>1, <2>1, <2>3, <2>4 DEF Calibrate
    <3> QED  BY <1>1, <2>1, <2>3, <2>4, <3>1 DEF GyroInv, CalibratedOnce
  <2>5. CASE n = GyroWindow
    <3>1. n \in Nat /\ n >= 1
      BY <1>1
    <3>2. all = <<n>> \o calibrating
      OBVIOUS
    <3> HIDE DEF all, n
    <3>3. /\ calibrating' = <<>>
          /\ result' = {all[i] : i \in DOMAIN all}
          /\ turned' = turned \cup {n}
      <4>1. ~(Len(all) < GyroWindow) /\ ~(result # {})
        BY <2>1, <2>3, <2>5, <3>1
      <4> QED  BY <1>1, <3>2, <4>1 DEF Calibrate
    <3>4. result' = 1 .. n
      <4>1. \A j \in 1 .. n : n + 1 - j \in 1 .. n /\ n + 1 - (n + 1 - j) = j
        BY <3>1
      <4>2. \A i \in 1 .. n : all[i] = n + 1 - i
        BY <2>3
      <4>3. DOMAIN all = 1 .. n
        BY <2>3
      <4>4. \A j \in 1 .. n : all[n + 1 - j] = j
        BY <4>1, <4>2
      <4>5. \A i \in 1 .. n : all[i] \in 1 .. n
        BY <4>1, <4>2
      <4> QED  BY <3>3, <4>1, <4>3, <4>4, <4>5
    <3>5. turned' = n .. n
      BY <2>1, <3>1, <3>3
    <3>6. taken'["motion_plus"] = n /\ taken' \in [Sensors -> Nat]
      BY <1>1
    <3>7. GyroInv'
      BY <2>5, <3>1, <3>3, <3>4, <3>5, <3>6 DEF GyroInv, CalibratedOnce
    <3>8. calibrating' \in Seq(Nat)
      BY <3>3
    <3>9. result' \subseteq Nat /\ turned' \subseteq Nat
      BY <3>1, <3>4, <3>5
    <3> QED  BY <3>6, <3>7, <3>8, <3>9
  <2>6. n < GyroWindow \/ n = GyroWindow
    BY <1>1, <1>2, <1>4
  <2> QED  BY <2>4, <2>5, <2>6
<1> QED  BY <1>1, <1>2, <1>3, <1>4

\* An event of a key changes this key in the mask and no other.
LEMMA KeysTurn ==
    ASSUME TypeOK, KeysInv, NEW d \in Keyed, NEW k \in Keys, NEW state \in BOOLEAN,
           KeyEvent(d, k, state),
           held' = [held EXCEPT ![d] = IF state THEN @ \cup {k} ELSE @ \ {k}]
    PROVE  /\ KeysInv'
           /\ mask' \in [Keyed -> SUBSET Keys]
           /\ told' \in [Keyed -> SUBSET Keys]
           /\ held' \in [Keyed -> SUBSET Keys]
           /\ touched' \in [Keyed -> SUBSET Keys]
<1>1. /\ mask \in [Keyed -> SUBSET Keys]
      /\ told \in [Keyed -> SUBSET Keys]
      /\ held \in [Keyed -> SUBSET Keys]
      /\ touched \in [Keyed -> SUBSET Keys]
  BY DEF TypeOK
<1>2. KeyMask(d, k, state) \in SUBSET Keys
  BY <1>1 DEF KeyMask
<1>3. ASSUME NEW e \in Keyed, NEW j \in touched'[e]
      PROVE  /\ j \in mask'[e] <=> j \in held'[e]
             /\ j \in told'[e] <=> j \in held'[e]
  <2>1. CASE e = d
    <3>1. mask'[e] = KeyMask(d, k, state) /\ told'[e] = KeyMask(d, k, state)
      BY <1>1, <2>1 DEF KeyEvent
    <3>2. j = k \/ (j # k /\ j \in touched[d])
      BY <1>1, <1>3, <2>1 DEF KeyEvent
    <3>3. j # k => (j \in mask[d] <=> j \in held[d])
      BY <3>2 DEF KeysInv
    <3>4. held'[e] = IF state THEN held[d] \cup {k} ELSE held[d] \ {k}
      BY <1>1, <2>1
    <3> QED  BY <3>1, <3>3, <3>4 DEF KeyMask
  <2>2. CASE e # d
    <3>1. /\ mask'[e] = mask[e] /\ told'[e] = told[e]
          /\ held'[e] = held[e] /\ touched'[e] = touched[e]
      BY <1>1, <2>2 DEF KeyEvent
    <3> QED  BY <1>3, <3>1 DEF KeysInv
  <2> QED  BY <2>1, <2>2
<1> QED  BY <1>1, <1>2, <1>3 DEF KeyEvent, KeysInv

-----------------------------------------------------------------------------
LEMMA InitIInv == Init => IInv
<1> SUFFICES ASSUME Init PROVE IInv
  OBVIOUS
<1>1. TypeOK
  <2>1. 0 \in Tilts
    BY StickAssumption DEF Tilts
  <2> QED  BY <2>1 DEF Init, TypeOK
<1>2. WindowsInv
  <2>1. \A d \in Accelerometers :
          probes[d] = <<>> /\ scores[d] = <<>> /\ taken[d] = 0
    BY DEF Init, Sensors
  <2>2. 0 < AccWindow /\ Turned(Numbered, 0, AccWindow) = <<>>
    BY NothingTurned, WindowAssumption
  <2> QED  BY <2>1, <2>2 DEF WindowsInv
<1>3. GyroInv
  BY WindowAssumption DEF Init, GyroInv, CalibratedOnce, Sensors
<1>4. KeysInv
  BY DEF Init, KeysInv
<1> QED  BY <1>1, <1>2, <1>3, <1>4 DEF IInv

LEMMA NextIInv == IInv /\ [Next]_vars => IInv'
<1> SUFFICES ASSUME IInv, [Next]_vars PROVE IInv'
  OBVIOUS
<1> USE DEF IInv
<1>1. ASSUME NEW s \in Sensors, Start(s)
      PROVE  IInv'
  BY <1>1 DEF Start, accvars, gyrovars, keyvars, TypeOK, WindowsInv, GyroInv,
              CalibratedOnce, KeysInv
<1>2. ASSUME NEW d \in Accelerometers, Acc(d)
      PROVE  IInv'
  <2>1. /\ WindowsInv'
        /\ taken' \in [Sensors -> Nat]
        /\ probes' \in [Accelerometers -> Seq(Nat)]
        /\ scores' \in [Accelerometers -> Seq(Nat \X Nat)]
    BY <1>2, AccTurns
  <2>2. UNCHANGED <<started, gyrovars, keyvars, stick>>
    BY <1>2 DEF Acc, Count
  <2>3. taken'["motion_plus"] = taken["motion_plus"]
    BY <1>2 DEF Acc, Count, TypeOK, Sensors, Accelerometers
  <2>4. TypeOK'
    BY <2>1, <2>2 DEF TypeOK, gyrovars, keyvars
  <2>5. GyroInv' /\ KeysInv'
    BY <2>2, <2>3 DEF GyroInv, CalibratedOnce, KeysInv, gyrovars, keyvars
  <2> QED  BY <2>1, <2>4, <2>5
<1>3. ASSUME Gyro
      PROVE  IInv'
  <2>1. /\ GyroInv'
        /\ taken' \in [Sensors -> Nat]
        /\ calibrating' \in Seq(Nat)
        /\ result' \subseteq Nat
        /\ turned' \subseteq Nat
    BY <1>3, GyroTurns
  <2>2. UNCHANGED <<started, accvars, keyvars, stick>>
    BY <1>3 DEF Gyro, Count
  <2>3. \A d \in Accelerometers : taken'[d] = taken[d]
    BY <1>3 DEF Gyro, Count, TypeOK, Sensors, Accelerometers
  <2>4. TypeOK'
    BY <2>1, <2>2 DEF TypeOK, accvars, keyvars
  <2>5. WindowsInv' /\ KeysInv'
    BY <2>2, <2>3 DEF WindowsInv, KeysInv, accvars, keyvars
  <2> QED  BY <2>1, <2>4, <2>5
<1>4. ASSUME NEW d \in Keyed, NEW k \in Keys, Press(d, k) \/ Release(d, k)
      PROVE  IInv'
  <2>1. PICK state \in BOOLEAN :
          /\ KeyEvent(d, k, state)
          /\ held' = [held EXCEPT ![d] = IF state THEN @ \cup {k} ELSE @ \ {k}]
    <3>1. CASE Press(d, k)
      BY <3>1 DEF Press
    <3>2. CASE Release(d, k)
      BY <3>2 DEF Release
    <3> QED  BY <1>4, <3>1, <3>2
  <2>2. UNCHANGED <<clockvars, accvars, gyrovars, stick>>
    BY <1>4 DEF Press, Release
  <2>3. /\ KeysInv'
        /\ mask' \in [Keyed -> SUBSET Keys]
        /\ told' \in [Keyed -> SUBSET Keys]
        /\ held' \in [Keyed -> SUBSET Keys]
        /\ touched' \in [Keyed -> SUBSET Keys]
    BY <2>1, KeysTurn
  <2> QED  BY <2>2, <2>3 DEF TypeOK, WindowsInv, GyroInv, CalibratedOnce,
                            clockvars, accvars, gyrovars
<1>5. ASSUME NEW d \in Keyed, Detach(d)
      PROVE  IInv'
  BY <1>5 DEF Detach, clockvars, accvars, gyrovars, TypeOK, WindowsInv, GyroInv,
              CalibratedOnce, KeysInv
<1>6. ASSUME NEW d \in Sticked, NEW l \in Deflections, NEW r \in Deflections,
             Move(d, l, r)
      PROVE  IInv'
  <2>1. ASSUME NEW p \in Deflections
        PROVE  Tilt(d, p) \in Tilts \X Tilts
    <3>1. p[1] \in Int /\ p[2] \in Int /\ Steps[d] \in 1 .. StickMax
      BY StickAssumption
    <3>2. Scaled(Steps[d], p[1]) \in Tilts /\ Scaled(Steps[d], p[2]) \in Tilts
      BY <3>1, ScaledInRange
    <3>3. -Scaled(Steps[d], p[2]) \in Tilts
      BY <3>2, StickAssumption DEF Tilts
    <3> QED  BY <3>2, <3>3 DEF Tilt
  <2>2. 0 \in Tilts
    BY StickAssumption DEF Tilts
  <2>3. stick' \in [Sticked -> [left : Tilts \X Tilts, right : Tilts \X Tilts]]
    BY <1>6, <2>1, <2>2 DEF Move, TypeOK
  <2> QED  BY <1>6, <2>3 DEF Move, clockvars, accvars, gyrovars, keyvars, TypeOK,
                           WindowsInv, GyroInv, CalibratedOnce, KeysInv
<1>7. CASE UNCHANGED vars
  BY <1>7 DEF vars, clockvars, accvars, gyrovars, keyvars, TypeOK, WindowsInv,
              GyroInv, CalibratedOnce, KeysInv
<1> QED  BY <1>1, <1>2, <1>3, <1>4, <1>5, <1>6, <1>7 DEF Next

\* The conjunction of types, windows, calibration and masks is inductive.
THEOREM Invariance == Spec => []IInv
BY InitIInv, NextIInv, PTL DEF Spec

\* Every window, mask and stick has its type: no stick event leaves the range
\* -StickMax .. StickMax, for any step and anything an axis says.
THEOREM TypeCorrect == Spec => []TypeOK
<1>1. IInv => TypeOK
  BY DEF IInv
<1> QED  BY <1>1, Invariance, PTL

\* process::acc: from the (2 * AccWindow - 1)th reading on the mean is that of
\* the last AccWindow readings.
THEOREM WindowsAreRecent == Spec => []WindowIsRecent
<1>1. ASSUME IInv PROVE WindowIsRecent
  <2> SUFFICES ASSUME NEW d \in Accelerometers, taken[d] >= 2 * AccWindow - 1
               PROVE  probes[d] = [i \in 1 .. AccWindow |-> taken[d] + 1 - i]
    BY DEF WindowIsRecent
  <2> DEFINE n == taken[d]
  <2>1. n \in Nat /\ n >= AccWindow /\ AccWindow \in Nat
    BY <1>1, WindowAssumption DEF IInv, TypeOK, Sensors
  <2>2. probes[d] = [i \in 1 .. AccWindow |->
                       IF i <= n - AccWindow + 1 THEN Numbered[n + 1 - i]
                       ELSE Numbered[i - (n - AccWindow + 1)]]
    <3>1. probes[d] = Turned(Numbered, n, AccWindow)
      BY <1>1 DEF IInv, WindowsInv
    <3>2. ~(n < AccWindow)
      BY <2>1
    <3> HIDE DEF n
    <3> QED  BY <3>1, <3>2 DEF Turned
  <2>3. ASSUME NEW i \in 1 .. AccWindow
        PROVE  /\ i <= n - AccWindow + 1
               /\ Numbered[n + 1 - i] = n + 1 - i
    <3>1. n + 1 - i \in Nat /\ n + 1 - i >= 1 /\ i <= n - AccWindow + 1
      BY <2>1
    <3> QED  BY <3>1, SequencesInOrder
  <2> QED  BY <2>2, <2>3
<1> QED  BY <1>1, Invariance, PTL

\* process::acc: no reading counts twice in a mean, and the newest one counts,
\* from the first reading on.
THEOREM ReadingsCountOnce == Spec => []EachCountsOnce
<1>1. ASSUME IInv PROVE EachCountsOnce
  <2> SUFFICES ASSUME NEW d \in Accelerometers
               PROVE  /\ \A i, j \in DOMAIN probes[d] :
                            i # j => probes[d][i] # probes[d][j]
                      /\ taken[d] > 0 =>
                            \E i \in DOMAIN probes[d] : probes[d][i] = taken[d]
    BY DEF EachCountsOnce
  <2> DEFINE n == taken[d]
  <2>1. n \in Nat /\ AccWindow \in Nat /\ AccWindow >= 2
    BY <1>1, WindowAssumption DEF IInv, TypeOK, Sensors
  <2>2. probes[d] = Turned(Numbered, n, AccWindow)
    BY <1>1 DEF IInv, WindowsInv
  <2>3. CASE n < AccWindow
    <3>1. probes[d] = [i \in 1 .. n |-> Numbered[i]]
      BY <2>2, <2>3 DEF Turned
    <3>2. \A i \in 1 .. n : Numbered[i] = i
      BY <2>1, SequencesInOrder
    <3>3. probes[d] = [i \in 1 .. n |-> i]
      BY <3>1, <3>2
    <3> QED  BY <2>1, <3>3
  <2>4. CASE n >= AccWindow
    <3> DEFINE k == n - AccWindow + 1
    <3>1. probes[d] = [i \in 1 .. AccWindow |->
                         IF i <= k THEN Numbered[n + 1 - i] ELSE Numbered[i - k]]
      BY <2>1, <2>2, <2>4 DEF Turned
    <3>2. ASSUME NEW i \in 1 .. AccWindow
          PROVE  probes[d][i] = IF i <= k THEN n + 1 - i ELSE i - k
      <4>1. CASE i <= k
        <5>1. n + 1 - i \in Nat /\ n + 1 - i >= 1
          BY <2>1, <2>4
        <5> QED  BY <3>1, <4>1, <5>1, SequencesInOrder
      <4>2. CASE ~(i <= k)
        <5>1. i - k \in Nat /\ i - k >= 1
          BY <2>1, <2>4, <4>2
        <5> QED  BY <3>1, <4>2, <5>1, SequencesInOrder
      <4> QED  BY <4>1, <4>2
    <3>3. DOMAIN probes[d] = 1 .. AccWindow /\ 1 \in 1 .. AccWindow /\ 1 <= k
      BY <2>1, <2>4, <3>1
    <3>4. probes[d][1] = n
      BY <2>1, <3>2, <3>3
    <3>5. ASSUME NEW i \in 1 .. AccWindow, NEW j \in 1 .. AccWindow, i # j
          PROVE  probes[d][i] # probes[d][j]
      <4>1. (IF i <= k THEN n + 1 - i ELSE i - k) # (IF j <= k THEN n + 1 - j ELSE j - k)
        BY <2>1, <2>4, <3>5
      <4> QED  BY <3>2, <4>1
    <3> QED  BY <3>3, <3>4, <3>5
  <2> QED  BY <2>1, <2>3, <2>4
<1> QED  BY <1>1, Invariance, PTL

\* The readings of the j-th score.
LEMMA ComparedReadings ==
    ASSUME NEW j \in Nat, j >= 1
    PROVE  /\ Compared[j][1] = AccWindow + j - 1
           /\ j = 1 => Compared[j][2] = 1
           /\ j > 1 => /\ Compared[j][2] = AccWindow + j - 2
                       /\ Compared[j] = <<AccWindow + j - 1, AccWindow + j - 2>>
<1>1. Compared[j] = <<AccWindow + j - 1, IF j = 1 THEN 1 ELSE AccWindow + j - 2>>
  BY SequencesInOrder
<1> HIDE DEF Compared
<1>2. CASE j = 1
  BY <1>1, <1>2
<1>3. CASE j > 1
  <2>1. Compared[j] = <<AccWindow + j - 1, AccWindow + j - 2>>
    BY <1>1, <1>3
  <2> QED  BY <1>3, <2>1
<1> QED  BY <1>2, <1>3

\* A window of scores holds scores, the first one only for a while, and always
\* the newest.
LEMMA ScoresInWindow ==
    ASSUME NEW m \in Nat, m >= 1
    PROVE  LET s == Turned(Compared, m, ScoreWindow)
           IN  /\ \A i \in DOMAIN s : \E j \in Nat :
                     /\ j >= 1 /\ s[i] = Compared[j]
                     /\ j = 1 => m <= 2 * ScoreWindow - 2
               /\ \E i \in DOMAIN s : s[i] = Compared[m]
<1> DEFINE s == Turned(Compared, m, ScoreWindow)
           k == m - ScoreWindow + 1
<1>1. ScoreWindow \in Nat /\ ScoreWindow >= 2
  BY WindowAssumption
<1> SUFFICES /\ \A i \in DOMAIN s : \E j \in Nat :
                   /\ j >= 1 /\ s[i] = Compared[j]
                   /\ j = 1 => m <= 2 * ScoreWindow - 2
             /\ \E i \in DOMAIN s : s[i] = Compared[m]
  OBVIOUS
<1>2. CASE m < ScoreWindow
  <2>1. s = [i \in 1 .. m |-> Compared[i]]
    BY <1>2 DEF Turned
  <2>2. m <= 2 * ScoreWindow - 2 /\ m \in 1 .. m
    BY <1>1, <1>2
  <2>3. \A i \in 1 .. m : i \in Nat /\ i >= 1
    OBVIOUS
  <2> HIDE DEF s
  <2> QED  BY <2>1, <2>2, <2>3
<1>3. CASE m >= ScoreWindow
  <2>1. s = [i \in 1 .. ScoreWindow |->
               IF i <= k THEN Compared[m + 1 - i] ELSE Compared[i - k]]
    BY <1>1, <1>3 DEF Turned
  <2>2. ASSUME NEW i \in 1 .. ScoreWindow
        PROVE  \E j \in Nat :
                  /\ j >= 1 /\ s[i] = Compared[j]
                  /\ j = 1 => m <= 2 * ScoreWindow - 2
    <3>1. CASE i <= k
      <4>1. s[i] = Compared[m + 1 - i]
        BY <2>1, <3>1
      <4>2. m + 1 - i \in Nat /\ m + 1 - i > 1
        BY <1>1, <1>3, <3>1
      <4> HIDE DEF s
      <4> QED  BY <4>1, <4>2
    <3>2. CASE ~(i <= k)
      <4>1. s[i] = Compared[i - k]
        <5> HIDE DEF k
        <5> QED  BY <2>1, <3>2
      <4>2. i - k \in Nat /\ i - k >= 1
        BY <1>1, <1>3, <3>2
      <4>3. m <= 2 * ScoreWindow - 2
        BY <1>1, <1>3, <3>2
      <4> HIDE DEF s, k
      <4> QED  BY <4>1, <4>2, <4>3
    <3> QED  BY <3>1, <3>2
  <2>3. 1 \in 1 .. ScoreWindow /\ 1 <= k /\ m + 1 - 1 = m
    BY <1>1, <1>3
  <2>4. s[1] = Compared[m]
    <3> HIDE DEF k
    <3> QED  BY <2>1, <2>3
  <2>5. DOMAIN s = 1 .. ScoreWindow
    BY <2>1
  <2> HIDE DEF s
  <2> QED  BY <2>2, <2>3, <2>4, <2>5
<1> QED  BY <1>1, <1>2, <1>3

\* process::acc: every score compares consecutive readings but the first, and
\* that one is gone after two windows of scores.
THEOREM NeighboursAreCompared == Spec => []ScoresCompareNeighbours
<1>1. ASSUME IInv PROVE ScoresCompareNeighbours
  <2> SUFFICES ASSUME NEW d \in Accelerometers
               PROVE  /\ \A i \in DOMAIN scores[d] :
                            LET a == scores[d][i][1]
                                b == scores[d][i][2]
                            IN  \/ a = b + 1
                                \/ /\ a = AccWindow /\ b = 1
                                   /\ taken[d] < AccWindow + 2 * ScoreWindow - 2
                      /\ taken[d] > AccWindow =>
                            \E i \in DOMAIN scores[d] :
                                scores[d][i] = <<taken[d], taken[d] - 1>>
    BY DEF ScoresCompareNeighbours
  <2> DEFINE n == taken[d]
             m == n - AccWindow + 1
  <2>1. /\ n \in Nat /\ AccWindow \in Nat /\ AccWindow >= 2
        /\ ScoreWindow \in Nat /\ ScoreWindow >= 2
    BY <1>1, WindowAssumption DEF IInv, TypeOK, Sensors
  <2>2. CASE n < AccWindow
    <3>1. scores[d] = <<>>
      BY <1>1, <2>2 DEF IInv, WindowsInv
    <3> QED  BY <2>1, <2>2, <3>1
  <2>3. CASE n >= AccWindow
    <3>1. m \in Nat /\ m >= 1 /\ (n > AccWindow => m > 1)
      BY <2>1, <2>3
    <3>2. scores[d] = Turned(Compared, m, ScoreWindow)
      <4>1. ~(n < AccWindow)
        BY <2>1, <2>3
      <4> QED  BY <1>1, <4>1 DEF IInv, WindowsInv
    <3>3. /\ \A i \in DOMAIN scores[d] : \E j \in Nat :
                /\ j >= 1 /\ scores[d][i] = Compared[j]
                /\ j = 1 => m <= 2 * ScoreWindow - 2
          /\ \E i \in DOMAIN scores[d] : scores[d][i] = Compared[m]
      <4> HIDE DEF m
      <4> QED  BY <3>1, <3>2, ScoresInWindow
    <3>4. ASSUME NEW i \in DOMAIN scores[d]
          PROVE  \/ scores[d][i][1] = scores[d][i][2] + 1
                 \/ /\ scores[d][i][1] = AccWindow /\ scores[d][i][2] = 1
                    /\ n < AccWindow + 2 * ScoreWindow - 2
      <4>1. m <= 2 * ScoreWindow - 2 => n < AccWindow + 2 * ScoreWindow - 2
        BY <2>1
      <4> HIDE DEF n, m
      <4>2. PICK j \in Nat :
              /\ j >= 1 /\ scores[d][i] = Compared[j]
              /\ j = 1 => m <= 2 * ScoreWindow - 2
        BY <3>3
      <4>3. CASE j = 1
        <5>1. Compared[j][1] = AccWindow /\ Compared[j][2] = 1
          BY <2>1, <4>3, ComparedReadings
        <5> QED  BY <4>1, <4>2, <4>3, <5>1
      <4>4. CASE j > 1
        <5>1. Compared[j][1] = Compared[j][2] + 1
          BY <2>1, <4>4, ComparedReadings
        <5> QED  BY <4>2, <5>1
      <4>5. j = 1 \/ j > 1
        BY <4>2
      <4> QED  BY <4>3, <4>4, <4>5
    <3>5. ASSUME n > AccWindow
          PROVE  Compared[m] = <<n, n - 1>>
      <4>1. Compared[m] = <<AccWindow + m - 1, AccWindow + m - 2>>
        <5> HIDE DEF m
        <5> QED  BY <3>1, <3>5, ComparedReadings
      <4>2. AccWindow + m - 1 = n /\ AccWindow + m - 2 = n - 1
        BY <2>1
      <4> HIDE DEF n, m
      <4> QED  BY <4>1, <4>2
    <3> QED  BY <3>3, <3>4, <3>5
  <2> QED  BY <2>1, <2>2, <2>3
<1> QED  BY <1>1, Invariance, PTL

\* process::gyro: the calibration is the mean of the first GyroWindow readings
\* exactly, and no later reading is missing in the angles.
THEOREM GyroIsCalibratedOnce == Spec => []CalibratedOnce
<1>1. IInv => CalibratedOnce
  BY DEF IInv, GyroInv
<1> QED  BY <1>1, Invariance, PTL

\* process_key: although m_buttons survives a detached device, clients see the
\* keys that were used since then as they are.
THEOREM TouchedKeysAreTrue == Spec => []TouchedIsTrue
<1>1. IInv => TouchedIsTrue
  BY DEF IInv, KeysInv, TouchedIsTrue
<1> QED  BY <1>1, Invariance, PTL
=============================================================================
