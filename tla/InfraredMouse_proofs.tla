------------------------ MODULE InfraredMouse_proofs ------------------------
(***************************************************************************)
(* Theorems about InfraredMouse, for any number of mice, any scale, any    *)
(* acceleration and any cursor: threads do not outlive their mouse or the  *)
(* event device, and the pointer follows the cursor.                       *)
(***************************************************************************)
EXTENDS InfraredMouse, SequenceTheorems, TLAPS

-----------------------------------------------------------------------------
(* Whole pixels.                                                           *)

LEMMA DivMod ==
    ASSUME NEW v \in Nat
    PROVE  /\ v \div Scale \in Nat
           /\ Scale * (v \div Scale) <= v /\ v < Scale * (v \div Scale) + Scale
BY NumbersAssumption

LEMMA NothingBetween ==
    ASSUME NEW d \in Int, Scale * d < Scale, -Scale < Scale * d
    PROVE  d = 0
BY NumbersAssumption

\* Pixels truncates: what it leaves is less than a pixel, and of v's sign.
LEMMA PixelsTruncates ==
    ASSUME NEW v \in Int
    PROVE  /\ Pixels(v) \in Int
           /\ v >= 0 => /\ Pixels(v) >= 0
                        /\ 0 <= v - Scale * Pixels(v) /\ v - Scale * Pixels(v) < Scale
           /\ v <= 0 => /\ Pixels(v) <= 0
                        /\ -Scale < v - Scale * Pixels(v) /\ v - Scale * Pixels(v) <= 0
<1>1. CASE v > 0
  <2>1. v \in Nat
    BY <1>1
  <2>2. Pixels(v) = v \div Scale
    BY <1>1 DEF Pixels
  <2> QED  BY <1>1, <2>1, <2>2, DivMod, NumbersAssumption
<1>2. CASE v < 0
  <2> DEFINE q == (-v) \div Scale
  <2>1. -v \in Nat
    BY <1>2
  <2>2. q \in Nat /\ Scale * q <= -v /\ -v < Scale * q + Scale
    BY <2>1, DivMod
  <2>3. Pixels(v) = -q
    BY <1>2 DEF Pixels
  <2> HIDE DEF q
  <2>4. Scale * (-q) = -(Scale * q)
    BY <2>2, NumbersAssumption
  <2> QED  BY <1>2, <2>2, <2>3, <2>4, NumbersAssumption
<1>3. CASE v = 0
  <2>1. v \in Nat
    BY <1>3
  <2>2. v \div Scale \in Nat /\ Scale * (v \div Scale) <= 0
    BY <1>3, <2>1, DivMod
  <2>3. v \div Scale = 0
    <3>1. ASSUME NEW d \in Nat, Scale * d <= 0 PROVE d = 0
      BY <3>1, NumbersAssumption
    <3> QED  BY <2>2, <3>1
  <2>4. Pixels(v) = 0
    BY <1>3, <2>3 DEF Pixels
  <2> QED  BY <1>3, <2>4, NumbersAssumption
<1> QED  BY <1>1, <1>2, <1>3

\* Nothing else leaves less than a pixel with the sign of v.
LEMMA PixelsIsOnly ==
    ASSUME NEW v \in Int, NEW p \in Int,
           \/ v >= 0 /\ 0 <= v - Scale * p /\ v - Scale * p < Scale
           \/ v <= 0 /\ -Scale < v - Scale * p /\ v - Scale * p <= 0
    PROVE  Pixels(v) = p
<1> DEFINE q == Pixels(v)
<1>1. q \in Int
  BY PixelsTruncates
<1>2. \/ 0 <= v - Scale * q /\ v - Scale * q < Scale /\ 0 <= v - Scale * p /\ v - Scale * p < Scale
      \/ /\ -Scale < v - Scale * q /\ v - Scale * q <= 0
         /\ -Scale < v - Scale * p /\ v - Scale * p <= 0
  BY PixelsTruncates
<1> HIDE DEF q
<1>3. Scale * (q - p) = Scale * q - Scale * p
  BY <1>1, NumbersAssumption
<1>4. Scale * q \in Int /\ Scale * p \in Int
  BY <1>1, NumbersAssumption
<1>5. Scale * (q - p) < Scale /\ -Scale < Scale * (q - p)
  BY <1>2, <1>3, <1>4, NumbersAssumption
<1>6. q - p = 0
  BY <1>1, <1>5, NothingBetween
<1> QED  BY <1>1, <1>6 DEF q

\* Whole pixels of the same sign may be added before or after.
LEMMA PixelsAdds ==
    ASSUME NEW x \in Int, NEW n \in Int, (x >= 0 /\ n >= 0) \/ (x <= 0 /\ n <= 0)
    PROVE  Pixels(x + Scale * n) = Pixels(x) + n
<1> DEFINE p == Pixels(x)
<1>1. /\ p \in Int
      /\ x >= 0 => 0 <= x - Scale * p /\ x - Scale * p < Scale
      /\ x <= 0 => -Scale < x - Scale * p /\ x - Scale * p <= 0
  BY PixelsTruncates
<1> HIDE DEF p
<1>2. Scale * (p + n) = Scale * p + Scale * n /\ Scale * p \in Int /\ Scale * n \in Int
  BY <1>1, NumbersAssumption
<1>3. (n >= 0 => Scale * n >= 0) /\ (n <= 0 => Scale * n <= 0)
  BY NumbersAssumption
<1> DEFINE sn == Scale * n
           sp == Scale * p
           spn == Scale * (p + n)
<1>4. /\ sn \in Int /\ sp \in Int /\ spn = sp + sn
      /\ (n >= 0 => sn >= 0) /\ (n <= 0 => sn <= 0)
      /\ x >= 0 => 0 <= x - sp /\ x - sp < Scale
      /\ x <= 0 => -Scale < x - sp /\ x - sp <= 0
  BY <1>1, <1>2, <1>3
<1> HIDE DEF sn, sp, spn
<1>5. \/ x + sn >= 0 /\ 0 <= x + sn - spn /\ x + sn - spn < Scale
      \/ x + sn <= 0 /\ -Scale < x + sn - spn /\ x + sn - spn <= 0
  BY <1>4, NumbersAssumption
<1>6. p + n \in Int /\ x + sn \in Int
  BY <1>1, <1>4
<1>7. \A v, q \in Int :
         \/ v >= 0 /\ 0 <= v - Scale * q /\ v - Scale * q < Scale
         \/ v <= 0 /\ -Scale < v - Scale * q /\ v - Scale * q <= 0
         => Pixels(v) = q
  BY PixelsIsOnly
<1>8. spn = Scale * (p + n)
  BY DEF spn
<1>9. ASSUME NEW v \in Int, NEW q \in Int, v = x + sn, q = p + n PROVE Pixels(v) = q
  <2>1. \/ v >= 0 /\ 0 <= v - Scale * q /\ v - Scale * q < Scale
        \/ v <= 0 /\ -Scale < v - Scale * q /\ v - Scale * q <= 0
    <3>1. Scale * q = spn
      BY <1>8, <1>9
    <3> QED  BY <1>4, <1>5, <1>9, <3>1
  <2> QED  BY <2>1, <1>7
<1>10. Pixels(x + sn) = p + n
  BY <1>6, <1>9
<1> QED  BY <1>10 DEF p, sn

\* One tick left of the centre: what the cursor moves by and what is left in
\* m_acc differ by whole pixels, exactly those of the motion.
LEMMA TickIsExact ==
    ASSUME NEW e \in Int, NEW x \in Int, x = 0 \/ (-Scale < e /\ e < Scale),
           NEW v \in Int, v = e + (x - Scale * Pixels(x)),
           NEW y \in Int, y = x + Scale * Pixels(v)
    PROVE  -e - x = -(v - Scale * Pixels(v)) - Scale * Pixels(y)
<1> DEFINE p == Pixels(x)
           n == Pixels(v)
<1>1. /\ p \in Int
      /\ x >= 0 => 0 <= x - Scale * p /\ x - Scale * p < Scale
      /\ x <= 0 => -Scale < x - Scale * p /\ x - Scale * p <= 0
  BY PixelsTruncates
<1>2. /\ n \in Int
      /\ v >= 0 => n >= 0
      /\ v <= 0 => n <= 0 /\ -Scale < v - Scale * n /\ v - Scale * n <= 0
      /\ v >= 0 => 0 <= v - Scale * n /\ v - Scale * n < Scale
  BY PixelsTruncates
<1>3. v = e + (x - Scale * p) /\ y = x + Scale * n
  OBVIOUS
<1> HIDE DEF p, n
<1>4. (x >= 0 /\ n >= 0) \/ (x <= 0 /\ n <= 0)
  <2> DEFINE sn == Scale * n
             sp == Scale * p
  <2>1. sn \in Int /\ sp \in Int
    BY <1>1, <1>2, NumbersAssumption
  <2>2. (n < 0 => sn <= -Scale) /\ (n > 0 => sn >= Scale)
    BY <1>2, NumbersAssumption
  <2>3. CASE x = 0
    BY <1>2, <2>3
  <2>4. CASE x > 0
    <3>1. v > -Scale
      BY <1>1, <1>3, <2>1, <2>4, NumbersAssumption
    <3>2. v <= 0 => v <= sn /\ sn < v + Scale
      BY <1>2, <2>1, NumbersAssumption
    <3>3. v <= 0 => sn > -Scale
      BY <2>1, <3>1, <3>2, NumbersAssumption
    <3> QED  BY <1>2, <2>1, <2>2, <2>4, <3>3, NumbersAssumption
  <2>5. CASE x < 0
    <3>1. v < Scale
      BY <1>1, <1>3, <2>1, <2>5, NumbersAssumption
    <3>2. v >= 0 => sn <= v
      BY <1>2, <2>1, NumbersAssumption
    <3>3. v >= 0 => sn < Scale
      BY <2>1, <3>1, <3>2, NumbersAssumption
    <3> QED  BY <1>2, <2>1, <2>2, <2>5, <3>3, NumbersAssumption
  <2> QED  BY <2>3, <2>4, <2>5
<1>5. Pixels(y) = p + n
  BY <1>2, <1>3, <1>4, PixelsAdds DEF p
<1>6. Scale * (p + n) = Scale * p + Scale * n /\ Scale * p \in Int /\ Scale * n \in Int
  BY <1>1, <1>2, NumbersAssumption
<1>7. -e - x = -(v - Scale * n) - Scale * Pixels(y)
  BY <1>1, <1>2, <1>3, <1>5, <1>6, NumbersAssumption
<1> QED  BY <1>7 DEF n

-----------------------------------------------------------------------------
(* The inductive invariant.                                                *)

PlacesKnown ==
    \A m \in Mice :
        cursor[m].at \in Points \cup {Zero} /\ last[m].at \in Points \cup {Zero}

\* Who is in m_mouses.
ListInv ==
    /\ \A m \in Mice : thread[m] # "none" => m \in Loaded
    /\ \A m \in Mice : m \notin Loaded => ~last[m].valid
    /\ main = "start" => /\ Len(mice) <= Len(MouseGroups)
                         /\ \A n \in DOMAIN mice : mice[n] = MouseGroups[n]
    /\ main = "gone" => mice = <<>>
    /\ main = "wait" => mice # <<>>

\* What m_acc holds, and what of a motion is not written yet.
Fraction ==
    \A m \in Mice : last[m].valid =>
        \A a \in Axes \ loose[m] : -Scale < acc[m][a] /\ acc[m][a] < Scale
AcceleratedIsLoose ==
    \A m \in Accelerated : thread[m] # "none" => loose[m] = Axes
Pending(m, a) ==
    IF thread[m] = "x" \/ (thread[m] = "y" /\ a = "y") THEN Scale * motion[m][a] ELSE 0
ErrorIsOwed ==
    created => \A m \in Mice : thread[m] \in {"tick", "x", "y", "sync"} =>
        \A a \in Axes \ loose[m] : error[m][a] = -acc[m][a] - Pending(m, a)

IInv == TypeOK /\ PlacesKnown /\ ListInv /\ Fraction /\ AcceleratedIsLoose /\ ErrorIsOwed

LEMMA ZeroIsVector == Zero \in Vectors /\ \A a \in Axes : Zero[a] = 0
BY DEF Zero, Vectors

LEMMA InitHolds == Init => IInv
<1> SUFFICES ASSUME Init PROVE IInv
  OBVIOUS
<1> USE DEF Init
<1>1. TypeOK
  <2>1. NoCursor \in Cursors
    BY ZeroIsVector DEF NoCursor, Cursors
  <2>2. mice \in Seq(Mice)
    OBVIOUS
  <2> QED  BY <2>1, <2>2, ZeroIsVector DEF TypeOK
<1>2. PlacesKnown
  BY DEF PlacesKnown, NoCursor
<1>3. ListInv
  BY DEF ListInv, NoCursor
<1>4. Fraction
  BY DEF Fraction, NoCursor
<1>5. AcceleratedIsLoose
  BY AcceleratedAssumption DEF AcceleratedIsLoose
<1>6. ErrorIsOwed
  BY DEF ErrorIsOwed
<1> QED  BY <1>1, <1>2, <1>3, <1>4, <1>5, <1>6 DEF IInv

-----------------------------------------------------------------------------
(* The main thread.                                                        *)

\* What cursors do does not touch a thread.
LEMMA SignalHolds == ASSUME IInv, Signal PROVE IInv'
<1> USE DEF IInv
<1>1. PICK id \in Ids : CursorLost(id) \/ \E p \in Points : CursorPosition(id, p)
  BY DEF Signal
<1>2. /\ UNCHANGED <<mainvars, created, interrupted, threadvars, historyvars>>
      /\ cursor' \in [Mice -> Cursors]
      /\ \A m \in Mice : cursor'[m].at \in Points \cup {Zero}
  <2>1. CASE CursorLost(id)
    <3>1. \A m \in Mice : cursor[m] \in Cursors
      BY DEF TypeOK
    <3>2. \A m \in Mice : /\ [cursor[m] EXCEPT !.valid = FALSE] \in Cursors
                          /\ [cursor[m] EXCEPT !.valid = FALSE].at = cursor[m].at
      BY <3>1 DEF Cursors
    <3> QED  BY <2>1, <3>1, <3>2 DEF CursorLost, PlacesKnown
  <2>2. ASSUME NEW p \in Points, CursorPosition(id, p)
        PROVE  /\ cursor' \in [Mice -> Cursors]
               /\ \A m \in Mice : cursor'[m].at \in Points \cup {Zero}
               /\ UNCHANGED <<mainvars, created, interrupted, threadvars, historyvars>>
    <3>1. \A m \in Mice : cursor[m] \in Cursors
      BY DEF TypeOK
    <3>2. [at |-> p, valid |-> TRUE] \in Cursors
      BY ValuesAssumption DEF Cursors
    <3> QED  BY <2>2, <3>1, <3>2 DEF CursorPosition, PlacesKnown
  <2> QED  BY <1>1, <2>1, <2>2
<1> USE <1>2 DEF mainvars, threadvars, historyvars
<1>3. TypeOK'
  BY DEF TypeOK
<1>4. PlacesKnown'
  BY DEF PlacesKnown
<1>5. ListInv'
  BY DEF ListInv, Loaded
<1>6. Fraction' /\ AcceleratedIsLoose' /\ ErrorIsOwed'
  BY DEF Fraction, AcceleratedIsLoose, ErrorIsOwed, Pending
<1> QED  BY <1>3, <1>4, <1>5, <1>6

\* Steps of the main thread that only move it.
LEMMA MainMoves ==
    ASSUME IInv, UNCHANGED <<mice, created, cursor, threadvars, historyvars>>,
           main' \in {"idle", "clear", "wait", "start", "gone"},
           then' \in {"load", "unload", "destroy"},
           interrupted' \in [Mice -> BOOLEAN],
           main' \in {"start", "gone"} => mice = <<>>,
           main' = "wait" => mice # <<>>
    PROVE  IInv'
<1> USE DEF IInv, mainvars, threadvars, historyvars
<1>1. TypeOK'
  BY DEF TypeOK
<1>2. PlacesKnown'
  BY DEF PlacesKnown
<1>3. ListInv'
  <2>1. mice' = mice /\ thread' = thread /\ last' = last /\ Loaded' = Loaded
    BY DEF Loaded
  <2>2. mice = <<>> => Len(mice) <= Len(MouseGroups) /\ DOMAIN mice = {}
    BY MouseGroupsAssumption
  <2> QED  BY <2>1, <2>2 DEF ListInv
<1>4. Fraction' /\ AcceleratedIsLoose' /\ ErrorIsOwed'
  BY DEF Fraction, AcceleratedIsLoose, ErrorIsOwed, Pending
<1> QED  BY <1>1, <1>2, <1>3, <1>4

LEMMA ClearHolds ==
    ASSUME IInv, NEW why \in {"load", "unload", "destroy"}, Clear(why) PROVE IInv'
<1>1. /\ UNCHANGED <<mice, created, cursor, threadvars, historyvars>>
      /\ main' = "clear" /\ then' = why /\ interrupted' = interrupted
  BY DEF Clear
<1>2. interrupted \in [Mice -> BOOLEAN]
  BY DEF IInv, TypeOK
<1> QED  BY <1>1, <1>2, MainMoves

LEMMA InterruptHolds == ASSUME IInv, Interrupt PROVE IInv'
<1>1. /\ UNCHANGED <<mice, created, cursor, threadvars, historyvars>>
      /\ main' = "wait" /\ then' = then /\ mice # <<>>
      /\ interrupted' = [interrupted EXCEPT ![mice[1]] = TRUE]
  BY DEF Interrupt
<1>2. interrupted \in [Mice -> BOOLEAN] /\ then \in {"load", "unload", "destroy"}
  BY DEF IInv, TypeOK
<1>3. interrupted' \in [Mice -> BOOLEAN]
  BY <1>1, <1>2
<1> QED  BY <1>1, <1>2, <1>3, MainMoves

LEMMA ClearedHolds == ASSUME IInv, Cleared PROVE IInv'
<1>1. then \in {"load", "unload", "destroy"} /\ interrupted \in [Mice -> BOOLEAN]
  BY DEF IInv, TypeOK
<1>2. /\ UNCHANGED <<mice, created, cursor, threadvars, historyvars>>
      /\ main' \in {"idle", "start", "gone"} /\ then' = then
      /\ interrupted' = interrupted /\ mice = <<>>
  BY <1>1 DEF Cleared
<1> QED  BY <1>1, <1>2, MainMoves

LEMMA StartedHolds == ASSUME IInv, Started PROVE IInv'
<1>1. /\ UNCHANGED <<mice, created, cursor, threadvars, historyvars>>
      /\ main' = "idle" /\ then' = then /\ interrupted' = interrupted
  BY DEF Started
<1>2. then \in {"load", "unload", "destroy"} /\ interrupted \in [Mice -> BOOLEAN]
  BY DEF IInv, TypeOK
<1> QED  BY <1>1, <1>2, MainMoves

\* The mouse that is joined is the first; the others stay in the list.
LEMMA JoinHolds == ASSUME IInv, Join PROVE IInv'
<1> USE DEF IInv
<1> DEFINE m == mice[1]
<1>1. mice \in Seq(Mice) /\ mice # <<>>
  BY DEF TypeOK, ListInv, Join
<1>2. /\ m \in Mice
      /\ Tail(mice) \in Seq(Mice)
      /\ \A o \in Loaded : o = m \/ \E n \in DOMAIN Tail(mice) : Tail(mice)[n] = o
  <2>1. Len(mice) \in Nat /\ Len(mice) >= 1 /\ DOMAIN mice = 1 .. Len(mice)
    BY <1>1
  <2>2. m \in Mice /\ Tail(mice) \in Seq(Mice)
    BY <1>1, <2>1
  <2>3. DOMAIN Tail(mice) = 1 .. (Len(mice) - 1)
    BY <1>1, <2>1
  <2>4. ASSUME NEW o \in Loaded, o # m
        PROVE  \E n \in DOMAIN Tail(mice) : Tail(mice)[n] = o
    <3>1. PICK n \in DOMAIN mice : mice[n] = o
      BY DEF Loaded
    <3>2. n \in 2 .. Len(mice)
      BY <2>1, <2>4, <3>1
    <3>3. n - 1 \in DOMAIN Tail(mice) /\ Tail(mice)[n - 1] = mice[n]
      BY <1>1, <2>1, <2>3, <3>2
    <3> QED  BY <3>1, <3>3
  <2> QED  BY <2>2, <2>4
<1>3. /\ \A o \in Loaded : o = m \/ o \in Loaded'
      /\ mice' \in Seq(Mice)
  BY <1>2 DEF Join, Loaded
<1>4. NoCursor \in Cursors /\ NoCursor.at = Zero /\ NoCursor.valid = FALSE
  BY ZeroIsVector DEF NoCursor, Cursors
<1>5. /\ thread' = [thread EXCEPT ![m] = "none"]
      /\ interrupted' = [interrupted EXCEPT ![m] = FALSE]
      /\ cursor' = [cursor EXCEPT ![m] = NoCursor]
      /\ last' = [last EXCEPT ![m] = NoCursor]
      /\ timeout' = [timeout EXCEPT ![m] = 0]
      /\ acc' = [acc EXCEPT ![m] = Zero]
      /\ loose' = [loose EXCEPT ![m] = {}]
      /\ error' = [error EXCEPT ![m] = Zero]
      /\ main' = "clear" /\ UNCHANGED <<then, created, motion>>
  BY DEF Join
<1> HIDE DEF m
<1>6. TypeOK'
  BY <1>2, <1>3, <1>4, <1>5, ZeroIsVector DEF TypeOK
<1>7. PlacesKnown'
  BY <1>2, <1>4, <1>5 DEF PlacesKnown, TypeOK
<1>8. ListInv'
  <2>1. ASSUME NEW o \in Mice, thread'[o] # "none" PROVE o \in Loaded'
    BY <1>2, <1>3, <1>5, <2>1 DEF ListInv, TypeOK
  <2>2. ASSUME NEW o \in Mice, o \notin Loaded' PROVE ~last'[o].valid
    BY <1>2, <1>3, <1>4, <1>5, <2>2 DEF ListInv, TypeOK
  <2> QED  BY <1>5, <2>1, <2>2 DEF ListInv
<1>9. Fraction'
  BY <1>2, <1>4, <1>5 DEF Fraction, TypeOK
<1>10. AcceleratedIsLoose'
  BY <1>2, <1>5, AcceleratedAssumption DEF AcceleratedIsLoose, TypeOK
<1>11. ErrorIsOwed'
  BY <1>2, <1>5 DEF ErrorIsOwed, Pending, TypeOK
<1> QED  BY <1>6, <1>7, <1>8, <1>9, <1>10, <1>11

\* A mouse that is started is not in the list yet.
LEMMA StartHolds == ASSUME IInv, Start PROVE IInv'
<1> USE DEF IInv
<1> DEFINE m == MouseGroups[Len(mice) + 1]
<1>1. PICK g \in Garbage, n \in Counts :
        /\ mice' = Append(mice, m)
        /\ thread' = [thread EXCEPT ![m] = "tick"]
        /\ acc' = [acc EXCEPT ![m] = g]
        /\ timeout' = [timeout EXCEPT ![m] = n]
        /\ loose' = [loose EXCEPT ![m] = IF m \in Accelerated THEN Axes ELSE {}]
        /\ error' = [error EXCEPT ![m] =
                       [a \in Axes |-> IF m \in Accelerated THEN 0 ELSE -g[a]]]
  BY DEF Start
<1>2. /\ main = "start" /\ Len(mice) < Len(MouseGroups)
      /\ UNCHANGED <<main, then, created, interrupted, cursor, last, motion>>
  BY DEF Start
<1>3. mice \in Seq(Mice) /\ Len(mice) \in Nat
  BY DEF TypeOK
<1>4. m \in Mice /\ m \notin Loaded
  <2>1. Len(mice) + 1 \in DOMAIN MouseGroups
    BY <1>2, <1>3, MouseGroupsAssumption
  <2>2. m \in Mice
    BY <2>1, MouseGroupsAssumption
  <2>3. ASSUME NEW i \in DOMAIN mice PROVE mice[i] # m
    <3>1. i \in 1 .. Len(mice) /\ mice[i] = MouseGroups[i]
      BY <1>2, <1>3 DEF ListInv
    <3>2. i \in DOMAIN MouseGroups /\ i # Len(mice) + 1
      BY <1>2, <1>3, <3>1, MouseGroupsAssumption
    <3> QED  BY <2>1, <3>1, <3>2, MouseGroupsAssumption
  <2> QED  BY <2>2, <2>3 DEF Loaded
<1>5. g \in Vectors /\ n \in Int
  BY ValuesAssumption
<1>6. [a \in Axes |-> IF m \in Accelerated THEN 0 ELSE -g[a]] \in Vectors
  BY <1>5 DEF Vectors
<1>7. thread[m] = "none" /\ ~last[m].valid
  BY <1>4 DEF ListInv
<1>8. /\ mice' \in Seq(Mice)
      /\ Len(mice') = Len(mice) + 1
      /\ \A i \in DOMAIN mice' : mice'[i] = MouseGroups[i]
      /\ Loaded' = Loaded \cup {m}
  <2>1. DOMAIN mice' = 1 .. Len(mice) + 1 /\ DOMAIN mice = 1 .. Len(mice)
    BY <1>1, <1>3, <1>4
  <2>2. \A i \in 1 .. Len(mice) : mice'[i] = mice[i]
    BY <1>1, <1>3, <1>4
  <2>3. mice'[Len(mice) + 1] = m
    BY <1>1, <1>3, <1>4
  <2>4. Loaded' = Loaded \cup {m}
    BY <1>3, <2>1, <2>2, <2>3 DEF Loaded
  <2>5. ASSUME NEW i \in DOMAIN mice' PROVE mice'[i] = MouseGroups[i]
    <3>1. CASE i = Len(mice) + 1
      BY <2>3, <3>1
    <3>2. CASE i # Len(mice) + 1
      <4>1. i \in 1 .. Len(mice)
        BY <1>3, <2>1, <3>2
      <4> QED  BY <1>2, <2>1, <2>2, <4>1 DEF ListInv
    <3> QED  BY <3>1, <3>2
  <2>6. mice' \in Seq(Mice) /\ Len(mice') = Len(mice) + 1
    BY <1>1, <1>3, <1>4
  <2> QED  BY <2>4, <2>5, <2>6
<1> HIDE DEF m
<1>9. TypeOK'
  BY <1>1, <1>2, <1>4, <1>5, <1>6, <1>8 DEF TypeOK
<1>10. PlacesKnown'
  BY <1>2 DEF PlacesKnown
<1>11. ListInv'
  <2>1. Len(mice') <= Len(MouseGroups)
    BY <1>2, <1>3, <1>8, MouseGroupsAssumption
  <2>2. \A o \in Mice : thread'[o] # "none" => o \in Loaded'
    BY <1>1, <1>4, <1>8 DEF ListInv, TypeOK
  <2>3. \A o \in Mice : o \notin Loaded' => ~last'[o].valid
    BY <1>2, <1>8 DEF ListInv
  <2> QED  BY <1>2, <1>8, <2>1, <2>2, <2>3 DEF ListInv
<1>12. Fraction'
  BY <1>1, <1>2, <1>4, <1>7 DEF Fraction, TypeOK
<1>13. AcceleratedIsLoose'
  BY <1>1, <1>4, AcceleratedAssumption DEF AcceleratedIsLoose, TypeOK
<1>14. ErrorIsOwed'
  <2> SUFFICES ASSUME created, NEW o \in Mice, thread'[o] \in {"tick", "x", "y", "sync"},
                      NEW a \in Axes \ loose'[o]
               PROVE  error'[o][a] = -acc'[o][a] - Pending(o, a)'
    BY <1>2 DEF ErrorIsOwed
  <2>1. CASE o = m
    <3>1. Pending(o, a)' = 0
      <4>1. thread'[o] = "tick"
        BY <1>1, <1>4, <2>1 DEF TypeOK
      <4> QED  BY <4>1 DEF Pending
    <3>2. m \notin Accelerated
      BY <1>1, <1>4, <2>1 DEF TypeOK
    <3>3. error'[m][a] = -g[a] /\ acc'[m][a] = g[a] /\ g[a] \in Int
      BY <1>1, <1>4, <1>5, <3>2 DEF TypeOK, Vectors
    <3>4. error'[o][a] = -g[a] /\ acc'[o][a] = g[a]
      BY <2>1, <3>3
    <3> QED  BY <3>1, <3>3, <3>4
  <2>2. CASE o # m
    <3>1. /\ error'[o] = error[o] /\ acc'[o] = acc[o] /\ thread'[o] = thread[o]
          /\ loose'[o] = loose[o] /\ motion' = motion
      BY <1>1, <1>2, <2>2 DEF TypeOK
    <3> QED  BY <3>1 DEF ErrorIsOwed, Pending
  <2> QED  BY <2>1, <2>2
<1> QED  BY <1>9, <1>10, <1>11, <1>12, <1>13, <1>14

-----------------------------------------------------------------------------
(* The thread of a mouse.                                                  *)

LEMMA EndHolds == ASSUME IInv, NEW m \in Mice, End(m) PROVE IInv'
<1> USE DEF IInv
<1>1. /\ thread[m] = "tick" /\ thread' = [thread EXCEPT ![m] = "ended"]
      /\ UNCHANGED <<main, then, mice, created, interrupted, cursor, last, timeout, acc,
                     motion, loose, error>>
  BY DEF End, mainvars, historyvars
<1>2. TypeOK'
  BY <1>1 DEF TypeOK
<1>3. PlacesKnown' /\ Fraction'
  BY <1>1 DEF PlacesKnown, Fraction
<1>4. ListInv'
  <2>1. Loaded' = Loaded
    BY <1>1 DEF Loaded
  <2> QED  BY <1>1, <2>1 DEF ListInv, TypeOK
<1>5. AcceleratedIsLoose'
  BY <1>1, AcceleratedAssumption DEF AcceleratedIsLoose, TypeOK
<1>6. ErrorIsOwed'
  BY <1>1 DEF ErrorIsOwed, Pending, TypeOK
<1> QED  BY <1>2, <1>3, <1>4, <1>5, <1>6

\* Reports move a thread on, and leave what it computes from alone.
LEMMA ReportHolds ==
    ASSUME IInv, NEW m \in Mice, thread[m] \in {"x", "y", "sync"},
           NEW next \in {"tick", "y", "sync"},
           thread' = [thread EXCEPT ![m] = next],
           UNCHANGED <<mainvars, interrupted, cursor, last, timeout, acc, loose>>,
           created' \in BOOLEAN, error' \in [Mice -> Vectors],
           motion' \in [Mice -> Vectors],
           ErrorIsOwed'
    PROVE  IInv'
<1> USE DEF IInv, mainvars
<1>1. TypeOK'
  BY DEF TypeOK
<1>2. PlacesKnown' /\ Fraction'
  BY DEF PlacesKnown, Fraction
<1>3. ListInv'
  <2>1. Loaded' = Loaded
    BY DEF Loaded
  <2> QED  BY <2>1 DEF ListInv, TypeOK
<1>4. AcceleratedIsLoose'
  BY AcceleratedAssumption DEF AcceleratedIsLoose, TypeOK
<1> QED  BY <1>1, <1>2, <1>3, <1>4

\* A report of an axis pays what is pending on it.
LEMMA WriteType ==
    ASSUME TypeOK, NEW m \in Mice, NEW a \in Axes, Write(m, a)
    PROVE  created' \in BOOLEAN /\ error' \in [Mice -> Vectors]
<1>1. CASE created' = FALSE /\ error' = [n \in Mice |-> Zero]
  BY <1>1, ZeroIsVector
<1>2. CASE error' = error /\ created' = created
  BY <1>2 DEF TypeOK
<1>3. CASE /\ error' = [error EXCEPT ![m][a] = @ + Scale * motion[m][a]]
           /\ created' = created
  <2>1. error[m] \in Vectors /\ motion[m] \in Vectors
    BY DEF TypeOK
  <2>2. error[m][a] \in Int /\ motion[m][a] \in Int
    BY <2>1 DEF Vectors
  <2>3. error[m][a] + Scale * motion[m][a] \in Int
    BY <2>2, NumbersAssumption
  <2>4. [error[m] EXCEPT ![a] = error[m][a] + Scale * motion[m][a]] \in Vectors
    BY <2>1, <2>3 DEF Vectors
  <2>5. error' = [error EXCEPT ![m] =
                    [error[m] EXCEPT ![a] = error[m][a] + Scale * motion[m][a]]]
    BY <1>3
  <2>6. error' \in [Mice -> Vectors]
    BY <2>4, <2>5 DEF TypeOK
  <2> QED  BY <1>3, <2>6 DEF TypeOK
<1> QED  BY <1>1, <1>2, <1>3 DEF Write

LEMMA WriteValue ==
    ASSUME TypeOK, NEW m \in Mice, NEW a \in Axes, Write(m, a), created'
    PROVE  /\ created
           /\ \A o \in Mice, b \in Axes :
                 b \notin loose[o] =>
                 error'[o][b] = IF o = m /\ b = a THEN error[m][a] + Scale * motion[m][a]
                                ELSE error[o][b]
<1>1. CASE error' = error /\ a \in loose[m] /\ created
  BY <1>1
<1>2. CASE /\ error' = [error EXCEPT ![m][a] = @ + Scale * motion[m][a]]
           /\ created
  <2>1. \A o \in Mice : error[o] \in Vectors
    BY DEF TypeOK
  <2>2. \A o \in Mice, b \in Axes :
           error'[o][b] = IF o = m /\ b = a THEN error[m][a] + Scale * motion[m][a]
                          ELSE error[o][b]
    BY <1>2, <2>1 DEF TypeOK, Vectors
  <2> QED  BY <1>2, <2>2
<1> QED  BY <1>1, <1>2 DEF Write

LEMMA WriteXHolds == ASSUME IInv, NEW m \in Mice, WriteX(m) PROVE IInv'
<1>1. TypeOK /\ ErrorIsOwed
  BY DEF IInv
<1>2. /\ thread[m] = "x" /\ thread' = [thread EXCEPT ![m] = "y"] /\ motion' = motion
      /\ UNCHANGED <<mainvars, interrupted, cursor, last, timeout, acc, loose>>
      /\ Write(m, "x") /\ "x" \in Axes
  BY DEF WriteX, Axes
<1>3. /\ created' \in BOOLEAN /\ error' \in [Mice -> Vectors]
      /\ motion' \in [Mice -> Vectors]
  BY <1>1, <1>2, WriteType DEF TypeOK
<1>4. ErrorIsOwed'
  <2> SUFFICES ASSUME created', NEW o \in Mice, thread'[o] \in {"tick", "x", "y", "sync"},
                      NEW a \in Axes \ loose'[o]
               PROVE  error'[o][a] = -acc'[o][a] - Pending(o, a)'
    BY DEF ErrorIsOwed
  <2>1. /\ created
        /\ error'[o][a] = IF o = m /\ a = "x" THEN error[m]["x"] + Scale * motion[m]["x"]
                          ELSE error[o][a]
    BY <1>1, <1>2, WriteValue
  <2>2. thread[o] \in {"tick", "x", "y", "sync"} /\ acc' = acc /\ a \in Axes \ loose[o]
    BY <1>1, <1>2 DEF TypeOK
  <2>3. error[o][a] = -acc[o][a] - Pending(o, a)
    BY <1>1, <2>1, <2>2 DEF ErrorIsOwed
  <2>4. acc[o][a] \in Int /\ motion[o][a] \in Int
    BY <1>1 DEF TypeOK, Vectors
  <2>5. CASE o = m /\ a = "x"
    <3>1. Pending(o, a) = Scale * motion[o][a]
      BY <1>2, <2>5 DEF Pending
    <3>2. Pending(o, a)' = 0
      <4>1. thread'[o] = "y"
        BY <1>1, <1>2, <2>5 DEF TypeOK
      <4> QED  BY <2>5, <4>1 DEF Pending
    <3>3. error'[o][a] = error[o][a] + Scale * motion[o][a]
      BY <2>1, <2>5
    <3>4. Scale * motion[o][a] \in Int
      BY <2>4, NumbersAssumption
    <3> QED  BY <2>2, <2>3, <2>4, <3>1, <3>2, <3>3, <3>4
  <2>6. CASE ~(o = m /\ a = "x")
    <3>1. Pending(o, a)' = Pending(o, a)
      BY <1>1, <1>2, <2>6 DEF Pending, Axes, TypeOK
    <3> QED  BY <2>1, <2>2, <2>3, <2>6, <3>1
  <2> QED  BY <2>5, <2>6
<1> QED  BY <1>2, <1>3, <1>4, ReportHolds

LEMMA WriteYHolds == ASSUME IInv, NEW m \in Mice, WriteY(m) PROVE IInv'
<1>1. TypeOK /\ ErrorIsOwed
  BY DEF IInv
<1>2. /\ thread[m] = "y" /\ thread' = [thread EXCEPT ![m] = "sync"] /\ motion' = motion
      /\ UNCHANGED <<mainvars, interrupted, cursor, last, timeout, acc, loose>>
      /\ Write(m, "y") /\ "y" \in Axes
  BY DEF WriteY, Axes
<1>3. /\ created' \in BOOLEAN /\ error' \in [Mice -> Vectors]
      /\ motion' \in [Mice -> Vectors]
  BY <1>1, <1>2, WriteType DEF TypeOK
<1>4. ErrorIsOwed'
  <2> SUFFICES ASSUME created', NEW o \in Mice, thread'[o] \in {"tick", "x", "y", "sync"},
                      NEW a \in Axes \ loose'[o]
               PROVE  error'[o][a] = -acc'[o][a] - Pending(o, a)'
    BY DEF ErrorIsOwed
  <2>1. /\ created
        /\ error'[o][a] = IF o = m /\ a = "y" THEN error[m]["y"] + Scale * motion[m]["y"]
                          ELSE error[o][a]
    BY <1>1, <1>2, WriteValue
  <2>2. thread[o] \in {"tick", "x", "y", "sync"} /\ acc' = acc /\ a \in Axes \ loose[o]
    BY <1>1, <1>2 DEF TypeOK
  <2>3. error[o][a] = -acc[o][a] - Pending(o, a)
    BY <1>1, <2>1, <2>2 DEF ErrorIsOwed
  <2>4. acc[o][a] \in Int /\ motion[o][a] \in Int
    BY <1>1 DEF TypeOK, Vectors
  <2>5. CASE o = m /\ a = "y"
    <3>1. Pending(o, a) = Scale * motion[o][a]
      BY <1>2, <2>5 DEF Pending
    <3>2. Pending(o, a)' = 0
      <4>1. thread'[o] = "sync"
        BY <1>1, <1>2, <2>5 DEF TypeOK
      <4> QED  BY <4>1 DEF Pending
    <3>3. error'[o][a] = error[o][a] + Scale * motion[o][a]
      BY <2>1, <2>5
    <3>4. Scale * motion[o][a] \in Int
      BY <2>4, NumbersAssumption
    <3> QED  BY <2>2, <2>3, <2>4, <3>1, <3>2, <3>3, <3>4
  <2>6. CASE ~(o = m /\ a = "y")
    <3>1. Pending(o, a)' = Pending(o, a)
      BY <1>1, <1>2, <2>6 DEF Pending, Axes, TypeOK
    <3> QED  BY <2>1, <2>2, <2>3, <2>6, <3>1
  <2> QED  BY <2>5, <2>6
<1> QED  BY <1>2, <1>3, <1>4, ReportHolds

LEMMA WriteSyncHolds == ASSUME IInv, NEW m \in Mice, WriteSync(m) PROVE IInv'
<1>1. TypeOK /\ ErrorIsOwed
  BY DEF IInv
<1>2. /\ thread[m] = "sync" /\ thread' = [thread EXCEPT ![m] = "tick"]
      /\ motion' = [motion EXCEPT ![m] = Zero]
      /\ UNCHANGED <<mainvars, interrupted, cursor, last, timeout, acc, loose>>
      /\ \/ UNCHANGED <<created, error>>
         \/ created' = FALSE /\ error' = [n \in Mice |-> Zero]
  BY DEF WriteSync
<1>3. /\ created' \in BOOLEAN /\ error' \in [Mice -> Vectors]
      /\ motion' \in [Mice -> Vectors]
  BY <1>1, <1>2, ZeroIsVector DEF TypeOK
<1>4. ErrorIsOwed'
  <2> SUFFICES ASSUME created', NEW o \in Mice, thread'[o] \in {"tick", "x", "y", "sync"},
                      NEW a \in Axes \ loose'[o]
               PROVE  error'[o][a] = -acc'[o][a] - Pending(o, a)'
    BY DEF ErrorIsOwed
  <2>1. created /\ error' = error /\ acc' = acc /\ loose' = loose
    BY <1>2
  <2>2. thread[o] \in {"tick", "x", "y", "sync"}
    BY <1>1, <1>2 DEF TypeOK
  <2>3. error[o][a] = -acc[o][a] - Pending(o, a)
    BY <1>1, <2>1, <2>2 DEF ErrorIsOwed
  <2>4. Pending(o, a)' = Pending(o, a)
    BY <1>1, <1>2 DEF Pending, TypeOK
  <2> QED  BY <2>1, <2>3, <2>4
<1> QED  BY <1>2, <1>3, <1>4, ReportHolds

\* What a tick computes is an integer.
LEMMA TickTypes ==
    ASSUME TypeOK, NEW m \in Mice, NEW a \in Axes, NEW x \in Int, NEW at \in Places
    PROVE  /\ Accumulated(m, a, x, at) \in Int
           /\ Left(m, a, x, at) \in Int
           /\ -Scale < Left(m, a, x, at) /\ Left(m, a, x, at) < Scale
           /\ Pixels(Shifted(m, a, x, at)) \in Int
<1> DEFINE v == Accumulated(m, a, x, at)
           p == Pixels(x)
<1>1. acc[m][a] \in Int
  BY DEF TypeOK, Vectors
<1>2. p \in Int
  BY PixelsTruncates
<1>3. Boost[at] \in Int
  BY NumbersAssumption
<1>4. Accumulated(m, a, x, at) =
        acc[m][a] + (x - Scale * p)
          + IF m \in Accelerated /\ (at > Deadzone \/ at < -Deadzone) THEN Boost[at] ELSE 0
  BY DEF Accumulated
<1> HIDE DEF p
<1>5. Scale * p \in Int
  BY <1>2, NumbersAssumption
<1>6. Accumulated(m, a, x, at) \in Int
  BY <1>1, <1>3, <1>4, <1>5
<1> HIDE DEF v
<1>7. v \in Int
  BY <1>6 DEF v
<1>8. /\ Pixels(v) \in Int
      /\ v >= 0 => 0 <= v - Scale * Pixels(v) /\ v - Scale * Pixels(v) < Scale
      /\ v <= 0 => -Scale < v - Scale * Pixels(v) /\ v - Scale * Pixels(v) <= 0
  BY <1>7, PixelsTruncates
<1>9. Left(m, a, x, at) = v - Scale * Pixels(v)
  BY DEF Left, v
<1>10. Scale * Pixels(v) \in Int /\ Scale * (-Pixels(v)) \in Int
  BY <1>8, NumbersAssumption
<1>11. /\ Left(m, a, x, at) \in Int
       /\ -Scale < Left(m, a, x, at) /\ Left(m, a, x, at) < Scale
  BY <1>7, <1>8, <1>9, <1>10, NumbersAssumption
<1>12. Shifted(m, a, x, at) \in Int
  <2>1. Shifted(m, a, x, at) = x - Scale * (IF at > 0 THEN Pixels(v) ELSE -Pixels(v))
    BY DEF Shifted, v
  <2> QED  BY <1>10, <2>1
<1>13. Pixels(Shifted(m, a, x, at)) \in Int
  BY <1>12, PixelsTruncates
<1> QED  BY <1>6, <1>11, <1>13

LEMMA PixelsOfNothing == Pixels(0) = 0
<1>1. \A d \in Int : 0 <= 0 - Scale * d /\ 0 - Scale * d < Scale => d = 0
  BY NumbersAssumption
<1> QED  BY <1>1, PixelsTruncates

\* One tick on an axis where the cursor is not right of the centre, without
\* acceleration: what the pointer is owed stays what is left in m_acc.
LEMMA TickOwes ==
    ASSUME TypeOK, NEW m \in Mice, NEW a \in Axes, NEW x \in Int, NEW at \in Places,
           m \notin Accelerated, at <= 0,
           x = 0 \/ (-Scale < acc[m][a] /\ acc[m][a] < Scale)
    PROVE  -acc[m][a] - x = -Left(m, a, x, at) - Scale * Pixels(Shifted(m, a, x, at))
<1> DEFINE e == acc[m][a]
           v == Accumulated(m, a, x, at)
           y == Shifted(m, a, x, at)
<1>1. e \in Int
  BY DEF TypeOK, Vectors
<1>2. v \in Int
  BY TickTypes
<1>3. v = e + (x - Scale * Pixels(x))
  <2>1. v = e + (x - Scale * Pixels(x)) + 0
    BY DEF Accumulated
  <2>2. Pixels(x) \in Int
    BY PixelsTruncates
  <2>3. Scale * Pixels(x) \in Int
    BY <2>2, NumbersAssumption
  <2> HIDE DEF e, v
  <2> QED  BY <1>1, <2>1, <2>3
<1>4. Pixels(v) \in Int
  BY <1>2, PixelsTruncates
<1>5. y = x + Scale * Pixels(v)
  <2>1. at \in Int
    BY ValuesAssumption, ZeroIsVector DEF Places, Vectors
  <2>2. ~(at > 0)
    BY <2>1
  <2>3. y = x - Scale * (-Pixels(v))
    BY <2>2 DEF Shifted
  <2> DEFINE p == Pixels(v)
  <2>4. p \in Int /\ y = x - Scale * (-p)
    BY <1>4, <2>3
  <2> HIDE DEF p, y
  <2>5. Scale * (-p) = -(Scale * p) /\ Scale * p \in Int
    BY <2>4, NumbersAssumption
  <2>6. y = x + Scale * p
    BY <2>4, <2>5
  <2> QED  BY <2>6 DEF p
<1>6. y \in Int
  BY <1>4, <1>5, NumbersAssumption
<1>7. Left(m, a, x, at) = v - Scale * Pixels(v)
  BY DEF Left
<1>8. \A ee, vv, yy \in Int :
         /\ x = 0 \/ (-Scale < ee /\ ee < Scale)
         /\ vv = ee + (x - Scale * Pixels(x))
         /\ yy = x + Scale * Pixels(vv)
         => -ee - x = -(vv - Scale * Pixels(vv)) - Scale * Pixels(yy)
  BY TickIsExact
<1> HIDE DEF e, v, y
<1>9. -e - x = -(v - Scale * Pixels(v)) - Scale * Pixels(y)
  <2>1. x = 0 \/ (-Scale < e /\ e < Scale)
    BY DEF e
  <2> QED  BY <1>1, <1>2, <1>3, <1>5, <1>6, <1>8, <2>1
<1> QED  BY <1>7, <1>9 DEF e, y

LEMMA TickHolds == ASSUME IInv, NEW m \in Mice, Tick(m) PROVE IInv'
<1> USE DEF IInv
<1> DEFINE current == IF cursor[m].valid THEN cursor[m] ELSE last[m]
           delta   == [a \in Axes |-> Before(m, current).at[a] - current.at[a]]
           x       == [a \in Axes |-> Shifted(m, a, delta[a], current.at[a])]
           moved   == [a \in Axes |-> Pixels(x[a])]
           left    == [a \in Axes |-> Left(m, a, delta[a], current.at[a])]
           owed    == [a \in Axes |-> IF a \in loose'[m] \/ ~created THEN 0
                                      ELSE error[m][a] - Led(m, a, current)]
<1>1. /\ thread[m] = "tick"
      /\ timeout' = [timeout EXCEPT ![m] = Count(m, cursor[m].valid)]
      /\ last' = [last EXCEPT ![m] = current]
      /\ loose' = [loose EXCEPT ![m] = loose[m] \cup {a \in Axes : current.at[a] > 0}]
      /\ UNCHANGED <<main, then, mice, created, interrupted, cursor>>
  BY DEF Tick, mainvars
<1>2. \/ timeout'[m] > AccTimeout /\ UNCHANGED <<acc, motion, thread>>
      \/ /\ acc' = [acc EXCEPT ![m] = left] /\ x = Zero
         /\ UNCHANGED <<motion, thread>>
      \/ /\ acc' = [acc EXCEPT ![m] = left]
         /\ motion' = [motion EXCEPT ![m] = moved] /\ thread' = [thread EXCEPT ![m] = "x"]
  BY DEF Tick
<1>3. error' = [error EXCEPT ![m] = owed]
  BY DEF Tick
<1>4. /\ current \in Cursors /\ current.at \in Points \cup {Zero}
      /\ last[m].valid => current.valid
      /\ \A a \in Axes : last[m].at[a] \in Int /\ current.at[a] \in Int
                         /\ current.at[a] \in Places
  <2>1. cursor[m] \in Cursors /\ last[m] \in Cursors
    BY DEF TypeOK
  <2>2. current \in Cursors /\ current.at \in Points \cup {Zero}
    BY <2>1 DEF PlacesKnown
  <2>3. last[m].valid => current.valid
    OBVIOUS
  <2> HIDE DEF current
  <2>4. \A a \in Axes : current.at[a] \in Places
    BY <2>2 DEF Places
  <2>5. \A a \in Axes : last[m].at[a] \in Int /\ current.at[a] \in Int
    BY <2>1, <2>2 DEF Cursors, Vectors
  <2> QED  BY <2>2, <2>3, <2>4, <2>5
<1>5. timeout'[m] > AccTimeout => current = last[m]
  <2>1. cursor[m].valid => timeout'[m] = 0
    BY <1>1 DEF Count, TypeOK
  <2> QED  BY <2>1, NumbersAssumption
<1>6. \A a \in Axes : /\ delta[a] \in Int
                      /\ delta[a] = Led(m, a, current)
                      /\ ~last[m].valid => delta[a] = 0
                      /\ current = last[m] => delta[a] = 0
  <2> HIDE DEF current
  <2>1. ASSUME NEW a \in Axes
        PROVE  /\ delta[a] = Before(m, current).at[a] - current.at[a]
               /\ last[m].at[a] \in Int /\ current.at[a] \in Int
    BY <1>4
  <2>2. ASSUME NEW a \in Axes, last[m].valid
        PROVE  delta[a] \in Int /\ delta[a] = Led(m, a, current)
               /\ (current = last[m] => delta[a] = 0)
    BY <2>1, <2>2 DEF Before, Led
  <2>3. ASSUME NEW a \in Axes, ~last[m].valid
        PROVE  delta[a] \in Int /\ delta[a] = Led(m, a, current) /\ delta[a] = 0
    BY <2>1, <2>3 DEF Before, Led
  <2> QED  BY <2>2, <2>3
<1> HIDE DEF delta
<1>7. \A a \in Axes : /\ Left(m, a, delta[a], current.at[a]) \in Int
                      /\ -Scale < Left(m, a, delta[a], current.at[a])
                      /\ Left(m, a, delta[a], current.at[a]) < Scale
                      /\ Pixels(Shifted(m, a, delta[a], current.at[a])) \in Int
  BY <1>4, <1>6, TickTypes
<1>8. /\ left \in Vectors /\ moved \in Vectors
      /\ \A a \in Axes : /\ left[a] = Left(m, a, delta[a], current.at[a])
                         /\ moved[a] = Pixels(Shifted(m, a, delta[a], current.at[a]))
  BY <1>7 DEF Vectors
<1>9. owed \in Vectors
  <2>1. \A a \in Axes : error[m][a] \in Int
    BY DEF TypeOK, Vectors
  <2>2. \A a \in Axes : error[m][a] - Led(m, a, current) \in Int
    BY <1>6, <2>1
  <2> QED  BY <2>2 DEF Vectors
<1>10. x = Zero => \A a \in Axes : moved[a] = 0
  BY PixelsOfNothing, ZeroIsVector
<1>11. \A a \in Axes \ loose'[m] : a \notin loose[m] /\ ~(current.at[a] > 0)
  BY <1>1 DEF TypeOK
<1>12. /\ loose'[m] \in SUBSET Axes
       /\ \A o \in Mice : loose[o] \subseteq loose'[o]
       /\ m \in Accelerated => loose'[m] = Axes
  BY <1>1 DEF TypeOK, AcceleratedIsLoose
<1>13. last'[m] = current /\ error'[m] = owed
  BY <1>1, <1>3 DEF TypeOK
<1>14. \A a \in Axes \ loose'[m] :
          created => owed[a] = error[m][a] - Led(m, a, current)
  BY <1>12
<1>15. \A o \in Mice : o # m => /\ last'[o] = last[o] /\ acc'[o] = acc[o]
                                /\ motion'[o] = motion[o] /\ thread'[o] = thread[o]
                                /\ loose'[o] = loose[o] /\ error'[o] = error[o]
  BY <1>1, <1>2, <1>3 DEF TypeOK
<1> HIDE DEF current, x, moved, left, owed
<1>16. TypeOK'
  <2>1. timeout' \in [Mice -> Int]
    <3>1. Count(m, cursor[m].valid) \in Int
      BY DEF Count, TypeOK
    <3> QED  BY <1>1, <3>1 DEF TypeOK
  <2>2. last' \in [Mice -> Cursors] /\ loose' \in [Mice -> SUBSET Axes]
    BY <1>1, <1>4, <1>12 DEF TypeOK
  <2>3. error' \in [Mice -> Vectors]
    BY <1>3, <1>9 DEF TypeOK
  <2>4. acc' \in [Mice -> Vectors] /\ motion' \in [Mice -> Vectors]
    <3>1. acc \in [Mice -> Vectors] /\ motion \in [Mice -> Vectors]
      BY DEF TypeOK
    <3>2. acc' = acc \/ acc' = [acc EXCEPT ![m] = left]
      BY <1>2
    <3>3. motion' = motion \/ motion' = [motion EXCEPT ![m] = moved]
      BY <1>2
    <3> HIDE DEF IInv
    <3> QED  BY <1>8, <3>1, <3>2, <3>3
  <2>5. thread' \in [Mice -> {"none", "tick", "x", "y", "sync", "ended"}]
    BY <1>2 DEF TypeOK
  <2> QED  BY <1>1, <2>1, <2>2, <2>3, <2>4, <2>5 DEF TypeOK
<1>17. PlacesKnown'
  BY <1>1, <1>4, <1>13, <1>15 DEF PlacesKnown
<1>18. ListInv'
  <2>1. Loaded' = Loaded /\ m \in Loaded
    BY <1>1 DEF Loaded, ListInv
  <2>2. \A o \in Mice : thread'[o] # "none" => thread[o] # "none"
    BY <1>1, <1>15
  <2> QED  BY <1>1, <1>15, <2>1, <2>2 DEF ListInv
<1>19. Fraction'
  <2> SUFFICES ASSUME NEW o \in Mice, last'[o].valid, NEW a \in Axes \ loose'[o]
               PROVE  -Scale < acc'[o][a] /\ acc'[o][a] < Scale
    BY DEF Fraction
  <2>1. CASE o # m
    BY <1>15, <2>1 DEF Fraction
  <2>2. CASE o = m /\ acc' = [acc EXCEPT ![m] = left]
    <3>1. acc'[o] = left
      BY <2>2 DEF TypeOK
    <3> QED  BY <1>7, <1>8, <3>1
  <2>3. CASE o = m /\ acc' = acc /\ timeout'[m] > AccTimeout
    <3>1. last[m].valid
      BY <1>5, <1>13, <2>3
    <3> QED  BY <1>11, <2>3, <3>1 DEF Fraction
  <2> QED  BY <1>2, <2>1, <2>2, <2>3
<1>20. AcceleratedIsLoose'
  <2>1. \A o \in Mice : thread'[o] # "none" => thread[o] # "none"
    BY <1>1, <1>15
  <2> QED  BY <1>12, <1>15, <2>1, AcceleratedAssumption DEF AcceleratedIsLoose
<1>21. ErrorIsOwed'
  <2> SUFFICES ASSUME created, NEW o \in Mice, thread'[o] \in {"tick", "x", "y", "sync"},
                      NEW a \in Axes \ loose'[o]
               PROVE  error'[o][a] = -acc'[o][a] - Pending(o, a)'
    BY <1>1 DEF ErrorIsOwed
  <2>1. CASE o # m
    <3>1. Pending(o, a)' = Pending(o, a)
      BY <1>15, <2>1 DEF Pending
    <3> QED  BY <1>15, <2>1, <3>1 DEF ErrorIsOwed
  <2>2. CASE o = m
    <3>1. a \notin loose[m] /\ ~(current.at[a] > 0) /\ m \notin Accelerated
      BY <1>11, <1>12, <2>2
    <3>2. Pending(m, a) = 0
      BY <1>1 DEF Pending
    <3>3. acc[m][a] \in Int
      BY DEF TypeOK, Vectors
    <3>4. error[m][a] = -acc[m][a]
      BY <1>1, <3>1, <3>2, <3>3 DEF ErrorIsOwed
    <3>5. error'[m][a] = -acc[m][a] - delta[a]
      BY <1>6, <1>13, <1>14, <2>2, <3>4
    <3>6. CASE timeout'[m] > AccTimeout /\ UNCHANGED <<acc, motion, thread>>
      <4>1. delta[a] = 0
        BY <1>5, <1>6, <3>6
      <4>2. Pending(m, a)' = 0
        BY <1>1, <3>6 DEF Pending
      <4> QED  BY <2>2, <3>3, <3>5, <3>6, <4>1, <4>2
    <3>7. -acc[m][a] - delta[a] = -left[a] - Scale * moved[a]
      <4>1. delta[a] = 0 \/ (-Scale < acc[m][a] /\ acc[m][a] < Scale)
        BY <1>6, <3>1 DEF Fraction
      <4>2. current.at[a] \in Int
        BY <1>4
      <4>3. current.at[a] <= 0
        BY <3>1, <4>2
      <4>4. \A d \in Int, p \in Places :
               p <= 0 /\ (d = 0 \/ (-Scale < acc[m][a] /\ acc[m][a] < Scale))
               => -acc[m][a] - d = -Left(m, a, d, p) - Scale * Pixels(Shifted(m, a, d, p))
        BY <3>1, TickOwes
      <4> QED  BY <1>4, <1>6, <1>8, <4>1, <4>3, <4>4
    <3>8. left[a] \in Int /\ moved[a] \in Int
      BY <1>8 DEF Vectors
    <3>9. CASE /\ acc' = [acc EXCEPT ![m] = left] /\ x = Zero
               /\ UNCHANGED <<motion, thread>>
      <4>1. Pending(m, a)' = 0
        BY <1>1, <3>9 DEF Pending
      <4>2. moved[a] = 0
        BY <1>10, <3>9
      <4>3. acc'[m][a] = left[a]
        BY <3>9 DEF TypeOK
      <4>4. Scale * moved[a] = 0
        BY <4>2, NumbersAssumption
      <4> QED  BY <2>2, <3>5, <3>7, <3>8, <4>1, <4>3, <4>4
    <3>10. CASE /\ acc' = [acc EXCEPT ![m] = left]
                /\ motion' = [motion EXCEPT ![m] = moved]
                /\ thread' = [thread EXCEPT ![m] = "x"]
      <4>1. thread'[m] = "x" /\ motion'[m] = moved /\ acc'[m] = left
        BY <3>10 DEF TypeOK
      <4>2. Pending(m, a)' = Scale * moved[a]
        BY <4>1 DEF Pending
      <4> QED  BY <2>2, <3>5, <3>7, <4>1, <4>2
    <3> QED  BY <1>2, <3>6, <3>9, <3>10
  <2> QED  BY <2>1, <2>2
<1> QED  BY <1>16, <1>17, <1>18, <1>19, <1>20, <1>21

-----------------------------------------------------------------------------

LEMMA StepHolds == ASSUME IInv, [Next]_vars PROVE IInv'
<1>1. CASE Signal
  BY <1>1, SignalHolds
<1>2. CASE \E why \in {"load", "unload", "destroy"} : Clear(why)
  BY <1>2, ClearHolds
<1>3. CASE Main
  BY <1>3, InterruptHolds, JoinHolds, ClearedHolds, StartHolds, StartedHolds DEF Main
<1>4. ASSUME NEW m \in Mice, Thread(m) PROVE IInv'
  BY <1>4, TickHolds, EndHolds, WriteXHolds, WriteYHolds, WriteSyncHolds DEF Thread
<1>5. CASE UNCHANGED vars
  <2>1. UNCHANGED <<main, then, mice, created, interrupted, cursor, thread, last, timeout,
                    acc, motion, loose, error>>
    BY <1>5 DEF vars, mainvars, threadvars, historyvars
  <2> QED
    BY <2>1 DEF IInv, TypeOK, PlacesKnown, ListInv, Loaded, Fraction,
         AcceleratedIsLoose, ErrorIsOwed, Pending
<1> QED  BY <1>1, <1>2, <1>3, <1>4, <1>5 DEF Next

\* The invariant is inductive.
THEOREM Invariance == Spec => []IInv
<1>1. Init => IInv
  BY InitHolds
<1>2. IInv /\ [Next]_vars => IInv'
  BY StepHolds
<1> QED  BY <1>1, <1>2, PTL DEF Spec

\* TypeOK: positions stay vectors of integers, and m_mouses a list of mice.
THEOREM TypeCorrect == Spec => []TypeOK
<1>1. IInv => TypeOK
  BY DEF IInv
<1> QED  BY <1>1, Invariance, PTL

\* A thread ends before its mouse leaves the list (loadInfraredEvents,
\* unloadProfile) and before the manager and its event device go.
THEOREM ThreadsDoNotOutlive == Spec => []DeviceOutlivesThreads
<1>1. IInv => DeviceOutlivesThreads
  <2> SUFFICES ASSUME IInv, NEW m \in Mice, thread[m] # "none"
               PROVE  m \in Loaded /\ main # "gone"
    BY DEF DeviceOutlivesThreads
  <2>1. m \in Loaded
    BY DEF IInv, ListInv
  <2>2. mice # <<>>
    BY <2>1 DEF Loaded
  <2> QED  BY <2>1, <2>2 DEF IInv, ListInv
<1> QED  BY <1>1, Invariance, PTL

\* The pointer is always less than a pixel from where the cursor led it, on an
\* axis where the cursor was not right of the centre: what it lacks is m_acc.
THEOREM PointerFollows == Spec => []PointerFollowsCursor
<1>1. IInv => PointerFollowsCursor
  <2> SUFFICES ASSUME IInv, created, NEW m \in Mice, thread[m] = "tick", last[m].valid,
                      NEW a \in Axes \ loose[m]
               PROVE  Distance(error[m][a]) < Scale
    BY DEF PointerFollowsCursor
  <2>1. Pending(m, a) = 0
    BY DEF Pending
  <2>2. acc[m][a] \in Int
    BY DEF IInv, TypeOK, Vectors
  <2>3. error[m][a] = -acc[m][a]
    BY <2>1, <2>2 DEF IInv, ErrorIsOwed
  <2>4. -Scale < acc[m][a] /\ acc[m][a] < Scale
    BY DEF IInv, Fraction
  <2> QED  BY <2>2, <2>3, <2>4, NumbersAssumption DEF Distance
<1> QED  BY <1>1, Invariance, PTL


-----------------------------------------------------------------------------
(* Why wait() returns.                                                     *)

\* What clearing m_mouses has to go: a mouse is interrupted and joined, and
\* before that its thread writes what it began and returns.
Unloading == main \in {"clear", "wait"}
Ahead(m) ==
    CASE thread[m] = "x" -> 4
      [] thread[m] = "y" -> 3
      [] thread[m] = "sync" -> 2
      [] thread[m] = "tick" -> 1
      [] OTHER -> 0
ToGo == 6 * Len(mice) + (IF main = "wait" THEN Ahead(mice[1]) ELSE 5)

\* A step of the main thread, or of the thread it waits for.
Works == Main \/ (main = "wait" /\ Thread(mice[1]))

\* ~EIOInfraredMouse waits for a thread that runs or has returned, and that
\* was told to: it does not begin another round.
JoinedIsTold ==
    main = "wait" => /\ mice # <<>>
                     /\ thread[mice[1]] # "none"
                     /\ interrupted[mice[1]]

\* Nothing sets an unload back, and what works on it brings it nearer its end.
UnloadShrinks ==
    [][Unloading /\ Unloading' => /\ ToGo' <= ToGo
                                  /\ Works => ToGo' < ToGo]_vars

\* What makes JoinedIsTold inductive: the mice of the list are different ones,
\* and each has its thread.
AllRun ==
    /\ \A n, o \in DOMAIN mice : n # o => mice[n] # mice[o]
    /\ \A n \in DOMAIN mice : thread[mice[n]] # "none"
TInv == AllRun /\ JoinedIsTold

\* A thread starts no other and ends none: only its own place changes, and
\* never to "none".
LEMMA ThreadMoves ==
    ASSUME IInv, NEW m \in Mice, Thread(m)
    PROVE  /\ UNCHANGED <<main, mice, interrupted>>
           /\ \A n \in Mice : thread[n] # "none" => thread'[n] # "none"
           /\ \A n \in Mice : n # m => thread'[n] = thread[n]
<1> USE DEF IInv, TypeOK
<1>1. CASE Tick(m)
  BY <1>1 DEF Tick, mainvars
<1>2. CASE End(m)
  BY <1>2 DEF End, mainvars
<1>3. CASE WriteX(m)
  BY <1>3 DEF WriteX, mainvars
<1>4. CASE WriteY(m)
  BY <1>4 DEF WriteY, mainvars
<1>5. CASE WriteSync(m)
  BY <1>5 DEF WriteSync, mainvars
<1> QED  BY <1>1, <1>2, <1>3, <1>4, <1>5 DEF Thread

LEMMA TInvKept ==
    ASSUME IInv, TInv, [Next]_vars
    PROVE  TInv'
<1> USE DEF TInv, AllRun, JoinedIsTold
<1>1. mice \in Seq(Mice) /\ thread \in [Mice -> {"none", "tick", "x", "y", "sync", "ended"}]
      /\ interrupted \in [Mice -> BOOLEAN]
  BY DEF IInv, TypeOK
<1>2. CASE Signal
  BY <1>2 DEF Signal, CursorLost, CursorPosition, mainvars, threadvars
<1>3. ASSUME NEW why, Clear(why) PROVE TInv'
  BY <1>3 DEF Clear, threadvars
<1>4. CASE Interrupt
  <2>1. mice[1] \in Mice /\ 1 \in DOMAIN mice
    BY <1>1, <1>4 DEF Interrupt
  <2> QED  BY <1>1, <1>4, <2>1 DEF Interrupt, threadvars
<1>5. CASE Join
  <2>1. /\ mice # <<>> /\ main' = "clear" /\ mice' = Tail(mice)
        /\ thread' = [thread EXCEPT ![mice[1]] = "none"]
    BY <1>5 DEF Join
  <2>2. /\ mice' \in Seq(Mice)
        /\ \A n \in DOMAIN mice' : n + 1 \in DOMAIN mice /\ mice'[n] = mice[n + 1] /\ n # 0
    BY <1>1, <2>1
  <2>3. \A n, o \in DOMAIN mice' : n # o => mice'[n] # mice'[o]
    BY <1>1, <2>2
  <2>4. ASSUME NEW n \in DOMAIN mice' PROVE thread'[mice'[n]] # "none"
    <3>1. mice[n + 1] # mice[1] /\ mice[n + 1] \in Mice
      BY <1>1, <2>1, <2>2
    <3> QED  BY <1>1, <2>1, <2>2, <3>1
  <2> QED  BY <2>1, <2>3, <2>4
<1>6. CASE Cleared
  <2>1. main' # "wait" /\ UNCHANGED <<mice, thread>>
    BY <1>6 DEF Cleared, threadvars, IInv, TypeOK
  <2> QED  BY <2>1
<1>7. CASE Start
  <2> DEFINE k == Len(mice) + 1
             m == MouseGroups[k]
  <2>1. /\ main = "start" /\ main' = main /\ mice' = Append(mice, m)
        /\ thread' = [thread EXCEPT ![m] = "tick"]
        /\ Len(mice) < Len(MouseGroups)
    BY <1>7 DEF Start
  <2>2. k \in DOMAIN MouseGroups /\ m \in Mice
        /\ \A n \in DOMAIN mice : n \in DOMAIN MouseGroups /\ mice[n] = MouseGroups[n] /\ n # k
    <3>1. \A n \in DOMAIN mice : mice[n] = MouseGroups[n]
      BY <2>1 DEF IInv, ListInv
    <3> QED  BY <1>1, <2>1, <3>1, MouseGroupsAssumption DEF Mice
  <2>3. \A n \in DOMAIN mice : mice[n] # m /\ mice[n] \in Mice
    BY <1>1, <2>2, MouseGroupsAssumption
  <2>4. DOMAIN mice' = DOMAIN mice \cup {k} /\ mice'[k] = m
        /\ \A n \in DOMAIN mice : mice'[n] = mice[n]
    BY <1>1, <2>1, <2>2
  <2> HIDE DEF m, k
  <2>5. \A n, o \in DOMAIN mice' : n # o => mice'[n] # mice'[o]
    BY <2>3, <2>4
  <2>6. \A n \in DOMAIN mice' : thread'[mice'[n]] # "none"
    BY <1>1, <2>1, <2>2, <2>3, <2>4
  <2> QED  BY <2>1, <2>5, <2>6
<1>8. CASE Started
  BY <1>8 DEF Started, threadvars
<1>9. ASSUME NEW m \in Mice, Thread(m) PROVE TInv'
  <2>1. /\ UNCHANGED <<main, mice, interrupted>>
        /\ \A n \in Mice : thread[n] # "none" => thread'[n] # "none"
    BY <1>9, ThreadMoves
  <2>2. \A n \in DOMAIN mice : mice[n] \in Mice
    BY <1>1
  <2>3. main = "wait" => mice[1] \in Mice
    BY <1>1
  <2> QED  BY <2>1, <2>2, <2>3
<1>10. CASE UNCHANGED vars
  <2>1. UNCHANGED <<main, mice, interrupted, thread>>
    BY <1>10 DEF vars, mainvars, threadvars
  <2> QED  BY <2>1
<1> HIDE DEF TInv, AllRun, JoinedIsTold
<1> QED  BY <1>2, <1>3, <1>4, <1>5, <1>6, <1>7, <1>8, <1>9, <1>10 DEF Next, Main

\* The main thread never waits for a thread that nobody told to return, or for
\* one that was never started: ~EIOInfraredMouse in clearing m_mouses.
THEOREM WaitsForTold == Spec => []JoinedIsTold
<1>1. Init => TInv
  BY DEF Init, TInv, AllRun, JoinedIsTold
<1>2. IInv /\ TInv /\ [Next]_vars => TInv'
  BY TInvKept
<1>3. TInv => JoinedIsTold
  BY DEF TInv
<1> QED  BY <1>1, <1>2, <1>3, Invariance, PTL DEF Spec

LEMMA AheadIsNat == ASSUME NEW m PROVE Ahead(m) \in 0..4
BY DEF Ahead

\* The thread that is waited for only comes nearer its end.
LEMMA ToldThreadEnds ==
    ASSUME IInv, NEW m \in Mice, interrupted[m], Thread(m)
    PROVE  Ahead(m)' < Ahead(m)
<1>1. thread \in [Mice -> {"none", "tick", "x", "y", "sync", "ended"}]
  BY DEF IInv, TypeOK
<1>2. \/ thread[m] = "tick" /\ thread'[m] = "ended"
      \/ thread[m] = "x" /\ thread'[m] = "y"
      \/ thread[m] = "y" /\ thread'[m] = "sync"
      \/ thread[m] = "sync" /\ thread'[m] = "tick"
  BY <1>1 DEF Thread, Tick, End, WriteX, WriteY, WriteSync
<1> QED  BY <1>2 DEF Ahead

\* A step of a thread is none of the main thread while an unload is under way.
LEMMA ThreadIsNotMain ==
    ASSUME IInv, main \in {"clear", "wait"}, NEW m \in Mice, Thread(m), main' = main
    PROVE  ~Main
BY DEF Main, Interrupt, Join, Cleared, Start, Started, IInv, TypeOK

\* Replacing a profile, unloading it and ending the program need at most six
\* steps for each mouse and five more, whatever the threads are at
\* (loadInfraredEvents, unloadProfile, ~UInputProfileManager).
THEOREM UnloadTerminates == Spec => UnloadShrinks
<1> DEFINE Shrinks == Unloading /\ Unloading' => /\ ToGo' <= ToGo
                                                 /\ Works => ToGo' < ToGo
<1>1. IInv /\ TInv /\ [Next]_vars => [Shrinks]_vars
  <2> SUFFICES ASSUME IInv, TInv, Next, Unloading, Unloading'
               PROVE  ToGo' <= ToGo /\ (Works => ToGo' < ToGo)
    OBVIOUS
  <2>1. mice \in Seq(Mice) /\ Len(mice) \in Nat
    BY DEF IInv, TypeOK
  <2>2. main = "wait" => mice # <<>> /\ interrupted[mice[1]] /\ mice[1] \in Mice
    BY <2>1 DEF TInv, JoinedIsTold
  <2>3. main \in {"clear", "wait"} /\ main' \in {"clear", "wait"}
    BY DEF Unloading
  <2>4. CASE Interrupt
    <3>1. main = "clear" /\ main' = "wait" /\ mice' = mice
      BY <2>4 DEF Interrupt
    <3>2. ToGo = 6 * Len(mice) + 5 /\ ToGo' = 6 * Len(mice) + Ahead(mice[1])'
      BY <3>1 DEF ToGo
    <3>3. Ahead(mice[1])' \in 0..4
      BY DEF Ahead
    <3> QED  BY <2>1, <3>2, <3>3
  <2>5. CASE Join
    <3>1. main = "wait" /\ main' = "clear" /\ mice' = Tail(mice)
      BY <2>5 DEF Join
    <3>2. ToGo = 6 * Len(mice) + Ahead(mice[1]) /\ ToGo' = 6 * Len(mice') + 5
      BY <3>1 DEF ToGo
    <3>3. Len(mice') = Len(mice) - 1
      BY <2>1, <2>2, <3>1
    <3>4. Ahead(mice[1]) \in 0..4
      BY AheadIsNat
    <3> QED  BY <2>1, <3>2, <3>3, <3>4
  <2>6. ASSUME NEW m \in Mice, Thread(m) PROVE ToGo' <= ToGo /\ (Works => ToGo' < ToGo)
    <3>1. /\ main' = main /\ mice' = mice
          /\ \A n \in Mice : n # m => thread'[n] = thread[n]
      BY <2>6, ThreadMoves
    <3>2. CASE main = "clear"
      <4>1. ToGo = 6 * Len(mice) + 5 /\ ToGo' = ToGo
        BY <3>1, <3>2 DEF ToGo
      <4>2. ~Main
        BY <3>1, <3>2, <2>6, ThreadIsNotMain
      <4> QED  BY <2>1, <3>2, <4>1, <4>2 DEF Works
    <3>3. CASE main = "wait"
      <4>1. ToGo = 6 * Len(mice) + Ahead(mice[1]) /\ ToGo' = 6 * Len(mice) + Ahead(mice[1])'
        BY <3>1, <3>3 DEF ToGo
      <4>2. Ahead(mice[1]) \in 0..4 /\ Ahead(mice[1])' \in 0..4
        BY DEF Ahead
      <4>3. CASE m = mice[1]
        <5>1. Ahead(mice[1])' < Ahead(mice[1])
          BY <2>2, <2>6, <3>1, <3>3, <4>3, ToldThreadEnds DEF Ahead
        <5> QED  BY <2>1, <4>1, <4>2, <5>1
      <4>4. CASE m # mice[1]
        <5>1. thread'[mice[1]] = thread[mice[1]]
          BY <2>2, <3>1, <3>3, <4>4
        <5>2. Ahead(mice[1])' = Ahead(mice[1])
          BY <3>1, <5>1 DEF Ahead
        <5>3. ~Works
          BY <2>2, <2>6, <3>1, <3>3, <5>1, ThreadIsNotMain, ToldThreadEnds DEF Works, Ahead
        <5> QED  BY <2>1, <4>1, <4>2, <5>2, <5>3
      <4> QED  BY <4>3, <4>4
    <3> QED  BY <2>3, <3>2, <3>3
  <2>7. ~Signal /\ (\A why : ~Clear(why)) /\ ~Start /\ ~Started /\ ~Cleared
    <3>1. main # "idle" /\ main # "start"
      BY <2>3
    <3>2. ~Cleared
      BY <2>3 DEF Cleared, IInv, TypeOK
    <3> QED  BY <3>1, <3>2 DEF Signal, CursorLost, CursorPosition, Clear, Start, Started
  <2> QED  BY <2>4, <2>5, <2>6, <2>7 DEF Next, Main
<1>2. Init => TInv
  BY DEF Init, TInv, AllRun, JoinedIsTold
<1>3. IInv /\ TInv /\ [Next]_vars => TInv'
  BY TInvKept
<1> QED  BY <1>1, <1>2, <1>3, Invariance, PTL DEF Spec, UnloadShrinks
=============================================================================
