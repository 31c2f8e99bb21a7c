---------------------------- MODULE Gamepad_proofs ----------------------------
(***************************************************************************)
(* Gamepads of any profiles, any number of which are loaded: who owns a    *)
(* descriptor, what a working gamepad shows, and that its readers see      *)
(* whole frames only, whatever fails.                                      *)
(***************************************************************************)
EXTENDS Gamepad, SequenceTheorems, WellFoundedInduction, TLAPS

Held == ToSet(gamepads)

\* The gamepad that is being set up is not in m_gamepads yet.
InSetup(p) == calls # <<>> /\ calls[1].op = "setup" /\ phase # "begin" /\ p = pad

\* The gamepad whose report is under way.
InReport(p) == calls # <<>> /\ phase \in {"axes", "sync"} /\ p = pad

\* How far a call can be.
PhasesOf(op) ==
    CASE op = "setup" -> {"begin", "configure", "create", "keep"}
      [] op = "delete" -> {"begin"}
      [] op = "buttons" -> {"begin", "axes", "sync"}
      [] OTHER -> {"begin", "sync"}

\* A handler makes calls of one kind, each gamepad is set up or deleted once,
\* and all but set-up is for the gamepads in the lists.
CallsOK ==
    /\ calls = <<>> => phase = "begin"
    /\ calls # <<>> => phase \in PhasesOf(calls[1].op)
    /\ \A i, j \in DOMAIN calls :
         /\ calls[i].op = calls[j].op
         /\ calls[i].op \in {"setup", "delete"} /\ i # j => calls[i].pad # calls[j].pad
    /\ \A i \in DOMAIN calls :
         IF calls[i].op = "setup"
         THEN calls[i].pad \notin Held /\ calls[i].pad[1] \in profiles
         ELSE calls[i].pad \in Held

\* No gamepad is in the lists twice, and those in the lists are of loaded
\* profiles or about to be deleted.
ListsOK ==
    /\ \A i, j \in DOMAIN gamepads : gamepads[i] = gamepads[j] => i = j
    /\ \A p \in Held :
         \/ p[1] \in profiles
         \/ \E i \in DOMAIN calls : calls[i].op = "delete" /\ calls[i].pad = p

\* Who has a descriptor and an event device.
Owned ==
    \A p \in Pads :
        IF InSetup(p)
        THEN /\ p \in DOMAIN view <=> created[p]
             /\ created[p] => fd[p] /\ view[p] = J!Neutral
             /\ phase \in {"configure", "create"} => ~created[p]
             /\ valid => fd[p]
             /\ valid /\ phase = "keep" => created[p]
        ELSE /\ fd[p] <=> p \in Held
             /\ p \in DOMAIN view <=> p \in Held
             /\ created[p] => p \in Held

\* A gamepad that is not in the lists has the first values of its members.
Fresh == \A p \in Pads \ Held : frame[p] = J!Neutral /\ told[p] = {}

\* What a report that is under way has written, and what readers saw before.
Pressed(p, keys) ==
    [keys |-> keys \cap Keys(p),
     axes |-> IF "Dpad" \in Sticks(p)
              THEN [view[p].axes EXCEPT !["Dpad"] = J!HatOf(keys \cap Keys(p))]
              ELSE view[p].axes]

Moved(p, s, position) ==
    [keys |-> view[p].keys,
     axes |-> IF s \in Sticks(p) THEN [view[p].axes EXCEPT ![s] = position]
                                 ELSE view[p].axes]

Written(p) ==
    IF calls[1].op = "buttons"
    THEN IF phase = "axes"
         THEN frame[p] = [keys |-> calls[1].keys \cap Keys(p), axes |-> view[p].axes]
         ELSE frame[p] = Pressed(p, calls[1].keys)
    ELSE \E s \in AllSticks \ {"Dpad"}, position \in Axis \X Axis :
            frame[p] = Moved(p, s, position)

\* Of the gamepads that work: kernel and readers agree between two reports,
\* and on the last mask unless it is still to be written.
FramesOK ==
    \A p \in Held : created[p] =>
        /\ IF InReport(p) THEN Written(p) ELSE frame[p] = view[p]
        /\ \/ view[p].keys = told[p] \cap Keys(p)
           \/ \E i \in DOMAIN calls : calls[i].op = "buttons" /\ calls[i].pad = p
MasksOK ==
    \A i \in DOMAIN calls :
        calls[i].op = "buttons" => calls[i].keys = told[calls[i].pad]

IInv ==
    TypeOK /\ CallsOK /\ ListsOK /\ Owned /\ Fresh /\ FramesOK /\ MasksOK

-----------------------------------------------------------------------------
(* Induction, and what Kept computes.                                      *)

LEMMA NatSetInduction ==
    ASSUME NEW S, 0 \in S, \A n \in Nat : n \in S => n + 1 \in S
    PROVE  Nat \subseteq S
<1> DEFINE Less == {mn \in Nat \X Nat : mn[1] < mn[2]}
           T == Nat \ S
<1>1. IsWellFoundedOn(Less, Nat)
  BY NatLessThanWellFounded DEF OpToRel
<1>2. SUFFICES ASSUME T # {} PROVE FALSE
  OBVIOUS
<1> HIDE DEF Less
<1>3. \E n \in T : \A m \in T : <<m, n>> \notin Less
  <2>1. T \subseteq Nat  OBVIOUS
  <2> HIDE DEF T
  <2> QED  BY <1>1, <1>2, <2>1, WFMin, Zenon
<1>4. PICK n \in T : \A m \in T : ~(m < n)
  BY <1>3 DEF Less
<1>5. n # 0 /\ n - 1 \in Nat
  BY <1>4
<1> QED  BY <1>4, <1>5

KeptUpTo(kept, s, S, m) ==
    kept = [n \in 0 .. m |->
              IF n = 0 THEN <<>>
              ELSE IF s[n] \in S THEN Append(kept[n - 1], s[n])
              ELSE kept[n - 1]]

\* The recursion has a solution for every number of members.
LEMMA KeptExists ==
    ASSUME NEW s, NEW S, NEW m \in Nat
    PROVE  \E kept : KeptUpTo(kept, s, S, m)
<1> DEFINE Good == {n \in Nat : \E kept : KeptUpTo(kept, s, S, n)}
<1>1. 0 \in Good
  <2>1. KeptUpTo([n \in 0 .. 0 |-> <<>>], s, S, 0)
    BY DEF KeptUpTo
  <2> QED  BY <2>1
<1>2. ASSUME NEW n \in Nat, n \in Good  PROVE n + 1 \in Good
  <2>1. PICK k : KeptUpTo(k, s, S, n)
    BY <1>2
  <2> DEFINE Next1(i) == IF s[i] \in S THEN Append(k[i - 1], s[i]) ELSE k[i - 1]
             h == [i \in 0 .. n + 1 |-> IF i <= n THEN k[i] ELSE Next1(i)]
  <2>2. \A i \in 0 .. n : k[i] = IF i = 0 THEN <<>> ELSE Next1(i)
    BY <2>1 DEF KeptUpTo
  <2>3. \A i \in 0 .. n + 1 : h[i] = IF i = 0 THEN <<>> ELSE Next1(i)
    <3> TAKE i \in 0 .. n + 1
    <3>1. CASE i <= n
      <4>1. h[i] = k[i]  BY <3>1
      <4> HIDE DEF h, Next1
      <4> QED  BY <2>2, <3>1, <4>1
    <3>2. CASE i = n + 1
      <4>1. h[i] = Next1(i) /\ i # 0  BY <3>2
      <4> HIDE DEF h, Next1
      <4> QED  BY <4>1
    <3> QED  BY <3>1, <3>2
  <2>4. \A i \in 1 .. n + 1 : i - 1 \in 0 .. n /\ h[i - 1] = k[i - 1]
    OBVIOUS
  <2>5. h = [i \in 0 .. n + 1 |-> h[i]]
    OBVIOUS
  <2> HIDE DEF h
  <2>6. KeptUpTo(h, s, S, n + 1)
    <3>1. \A i \in 0 .. n + 1 :
            h[i] = IF i = 0 THEN <<>>
                   ELSE IF s[i] \in S THEN Append(h[i - 1], s[i]) ELSE h[i - 1]
      <4> TAKE i \in 0 .. n + 1
      <4>1. i = 0 \/ i \in 1 .. n + 1  OBVIOUS
      <4> QED  BY <2>3, <2>4, <4>1
    <3> QED  BY <2>5, <3>1 DEF KeptUpTo
  <2> QED  BY <2>6
<1> HIDE DEF Good
<1>3. m \in Good  BY <1>1, <1>2, NatSetInduction
<1> QED  BY <1>3 DEF Good

LEMMA AppendMembers ==
    ASSUME NEW X, NEW s \in Seq(X), NEW e \in X
    PROVE  ToSet(Append(s, e)) = ToSet(s) \cup {e}
<1>1. DOMAIN Append(s, e) = 1 .. Len(s) + 1 /\ DOMAIN s = 1 .. Len(s)
  OBVIOUS
<1>2. \A i \in 1 .. Len(s) : Append(s, e)[i] = s[i]
  OBVIOUS
<1>3. Append(s, e)[Len(s) + 1] = e /\ Len(s) \in Nat
  OBVIOUS
<1>4. 1 .. Len(s) + 1 = 1 .. Len(s) \cup {Len(s) + 1}
  BY <1>3
<1> QED  BY <1>1, <1>2, <1>3, <1>4, Zenon DEF ToSet

\* Kept loses and adds nobody, and names nobody twice.
LEMMA KeptMembers ==
    ASSUME NEW X, NEW s \in Seq(X), NEW S
    PROVE  /\ Kept(s, S) \in Seq(X)
           /\ ToSet(Kept(s, S)) = ToSet(s) \cap S
           /\ (\A i, j \in DOMAIN s : s[i] = s[j] => i = j) =>
                 \A i, j \in DOMAIN Kept(s, S) :
                     Kept(s, S)[i] = Kept(s, S)[j] => i = j
<1> DEFINE Injective(t) == \A i, j \in DOMAIN t : t[i] = t[j] => i = j
           Seen(n) == {s[i] : i \in 1 .. n}
<1>1. PICK k : KeptUpTo(k, s, S, Len(s)) /\ Kept(s, S) = k[Len(s)]
  <2>1. \E k : KeptUpTo(k, s, S, Len(s))
    <3>1. Len(s) \in Nat  OBVIOUS
    <3> HIDE DEF Injective, Seen
    <3> QED  BY <3>1, KeptExists
  <2> QED  BY <2>1 DEF Kept, KeptUpTo
<1> DEFINE Good == {n \in Nat : n <= Len(s) =>
                      /\ k[n] \in Seq(X)
                      /\ ToSet(k[n]) = Seen(n) \cap S
                      /\ Injective(s) => Injective(k[n])}
<1>2. 0 \in Good
  <2>1. k[0] = <<>>
    BY <1>1 DEF KeptUpTo
  <2>2. k[0] \in Seq(X) /\ ToSet(k[0]) = {} /\ Seen(0) = {} /\ Injective(k[0])
    BY <2>1 DEF ToSet
  <2> QED  BY <2>2
<1>3. ASSUME NEW n \in Nat, n \in Good  PROVE n + 1 \in Good
  <2> SUFFICES ASSUME n + 1 <= Len(s)
               PROVE  /\ k[n + 1] \in Seq(X)
                      /\ ToSet(k[n + 1]) = Seen(n + 1) \cap S
                      /\ Injective(s) => Injective(k[n + 1])
    OBVIOUS
  <2>1. /\ k[n] \in Seq(X)
        /\ ToSet(k[n]) = Seen(n) \cap S
        /\ Injective(s) => Injective(k[n])
    BY <1>3
  <2>2. k[n + 1] = IF s[n + 1] \in S THEN Append(k[n], s[n + 1]) ELSE k[n]
    <3> DEFINE Turn(i) ==
                 IF i = 0 THEN <<>>
                 ELSE IF s[i] \in S THEN Append(k[i - 1], s[i]) ELSE k[i - 1]
    <3>1. n + 1 \in 0 .. Len(s) /\ n + 1 # 0 /\ n + 1 - 1 = n  OBVIOUS
    <3>2. k = [i \in 0 .. Len(s) |-> Turn(i)]
      BY <1>1 DEF KeptUpTo
    <3>3. k[n + 1] = Turn(n + 1)
      <4> HIDE DEF Turn
      <4> QED  BY <3>1, <3>2
    <3> QED  BY <3>1, <3>3
  <2>3. Seen(n + 1) = Seen(n) \cup {s[n + 1]} /\ s[n + 1] \in X
    OBVIOUS
  <2>4. CASE s[n + 1] \notin S
    BY <2>1, <2>2, <2>3, <2>4
  <2>5. CASE s[n + 1] \in S
    <3>1. k[n + 1] = Append(k[n], s[n + 1]) /\ Len(k[n + 1]) = Len(k[n]) + 1
      BY <2>1, <2>2, <2>3, <2>5, AppendProperties
    <3>2. /\ \A i \in 1 .. Len(k[n]) : k[n + 1][i] = k[n][i]
          /\ k[n + 1][Len(k[n]) + 1] = s[n + 1]
          /\ k[n + 1] \in Seq(X)
      BY <2>1, <2>3, <3>1, AppendProperties
    <3>3. ToSet(k[n + 1]) = ToSet(k[n]) \cup {s[n + 1]}
      BY <2>1, <2>3, <3>1, AppendMembers
    <3>4. ASSUME Injective(s)  PROVE Injective(k[n + 1])
      <4>1. \A i \in 1 .. n : s[i] # s[n + 1]
        BY <3>4
      <4>2. s[n + 1] \notin ToSet(k[n])
        BY <2>1, <4>1
      <4>3. \A i \in 1 .. Len(k[n]) : k[n][i] # s[n + 1]
        BY <2>1, <4>2 DEF ToSet
      <4> QED  BY <2>1, <3>1, <3>2, <3>4, <4>3
    <3> QED  BY <2>1, <2>3, <2>5, <3>2, <3>3, <3>4
  <2> QED  BY <2>4, <2>5
<1> HIDE DEF Good
<1>4. Len(s) \in Good
  BY <1>2, <1>3, NatSetInduction
<1>5. Seen(Len(s)) = ToSet(s)
  BY DEF ToSet
<1> QED  BY <1>1, <1>4, <1>5 DEF Good

-----------------------------------------------------------------------------
(* The values that are written.                                            *)

Frame == [keys : SUBSET AllKeys, axes : [AllSticks -> Axis \X Axis]]

LEMMA PadTypes ==
    ASSUME NEW p \in Pads
    PROVE  /\ p[1] \in Profiles
           /\ Group(p) \in [type : Types, id : Nat, snowboard : BOOLEAN]
           /\ Keys(p) \subseteq AllKeys
           /\ Sticks(p) \subseteq AllSticks
<1>0. PICK pr \in Profiles : p \in PadsOf(pr)
  BY DEF Pads
<1>1. PICK g \in DOMAIN Config[pr[1]] : p = <<pr, g>>
  BY <1>0 DEF PadsOf
<1>2. pr[1] \in Files
  BY DEF Profiles
<1>3. Config[pr[1]][g] \in [type : Types, id : Nat, snowboard : BOOLEAN]
  <2> DEFINE R == [type : Types, id : Nat, snowboard : BOOLEAN]
  <2>1. Config[pr[1]] \in Seq(R)
    BY <1>2, ConfigAssumption
  <2> HIDE DEF R
  <2>2. Config[pr[1]][g] \in R
    BY <2>1
  <2> QED  BY <2>2 DEF R
<1>4. Group(p) = Config[pr[1]][g] /\ p[1] = pr
  BY <1>1 DEF Group
<1>5. Keys(p) \subseteq AllKeys
  BY DEF Keys, KeysOf, AllKeys
<1>6. Sticks(p) \subseteq AllSticks
  BY DEF Sticks, AllSticks
<1> QED  BY <1>3, <1>4, <1>5, <1>6

LEMMA NeutralType == J!Neutral \in Frame /\ J!Neutral.keys = {}
<1>1. 0 \in Axis
  BY StickMaxAssumption DEF Axis, StickMin
<1>2. [s \in J!AllSticks |-> <<0, 0>>] \in [AllSticks -> Axis \X Axis]
  BY <1>1 DEF AllSticks, J!AllSticks
<1> QED  BY <1>2 DEF J!Neutral, Frame

\* Whatever a signal says, the axes stay in their range.
LEMMA ValuesAreClamped ==
    ASSUME NEW s \in AllSticks, NEW x \in Int, NEW y \in Int
    PROVE  SetValue(s, x, y) \in Axis \X Axis
BY StickMaxAssumption DEF SetValue, Clamp, Axis, StickMin

LEMMA ClampedAngles ==
    ASSUME NEW x \in Int
    PROVE  Clamp(StickMin, StickMax, x) \in Axis
BY StickMaxAssumption DEF Clamp, Axis, StickMin

\* Inverting the y axis twice gives the hat of the keys.
LEMMA HatFollowsKeys ==
    ASSUME NEW on
    PROVE  SetValue("Dpad",
                    IF "RIGHT" \in on THEN 1 ELSE IF "LEFT" \in on THEN -1 ELSE 0,
                    IF "DOWN" \in on THEN -1 ELSE IF "UP" \in on THEN 1 ELSE 0)
           = J!HatOf(on)
BY DEF SetValue, Clamp, J!HatOf

\* The position of a player is between the ends of the stick's range, so
\* that only the inversion of the lower end needs the clamping.
THEOREM LeanInRange ==
    ASSUME NEW x \in Nat \ {0}, NEW y \in Nat \ {0}
    PROVE  Lean(x, y) \in Axis
<1> DEFINE a == Lesser(x, 2 * y) - y
           b == Lesser(y, 2 * x) - x
<1>1. ASSUME NEW m \in Nat, NEW n \in Nat, NEW d \in Nat \ {0}, n <= d
      PROVE  (n * m) \div d \in 0 .. m
  <2>1. n * m \in Nat /\ n * m <= d * m
    BY <1>1
  <2> QED  BY <2>1
<1>2. CASE x >= y
  <2>1. a \in Nat /\ a <= y
    BY <1>2 DEF Lesser
  <2>2. (a * StickMax) \div y \in 0 .. StickMax
    BY <1>1, <2>1, StickMaxAssumption
  <2> QED  BY <1>2, <2>2, StickMaxAssumption DEF Lean, Axis, StickMin
<1>3. CASE x < y
  <2>1. b \in Nat /\ b <= x
    BY <1>3 DEF Lesser
  <2>2. (b * (-StickMin)) \div x \in 0 .. -StickMin
    BY <1>1, <2>1, StickMaxAssumption DEF StickMin
  <2> QED  BY <1>3, <2>2, StickMaxAssumption DEF Lean, Axis, StickMin
<1> QED  BY <1>2, <1>3

-----------------------------------------------------------------------------
(* Every step keeps IInv.                                                  *)

LEMMA FirstCall ==
    ASSUME TypeOK, calls # <<>>
    PROVE  /\ calls[1] \in Call /\ pad \in Pads
           /\ 1 \in DOMAIN calls
           /\ Len(Tail(calls)) = Len(calls) - 1 /\ Tail(calls) \in Seq(Call)
           /\ \A i \in DOMAIN Tail(calls) :
                 i + 1 \in DOMAIN calls /\ Tail(calls)[i] = calls[i + 1]
           /\ \A i \in DOMAIN calls : i = 1 \/ i - 1 \in DOMAIN Tail(calls)
<1>1. calls \in Seq(Call) /\ Len(calls) >= 1
  BY DEF TypeOK
<1>2. calls[1] \in Call /\ 1 \in DOMAIN calls
  BY <1>1
<1>3. pad \in Pads
  BY <1>2 DEF Call, pad
<1> QED  BY <1>1, <1>2, <1>3

LEMMA InitIInv == Init => IInv
<1> SUFFICES ASSUME Init PROVE IInv
  OBVIOUS
<1> USE DEF Init
<1>1. Held = {}
  BY DEF Held, ToSet
<1>2. TypeOK
  <2>1. 0 \in Axis
    BY StickMaxAssumption DEF Axis, StickMin
  <2>2. J!Neutral \in [keys : SUBSET AllKeys, axes : [AllSticks -> Axis \X Axis]]
    BY NeutralType DEF Frame
  <2>3. angles \in [{"x", "z"} -> Axis]
    BY <2>1
  <2> QED  BY <2>2, <2>3 DEF TypeOK
<1>3. CallsOK /\ ListsOK /\ MasksOK
  BY <1>1 DEF CallsOK, ListsOK, MasksOK
<1>4. Owned /\ Fresh /\ FramesOK
  BY <1>1 DEF Owned, Fresh, FramesOK, InSetup
<1> QED  BY <1>2, <1>3, <1>4 DEF IInv

\* A signal makes calls for gamepads in the lists, and a new mask is on its
\* way to every gamepad for which it was signalled.
LEMMA SignalStarts ==
    ASSUME IInv, Idle, UNCHANGED <<profiles, gamepads, device, angles, phase, valid>>,
           NEW op \in {"buttons", "stick", "gyro"},
           calls' \in Seq(Call),
           \A i \in DOMAIN calls' : calls'[i].op = op /\ calls'[i].pad \in Held,
           told' \in [Pads -> SUBSET Inputs],
           \A p \in Pads \ Held : told'[p] = told[p],
           \A p \in Held : told'[p] = told[p] \/ ~created[p] \/
               \E i \in DOMAIN calls' : calls'[i].op = "buttons" /\ calls'[i].pad = p,
           \A i \in DOMAIN calls' :
               calls'[i].op = "buttons" => calls'[i].keys = told'[calls'[i].pad]
    PROVE  IInv'
<1> USE DEF IInv, Idle, device
<1>1. Held' = Held
  BY DEF Held
<1>2. TypeOK'
  BY DEF TypeOK
<1>3. phase = "begin"
  BY DEF CallsOK
<1>4. calls' # <<>> => 1 \in DOMAIN calls'
  OBVIOUS
<1>5. CallsOK'
  BY <1>1, <1>3, <1>4 DEF CallsOK, PhasesOf
<1>6. ListsOK'
  BY <1>1 DEF ListsOK
<1>7. \A p : ~InSetup(p) /\ ~InSetup(p)' /\ ~InReport(p) /\ ~InReport(p)'
  BY <1>3 DEF InSetup, InReport
<1>8. Owned' /\ Fresh' /\ MasksOK'
  BY <1>1, <1>7 DEF Owned, Fresh, MasksOK
<1>9. FramesOK'
  BY <1>1, <1>7 DEF FramesOK
<1> QED  BY <1>2, <1>5, <1>6, <1>8, <1>9

LEMMA LoadKeepsIInv == IInv /\ Load => IInv'
<1> SUFFICES ASSUME IInv, Load PROVE IInv'
  OBVIOUS
<1> USE DEF IInv, device
<1>1. PICK f \in Files, n \in 1 .. MaxLoads :
        /\ <<f, n>> \notin profiles
        /\ profiles' = profiles \cup {<<f, n>>}
        /\ calls' = [g \in DOMAIN Config[f] |->
                        [op |-> "setup", pad |-> <<<<f, n>>, g>>]]
  BY DEF Load
<1>2. calls = <<>> /\ UNCHANGED <<gamepads, fd, created, frame, view, angles, phase, valid, told>>
  BY DEF Load, Idle
<1>3. <<f, n>> \in Profiles /\ DOMAIN Config[f] = 1 .. Len(Config[f]) /\ Len(Config[f]) \in Nat
  BY ConfigAssumption DEF Profiles
<1>4. \A g \in DOMAIN Config[f] : <<<<f, n>>, g>> \in Pads
  BY <1>3 DEF Pads, PadsOf
<1>5. \A g \in DOMAIN calls' :
        /\ calls'[g] = [op |-> "setup", pad |-> <<<<f, n>>, g>>]
        /\ calls'[g] \in Call
  BY <1>1, <1>4 DEF Call
<1>6. calls' \in Seq(Call)
  BY <1>1, <1>3, <1>5
<1>7. Held' = Held /\ phase = "begin"
  BY <1>2 DEF Held, CallsOK
<1>8. TypeOK'
  BY <1>1, <1>2, <1>3, <1>6 DEF TypeOK
<1>9. \A p \in Held : p[1] \in profiles
  BY <1>2 DEF ListsOK
<1>10. CallsOK'
  <2>1. \A g \in DOMAIN calls' : calls'[g].pad[1] = <<f, n>>
    BY <1>5
  <2>2. \A i, j \in DOMAIN calls' : calls'[i].pad = calls'[j].pad => i = j
    BY <1>5
  <2>3. \A g \in DOMAIN calls' : calls'[g].pad \notin Held' /\ calls'[g].pad[1] \in profiles'
    BY <1>1, <1>7, <1>9, <2>1
  <2>4. \A i \in DOMAIN calls' : calls'[i].op = "setup"
    BY <1>5
  <2>5. calls' # <<>> => 1 \in DOMAIN calls'
    BY <1>6
  <2> QED  BY <1>2, <1>7, <2>2, <2>3, <2>4, <2>5 DEF CallsOK, PhasesOf
<1>11. ListsOK'
  BY <1>1, <1>2, <1>7, <1>9 DEF ListsOK
<1>12. \A p : ~InSetup(p) /\ ~InSetup(p)' /\ ~InReport(p) /\ ~InReport(p)'
  BY <1>2, <1>7 DEF InSetup, InReport
<1>13. Owned' /\ Fresh' /\ FramesOK'
  BY <1>2, <1>7, <1>12 DEF Owned, Fresh, FramesOK
<1>14. MasksOK'
  BY <1>5 DEF MasksOK
<1> QED  BY <1>8, <1>10, <1>11, <1>13, <1>14

LEMMA UnloadKeepsIInv == IInv /\ Unload => IInv'
<1> SUFFICES ASSUME IInv, Unload PROVE IInv'
  OBVIOUS
<1> USE DEF IInv, device
<1>1. PICK f \in Files :
        LET leaving == Kept(gamepads, {p \in Pads : p[1][1] = f})
        IN  /\ profiles' = {pr \in profiles : pr[1] # f}
            /\ calls' = [i \in DOMAIN leaving |-> [op |-> "delete", pad |-> leaving[i]]]
  BY DEF Unload
<1> DEFINE leaving == Kept(gamepads, {p \in Pads : p[1][1] = f})
<1>2. calls = <<>> /\ UNCHANGED <<gamepads, fd, created, frame, view, angles, phase, valid, told>>
  BY DEF Unload, Idle
<1>3. gamepads \in Seq(Pads) /\ \A i, j \in DOMAIN gamepads : gamepads[i] = gamepads[j] => i = j
  BY DEF TypeOK, ListsOK
<1>4. /\ leaving \in Seq(Pads)
      /\ ToSet(leaving) = Held \cap {p \in Pads : p[1][1] = f}
      /\ \A i, j \in DOMAIN leaving : leaving[i] = leaving[j] => i = j
  BY <1>3, KeptMembers DEF Held
<1>5. calls' = [i \in DOMAIN leaving |-> [op |-> "delete", pad |-> leaving[i]]]
  BY <1>1
<1> HIDE DEF leaving
<1>6. \A i \in DOMAIN calls' :
        /\ calls'[i] = [op |-> "delete", pad |-> leaving[i]]
        /\ calls'[i] \in Call
  BY <1>4, <1>5 DEF Call
<1>7. calls' \in Seq(Call)
  BY <1>4, <1>5, <1>6
<1>8. Held' = Held /\ Held \subseteq Pads /\ phase = "begin"
  BY <1>2, <1>3 DEF Held, ToSet, CallsOK
<1>9. TypeOK'
  BY <1>1, <1>2, <1>7 DEF TypeOK
<1>10. CallsOK'
  <2>1. \A i \in DOMAIN calls' : leaving[i] \in Held
    BY <1>4, <1>5 DEF ToSet
  <2>2. \A i, j \in DOMAIN calls' : calls'[i].pad = calls'[j].pad => i = j
    BY <1>4, <1>5, <1>6
  <2>3. \A i \in DOMAIN calls' : calls'[i].op = "delete" /\ calls'[i].pad \in Held'
    BY <1>6, <1>8, <2>1
  <2>4. calls' # <<>> => 1 \in DOMAIN calls'
    BY <1>7
  <2> QED  BY <1>2, <1>8, <2>2, <2>3, <2>4 DEF CallsOK, PhasesOf
<1>11. ListsOK'
  <2>1. ASSUME NEW p \in Held, p[1] \notin profiles'
        PROVE  \E i \in DOMAIN calls' : calls'[i].op = "delete" /\ calls'[i].pad = p
    <3>1. p[1] \in profiles
      BY <1>2, <2>1 DEF ListsOK
    <3>2. p \in ToSet(leaving)
      BY <1>1, <1>4, <1>8, <2>1, <3>1
    <3>3. PICK i \in DOMAIN leaving : leaving[i] = p
      BY <3>2 DEF ToSet
    <3> QED  BY <1>5, <1>6, <3>3
  <2> QED  BY <1>2, <1>3, <1>8, <2>1 DEF ListsOK
<1>12. \A p : ~InSetup(p) /\ ~InSetup(p)' /\ ~InReport(p) /\ ~InReport(p)'
  BY <1>2, <1>8 DEF InSetup, InReport
<1>13. Owned' /\ Fresh' /\ FramesOK'
  BY <1>2, <1>8, <1>12 DEF Owned, Fresh, FramesOK
<1>14. MasksOK'
  BY <1>6 DEF MasksOK
<1> QED  BY <1>9, <1>10, <1>11, <1>13, <1>14

LEMMA MatchingAreThere ==
    ASSUME TypeOK, NEW type, NEW id
    PROVE  /\ Matching(type, id) \in Seq(Pads)
           /\ ToSet(Matching(type, id)) = OfRemote(type, id)
           /\ OfRemote(type, id) \subseteq Held
<1>1. gamepads \in Seq(Pads)
  BY DEF TypeOK
<1>2. OfRemote(type, id) \subseteq Held
  BY DEF OfRemote, Held
<1>3. /\ Kept(gamepads, OfRemote(type, id)) \in Seq(Pads)
      /\ ToSet(Kept(gamepads, OfRemote(type, id))) = Held \cap OfRemote(type, id)
  BY <1>1, KeptMembers DEF Held
<1> QED  BY <1>2, <1>3 DEF Matching

LEMMA ButtonDataKeepsIInv ==
    ASSUME IInv, NEW type, NEW id, NEW keys \in SUBSET Inputs,
           ButtonData(type, id, keys)
    PROVE  IInv'
<1> DEFINE s == Matching(type, id)
<1>1. TypeOK /\ Idle /\ UNCHANGED <<profiles, gamepads, device, angles, phase, valid>>
  BY DEF IInv, ButtonData
<1>2. /\ calls' = [i \in DOMAIN s |-> [op |-> "buttons", pad |-> s[i], keys |-> keys]]
      /\ told' = [p \in Pads |-> IF p \in OfRemote(type, id) THEN keys ELSE told[p]]
  BY DEF ButtonData
<1>3. /\ s \in Seq(Pads)
      /\ ToSet(s) = OfRemote(type, id)
      /\ OfRemote(type, id) \subseteq Held
  BY <1>1, MatchingAreThere
<1>4. DOMAIN s = 1 .. Len(s) /\ Len(s) \in Nat /\ \A i \in DOMAIN s : s[i] \in Pads
  BY <1>3
<1>5. \A i \in DOMAIN s : s[i] \in OfRemote(type, id)
  BY <1>3 DEF ToSet
<1>6. \A p \in OfRemote(type, id) : \E i \in DOMAIN s : s[i] = p
  BY <1>3 DEF ToSet
<1> HIDE DEF s
<1>7. \A i \in DOMAIN calls' :
        /\ calls'[i] = [op |-> "buttons", pad |-> s[i], keys |-> keys]
        /\ calls'[i] \in Call
  BY <1>2, <1>4 DEF Call
<1>8. calls' \in Seq(Call)
  BY <1>2, <1>4, <1>7
<1>9. told' \in [Pads -> SUBSET Inputs]
  BY <1>1, <1>2 DEF TypeOK
<1>10. \A p \in Pads \ Held : told'[p] = told[p]
  BY <1>2, <1>3
<1>11. Held \subseteq Pads
  BY <1>1 DEF Held, ToSet, TypeOK
<1>12. ASSUME NEW p \in Held
       PROVE  told'[p] = told[p] \/
              \E i \in DOMAIN calls' : calls'[i].op = "buttons" /\ calls'[i].pad = p
  BY <1>2, <1>6, <1>7, <1>11
<1>13. \A i \in DOMAIN calls' : calls'[i].op = "buttons" /\ calls'[i].pad \in Held
  BY <1>2, <1>3, <1>5, <1>7
<1>14. \A i \in DOMAIN calls' : calls'[i].keys = told'[calls'[i].pad]
  BY <1>2, <1>4, <1>5, <1>7
<1> QED  BY <1>1, <1>8, <1>9, <1>10, <1>12, <1>13, <1>14, SignalStarts

\* The other signals leave the masks alone.
LEMMA StickCallType ==
    ASSUME NEW p \in Pads, NEW k \in AllSticks \ {"Dpad"}, NEW x \in Int, NEW y \in Int
    PROVE  /\ StickCall(p, k, x, y) \in Call
           /\ StickCall(p, k, x, y).op = "stick" /\ StickCall(p, k, x, y).pad = p
BY DEF StickCall, Call

LEMMA MoveStarts ==
    ASSUME IInv, Idle, UNCHANGED <<profiles, gamepads, device, angles, phase, valid, told>>,
           NEW op \in {"stick", "gyro"},
           calls' \in Seq(Call),
           \A i \in DOMAIN calls' : calls'[i].op = op /\ calls'[i].pad \in Held
    PROVE  IInv'
<1>1. told \in [Pads -> SUBSET Inputs] /\ told' = told
  BY DEF IInv, TypeOK
<1> QED  BY <1>1, SignalStarts

LEMMA StickDataKeepsIInv ==
    ASSUME IInv, NEW type, NEW id, NEW l \in Leans, NEW r \in Leans,
           StickData(type, id, l, r)
    PROVE  IInv'
<1> DEFINE s == Matching(type, id)
<1>1. TypeOK /\ Idle
      /\ UNCHANGED <<profiles, gamepads, device, angles, phase, valid, told>>
  BY DEF IInv, StickData
<1>2. /\ s \in Seq(Pads)
      /\ ToSet(s) \subseteq Held
  BY <1>1, MatchingAreThere
<1>3. /\ DOMAIN s = 1 .. Len(s) /\ Len(s) \in Nat
      /\ \A i \in DOMAIN s : s[i] \in Pads /\ s[i] \in Held
  BY <1>2 DEF ToSet
<1>4. l[1] \in Int /\ l[2] \in Int /\ r[1] \in Int /\ r[2] \in Int
  BY LeansAssumption, StickMaxAssumption DEF StickMin
<1>5. \A i \in DOMAIN calls' :
        calls'[i] \in Call /\ calls'[i].op = "stick" /\ calls'[i].pad \in Held
  <2>1. CASE type = "nunchuk"
    <3>1. calls' = [i \in DOMAIN s |-> StickCall(s[i], "Stick", l[1], l[2])]
      BY <2>1 DEF StickData
    <3> QED  BY <1>3, <1>4, <3>1, StickCallType DEF AllSticks
  <2>2. CASE type # "nunchuk"
    <3>1. calls' = [i \in 1 .. 2 * Len(s) |->
                     IF i % 2 = 1
                     THEN StickCall(s[(i + 1) \div 2], "LStick", l[1], l[2])
                     ELSE StickCall(s[i \div 2], "RStick", r[1], r[2])]
      BY <2>2 DEF StickData
    <3>2. ASSUME NEW i \in 1 .. 2 * Len(s), i % 2 = 1
          PROVE  (i + 1) \div 2 \in DOMAIN s
      BY <1>3, <3>2
    <3>3. ASSUME NEW i \in 1 .. 2 * Len(s), i % 2 # 1
          PROVE  i \div 2 \in DOMAIN s
      BY <1>3, <3>3
    <3>4. {"LStick", "RStick"} \subseteq AllSticks \ {"Dpad"}
      BY DEF AllSticks
    <3>5. ASSUME NEW i \in 1 .. 2 * Len(s), i % 2 = 1
          PROVE  calls'[i] \in Call /\ calls'[i].op = "stick" /\ calls'[i].pad \in Held
      <4>1. calls'[i] = StickCall(s[(i + 1) \div 2], "LStick", l[1], l[2])
        BY <3>1, <3>5
      <4>2. s[(i + 1) \div 2] \in Pads /\ s[(i + 1) \div 2] \in Held
        BY <1>3, <3>2, <3>5
      <4> HIDE DEF s
      <4> QED  BY <1>4, <3>4, <4>1, <4>2, StickCallType
    <3>6. ASSUME NEW i \in 1 .. 2 * Len(s), i % 2 # 1
          PROVE  calls'[i] \in Call /\ calls'[i].op = "stick" /\ calls'[i].pad \in Held
      <4>1. calls'[i] = StickCall(s[i \div 2], "RStick", r[1], r[2])
        BY <3>1, <3>6
      <4>2. s[i \div 2] \in Pads /\ s[i \div 2] \in Held
        BY <1>3, <3>3, <3>6
      <4> HIDE DEF s
      <4> QED  BY <1>4, <3>4, <4>1, <4>2, StickCallType
    <3>7. DOMAIN calls' = 1 .. 2 * Len(s)
      BY <3>1
    <3> QED  BY <3>5, <3>6, <3>7
  <2> QED  BY <2>1, <2>2
<1>6. \E n \in Nat : DOMAIN calls' = 1 .. n /\ calls' = [i \in 1 .. n |-> calls'[i]]
  <2>1. CASE type = "nunchuk"
    <3>1. calls' = [i \in 1 .. Len(s) |-> StickCall(s[i], "Stick", l[1], l[2])]
      BY <1>3, <2>1 DEF StickData
    <3> QED  BY <1>3, <3>1
  <2>2. CASE type # "nunchuk"
    <3>1. calls' = [i \in 1 .. 2 * Len(s) |->
                     IF i % 2 = 1
                     THEN StickCall(s[(i + 1) \div 2], "LStick", l[1], l[2])
                     ELSE StickCall(s[i \div 2], "RStick", r[1], r[2])]
      BY <2>2 DEF StickData
    <3>2. 2 * Len(s) \in Nat
      BY <1>3
    <3> QED  BY <3>1, <3>2
  <2> QED  BY <2>1, <2>2
<1>7. calls' \in Seq(Call)
  BY <1>5, <1>6
<1> QED  BY <1>1, <1>5, <1>7, MoveStarts

LEMMA PressureDataKeepsIInv ==
    ASSUME IInv, NEW id, NEW d \in Readings, PressureData(id, d)
    PROVE  IInv'
<1> DEFINE s == Matching("balance_board", id)
<1>1. TypeOK /\ Idle
      /\ UNCHANGED <<profiles, gamepads, device, angles, phase, valid, told>>
  BY DEF IInv, PressureData
<1>2. /\ s \in Seq(Pads)
      /\ ToSet(s) \subseteq Held
  BY <1>1, MatchingAreThere
<1>3. /\ DOMAIN s = 1 .. Len(s) /\ Len(s) \in Nat
      /\ \A i \in DOMAIN s : s[i] \in Pads /\ s[i] \in Held
  BY <1>2 DEF ToSet
<1>4. XLean(d) \in Int /\ YLean(d) \in Int
  <2>1. d["tl"] \in Nat /\ d["tr"] \in Nat /\ d["bl"] \in Nat /\ d["br"] \in Nat
    BY ReadingsAssumption DEF Sensors
  <2>2. Axis \subseteq Int
    BY StickMaxAssumption DEF Axis, StickMin
  <2> DEFINE side(a, b) == d[a] + d[b] + 1
  <2>3. /\ side("tl", "bl") \in Nat \ {0} /\ side("tr", "br") \in Nat \ {0}
        /\ side("tl", "tr") \in Nat \ {0} /\ side("bl", "br") \in Nat \ {0}
    BY <2>1
  <2>4. /\ XLean(d) = Lean(side("tl", "bl"), side("tr", "br"))
        /\ YLean(d) = Lean(side("tl", "tr"), side("bl", "br"))
    BY DEF XLean, YLean
  <2> HIDE DEF side
  <2> QED  BY <2>2, <2>3, <2>4, LeanInRange
<1>5. \A p \in Pads :
        /\ PressureCall(p, d) \in Call
        /\ PressureCall(p, d).op = "stick" /\ PressureCall(p, d).pad = p
  BY <1>4, StickCallType DEF PressureCall, AllSticks
<1>6. calls' = [i \in DOMAIN s |-> PressureCall(s[i], d)]
  BY DEF PressureData
<1> HIDE DEF s
<1>7. \A i \in DOMAIN calls' :
        calls'[i] \in Call /\ calls'[i].op = "stick" /\ calls'[i].pad \in Held
  BY <1>3, <1>5, <1>6
<1>8. calls' \in Seq(Call)
  BY <1>3, <1>6, <1>7
<1> QED  BY <1>1, <1>7, <1>8, MoveStarts

LEMMA GyroDataKeepsIInv ==
    ASSUME IInv, NEW id, NEW x \in Turns, NEW z \in Turns, GyroData(id, x, z)
    PROVE  IInv'
<1> DEFINE s == Matching("wiimote", id)
<1>1. TypeOK /\ Idle
      /\ UNCHANGED <<profiles, gamepads, device, angles, phase, valid, told>>
  BY DEF IInv, GyroData
<1>2. /\ s \in Seq(Pads)
      /\ ToSet(s) \subseteq Held
  BY <1>1, MatchingAreThere
<1>3. /\ DOMAIN s = 1 .. Len(s) /\ Len(s) \in Nat
      /\ \A i \in DOMAIN s : s[i] \in Pads /\ s[i] \in Held
  BY <1>2 DEF ToSet
<1>4. calls' = [i \in DOMAIN s |-> [op |-> "gyro", pad |-> s[i], x |-> x, z |-> z]]
  BY DEF GyroData
<1> HIDE DEF s
<1>5. \A i \in DOMAIN calls' :
        calls'[i] \in Call /\ calls'[i].op = "gyro" /\ calls'[i].pad \in Held
  BY <1>3, <1>4 DEF Call
<1>6. calls' \in Seq(Call)
  BY <1>3, <1>4, <1>5
<1> QED  BY <1>1, <1>5, <1>6, MoveStarts

-----------------------------------------------------------------------------
(* Setting up and deleting one gamepad.                                    *)

\* While a gamepad is set up only what it owns changes.
LEMMA SetupGoesOn ==
    ASSUME IInv, calls # <<>>, calls[1].op = "setup",
           UNCHANGED <<profiles, gamepads, frame, angles, told, calls>>,
           NEW ph \in {"configure", "create", "keep"}, phase' = ph,
           valid' \in BOOLEAN,
           fd' \in [Pads -> BOOLEAN], created' \in [Pads -> BOOLEAN],
           \A p \in Pads : p # pad =>
               /\ fd'[p] = fd[p] /\ created'[p] = created[p]
               /\ p \in DOMAIN view' <=> p \in DOMAIN view
               /\ p \in DOMAIN view => view'[p] = view[p],
           DOMAIN view' \subseteq Pads,
           view' \in [DOMAIN view' -> Frame],
           pad \in DOMAIN view' <=> created'[pad],
           created'[pad] => fd'[pad] /\ view'[pad] = J!Neutral,
           ph \in {"configure", "create"} => ~created'[pad],
           valid' => fd'[pad],
           valid' /\ ph = "keep" => created'[pad]
    PROVE  IInv'
<1> USE DEF IInv
<1>1. Held' = Held /\ pad' = pad
  BY DEF Held, pad
<1>2. pad \in Pads /\ pad \notin Held
  BY FirstCall DEF CallsOK, pad
<1>3. TypeOK'
  BY DEF TypeOK, Frame
<1>4. CallsOK'
  BY <1>1 DEF CallsOK, PhasesOf
<1>5. ListsOK' /\ MasksOK' /\ Fresh'
  BY <1>1 DEF ListsOK, MasksOK, Fresh
<1>6. \A p \in Pads :
        /\ p # pad => ~InSetup(p) /\ ~InSetup(p)'
        /\ InSetup(p)' <=> p = pad
        /\ ~InReport(p)'
  BY <1>1 DEF InSetup, InReport
<1>7. Owned'
  <2> SUFFICES ASSUME NEW p \in Pads
               PROVE  IF InSetup(p)'
                      THEN /\ p \in DOMAIN view' <=> created'[p]
                           /\ created'[p] => fd'[p] /\ view'[p] = J!Neutral
                           /\ phase' \in {"configure", "create"} => ~created'[p]
                           /\ valid' => fd'[p]
                           /\ valid' /\ phase' = "keep" => created'[p]
                      ELSE /\ fd'[p] <=> p \in Held'
                           /\ p \in DOMAIN view' <=> p \in Held'
                           /\ created'[p] => p \in Held'
    BY DEF Owned
  <2>1. CASE p = pad
    BY <1>6, <2>1
  <2>2. CASE p # pad
    BY <1>1, <1>6, <2>2 DEF Owned
  <2> QED  BY <2>1, <2>2
<1>8. Held \subseteq Pads
  BY DEF Held, ToSet, TypeOK
<1>9. FramesOK'
  <2>1. ASSUME NEW p \in Held, created'[p]
        PROVE  /\ frame'[p] = view'[p]
               /\ view'[p].keys = told'[p] \cap Keys(p)
    <3>1. p # pad /\ p \in Pads /\ created[p]
      BY <1>2, <1>8, <2>1
    <3>2. p \in DOMAIN view /\ view'[p] = view[p]
      BY <1>6, <2>1, <3>1 DEF Owned
    <3>3. ~InReport(p)
      BY <3>1 DEF InReport
    <3>4. \A i \in DOMAIN calls : calls[i].op # "buttons"
      BY FirstCall DEF CallsOK
    <3> QED  BY <2>1, <3>1, <3>2, <3>3, <3>4 DEF FramesOK
  <2>2. \A p \in Held : ~InReport(p)'
    BY <1>6, <1>8
  <2> QED  BY <1>1, <2>1, <2>2 DEF FramesOK
<1> QED  BY <1>3, <1>4, <1>5, <1>7, <1>9

LEMMA SetupOpenKeepsIInv == IInv /\ SetupOpen => IInv'
<1> SUFFICES ASSUME IInv, SetupOpen PROVE IInv'
  OBVIOUS
<1>1. calls # <<>> /\ calls[1].op = "setup" /\ phase = "begin" /\ TypeOK
  BY DEF SetupOpen, At, IInv
<1>2. PICK ok \in BOOLEAN : fd' = [fd EXCEPT ![pad] = ok] /\ valid' = ok
  BY DEF SetupOpen
<1>3. /\ UNCHANGED <<profiles, gamepads, created, frame, view, angles, told, calls>>
      /\ phase' = "configure"
  BY DEF SetupOpen, Proceed
<1>4. pad \in Pads /\ pad \notin Held
  BY <1>1, FirstCall DEF IInv, CallsOK, pad
<1>5. ~InSetup(pad) /\ ~created[pad] /\ pad \notin DOMAIN view
  BY <1>1, <1>4 DEF IInv, Owned, InSetup
<1> QED
  BY <1>1, <1>2, <1>3, <1>4, <1>5, SetupGoesOn DEF TypeOK, Frame

LEMMA SetupConfigureKeepsIInv == IInv /\ SetupConfigure => IInv'
<1> SUFFICES ASSUME IInv, SetupConfigure PROVE IInv'
  OBVIOUS
<1>1. calls # <<>> /\ calls[1].op = "setup" /\ phase = "configure" /\ TypeOK
  BY DEF SetupConfigure, At, IInv
<1>2. PICK ok \in BOOLEAN : (ok => fd[pad]) /\ valid' = (valid /\ ok)
  BY DEF SetupConfigure
<1>3. /\ UNCHANGED <<profiles, gamepads, fd, created, frame, view, angles, told, calls>>
      /\ phase' = "create"
  BY DEF SetupConfigure, Proceed, device
<1>4. pad \in Pads
  BY <1>1, FirstCall
<1>5. InSetup(pad) /\ ~created[pad] /\ pad \notin DOMAIN view
  BY <1>1, <1>4 DEF IInv, Owned, InSetup
<1>6. valid' \in BOOLEAN /\ (valid' => fd[pad])
  BY <1>1, <1>2 DEF TypeOK
<1> QED
  BY <1>1, <1>3, <1>4, <1>5, <1>6, SetupGoesOn DEF TypeOK, Frame

LEMMA SetupCreateKeepsIInv == IInv /\ SetupCreate => IInv'
<1> SUFFICES ASSUME IInv, SetupCreate PROVE IInv'
  OBVIOUS
<1>1. calls # <<>> /\ calls[1].op = "setup" /\ phase = "create" /\ TypeOK
  BY DEF SetupCreate, At, IInv
<1>2. PICK ok \in BOOLEAN :
        /\ ok => fd[pad]
        /\ created' = [created EXCEPT ![pad] = ok]
        /\ IF ok THEN J!Appear(pad) ELSE UNCHANGED view
        /\ valid' = (valid /\ ok)
  BY DEF SetupCreate
<1>3. /\ UNCHANGED <<profiles, gamepads, fd, frame, angles, told, calls>>
      /\ phase' = "keep"
  BY DEF SetupCreate, Proceed
<1>4. pad \in Pads
  BY <1>1, FirstCall
<1>5. InSetup(pad) /\ ~created[pad] /\ pad \notin DOMAIN view
  BY <1>1, <1>4 DEF IInv, Owned, InSetup
<1>6. valid' \in BOOLEAN /\ (valid' => fd[pad] /\ ok)
  BY <1>1, <1>2 DEF TypeOK
<1>7. /\ DOMAIN view \subseteq Pads /\ view \in [DOMAIN view -> Frame]
      /\ fd \in [Pads -> BOOLEAN] /\ created' \in [Pads -> BOOLEAN]
      /\ created'[pad] = ok
      /\ \A p \in Pads : p # pad => created'[p] = created[p]
  BY <1>1, <1>2, <1>4 DEF TypeOK, Frame
<1>8. CASE ok
  <2>1. view' = [q \in DOMAIN view \cup {pad} |-> IF q = pad THEN J!Neutral ELSE view[q]]
    BY <1>2, <1>8 DEF J!Appear
  <2>2. /\ DOMAIN view' = DOMAIN view \cup {pad}
        /\ view'[pad] = J!Neutral
        /\ \A q \in DOMAIN view : q # pad => view'[q] = view[q]
        /\ view' \in [DOMAIN view' -> Frame]
    BY <1>7, <2>1, NeutralType
  <2> QED
    BY <1>1, <1>2, <1>3, <1>4, <1>6, <1>7, <1>8, <2>2, SetupGoesOn
<1>9. CASE ~ok
  BY <1>1, <1>2, <1>3, <1>4, <1>5, <1>6, <1>7, <1>9, SetupGoesOn
<1> QED  BY <1>8, <1>9

LEMMA SetupKeepKeepsIInv == IInv /\ SetupKeep => IInv'
<1> SUFFICES ASSUME IInv, SetupKeep PROVE IInv'
  OBVIOUS
<1> USE DEF IInv
<1>1. calls # <<>> /\ calls[1].op = "setup" /\ phase = "keep" /\ valid
  BY DEF SetupKeep, At
<1>2. /\ gamepads' = Append(gamepads, pad)
      /\ calls' = Tail(calls) /\ phase' = "begin"
      /\ UNCHANGED <<profiles, fd, created, frame, view, angles, valid, told>>
  BY DEF SetupKeep, NextCall, device
<1>3. /\ pad \in Pads /\ pad \notin Held /\ pad[1] \in profiles /\ pad = calls[1].pad
      /\ \A i \in DOMAIN calls' : i + 1 \in DOMAIN calls /\ calls'[i] = calls[i + 1]
      /\ calls' \in Seq(Call)
  BY <1>1, <1>2, FirstCall DEF CallsOK, pad
<1>4. gamepads \in Seq(Pads)
  BY DEF TypeOK
<1>5. Held' = Held \cup {pad}
  BY <1>2, <1>3, <1>4, AppendMembers DEF Held
<1>6. TypeOK'
  BY <1>2, <1>3, <1>4, AppendProperties DEF TypeOK
<1>7. \A i \in DOMAIN calls : calls[i].op = "setup" /\ calls[i].pad \notin Held
  BY <1>1, FirstCall DEF CallsOK
<1>8. CallsOK'
  <2>1. \A i \in DOMAIN calls' :
          /\ calls'[i].op = "setup"
          /\ calls'[i].pad \notin Held' /\ calls'[i].pad[1] \in profiles'
    <3> TAKE i \in DOMAIN calls'
    <3>1. i + 1 \in DOMAIN calls /\ calls'[i] = calls[i + 1] /\ i + 1 # 1
      BY <1>3
    <3>2. calls[i + 1].pad # pad
      BY <1>3, <1>7, <3>1, FirstCall, <1>1 DEF CallsOK
    <3> QED  BY <1>2, <1>5, <1>7, <3>1, <3>2 DEF CallsOK
  <2>2. \A i, j \in DOMAIN calls' : i # j => calls'[i].pad # calls'[j].pad
    <3> TAKE i, j \in DOMAIN calls'
    <3>1. i # j => i + 1 # j + 1
      BY <1>3
    <3> QED  BY <1>3, <1>7, <3>1 DEF CallsOK
  <2>3. calls' # <<>> => 1 \in DOMAIN calls'
    BY <1>3
  <2> QED  BY <1>2, <2>1, <2>2, <2>3 DEF CallsOK, PhasesOf
<1>9. ListsOK'
  <2>1. \A i, j \in DOMAIN gamepads' : gamepads'[i] = gamepads'[j] => i = j
    <3>1. \A i \in DOMAIN gamepads : gamepads[i] # pad
      BY <1>3 DEF Held, ToSet
    <3>2. /\ DOMAIN gamepads' = 1 .. Len(gamepads) + 1 /\ Len(gamepads) \in Nat
          /\ \A i \in 1 .. Len(gamepads) : gamepads'[i] = gamepads[i]
          /\ gamepads'[Len(gamepads) + 1] = pad
      BY <1>2, <1>3, <1>4
    <3>3. \A i, j \in 1 .. Len(gamepads) : gamepads[i] = gamepads[j] => i = j
      BY <1>4 DEF ListsOK
    <3> QED  BY <1>4, <3>1, <3>2, <3>3
  <2>2. \A p \in Held' : p[1] \in profiles'
    BY <1>2, <1>3, <1>5, <1>7 DEF ListsOK
  <2> QED  BY <2>1, <2>2 DEF ListsOK
<1>10. \A p : /\ InSetup(p) <=> p = pad
              /\ ~InSetup(p)' /\ ~InReport(p) /\ ~InReport(p)'
  BY <1>1, <1>2 DEF InSetup, InReport
<1>11. Owned'
  <2> SUFFICES ASSUME NEW p \in Pads
               PROVE  /\ fd'[p] <=> p \in Held'
                      /\ p \in DOMAIN view' <=> p \in Held'
                      /\ created'[p] => p \in Held'
    BY <1>10 DEF Owned
  <2>1. CASE p = pad
    BY <1>1, <1>2, <1>3, <1>5, <1>10, <2>1 DEF Owned
  <2>2. CASE p # pad
    BY <1>2, <1>5, <1>10, <2>2 DEF Owned
  <2> QED  BY <2>1, <2>2
<1>12. Fresh'
  BY <1>2, <1>5 DEF Fresh
<1>13. FramesOK'
  <2>1. /\ frame[pad] = J!Neutral /\ told[pad] = {}
        /\ view[pad] = J!Neutral
    BY <1>1, <1>3, <1>10 DEF Owned, Fresh
  <2>2. view[pad].keys = told[pad] \cap Keys(pad)
    BY <2>1, NeutralType
  <2>3. \A p \in Held : created[p] =>
          frame[p] = view[p] /\ view[p].keys = told[p] \cap Keys(p)
    BY <1>7, <1>10 DEF FramesOK
  <2> QED  BY <1>2, <1>5, <1>10, <2>1, <2>2, <2>3 DEF FramesOK
<1>14. MasksOK'
  BY <1>3, <1>7 DEF MasksOK
<1> QED  BY <1>6, <1>8, <1>9, <1>11, <1>12, <1>13, <1>14

\* A destructor leaves nothing of its gamepad, and other gamepads alone.
LEMMA DestructorErases ==
    ASSUME TypeOK, NEW p \in Pads, Destructor(p), Forget(p),
           created[p] => fd[p], p \in DOMAIN view => fd[p]
    PROVE  /\ fd' \in [Pads -> BOOLEAN] /\ created' \in [Pads -> BOOLEAN]
           /\ DOMAIN view' = DOMAIN view \ {p}
           /\ view' \in [DOMAIN view' -> Frame]
           /\ frame' \in [Pads -> Frame] /\ told' \in [Pads -> SUBSET Inputs]
           /\ ~fd'[p] /\ ~created'[p] /\ frame'[p] = J!Neutral /\ told'[p] = {}
           /\ \A q \in Pads : q # p =>
                /\ fd'[q] = fd[q] /\ created'[q] = created[q]
                /\ frame'[q] = frame[q] /\ told'[q] = told[q]
           /\ \A q \in DOMAIN view' : view'[q] = view[q]
<1>1. /\ fd \in [Pads -> BOOLEAN] /\ created \in [Pads -> BOOLEAN]
      /\ DOMAIN view \subseteq Pads /\ view \in [DOMAIN view -> Frame]
      /\ frame \in [Pads -> Frame] /\ told \in [Pads -> SUBSET Inputs]
  BY DEF TypeOK, Frame
<1>2. /\ frame' = [frame EXCEPT ![p] = J!Neutral]
      /\ told' = [told EXCEPT ![p] = {}]
  BY DEF Forget
<1>3. /\ frame' \in [Pads -> Frame] /\ told' \in [Pads -> SUBSET Inputs]
      /\ frame'[p] = J!Neutral /\ told'[p] = {}
      /\ \A q \in Pads : q # p => frame'[q] = frame[q] /\ told'[q] = told[q]
  BY <1>1, <1>2, NeutralType
<1>4. CASE fd[p]
  <2>1. /\ fd' = [fd EXCEPT ![p] = FALSE]
        /\ created' = [created EXCEPT ![p] = FALSE]
        /\ view' = [q \in DOMAIN view \ {p} |-> view[q]]
    BY <1>4 DEF Destructor
  <2> QED  BY <1>1, <1>3, <2>1
<1>5. CASE ~fd[p]
  <2>1. UNCHANGED <<fd, created, view>> /\ p \notin DOMAIN view
    BY <1>5 DEF Destructor
  <2> QED  BY <1>1, <1>3, <1>5, <2>1
<1> QED  BY <1>4, <1>5

LEMMA SetupDropKeepsIInv == IInv /\ SetupDrop => IInv'
<1> SUFFICES ASSUME IInv, SetupDrop PROVE IInv'
  OBVIOUS
<1> USE DEF IInv
<1>1. calls # <<>> /\ calls[1].op = "setup" /\ phase = "keep"
  BY DEF SetupDrop, At
<1>2. /\ Destructor(pad) /\ Forget(pad)
      /\ calls' = Tail(calls) /\ phase' = "begin"
      /\ UNCHANGED <<profiles, gamepads, angles, valid>>
  BY DEF SetupDrop, NextCall
<1>3. /\ pad \in Pads /\ pad \notin Held /\ pad = calls[1].pad
      /\ \A i \in DOMAIN calls' : i + 1 \in DOMAIN calls /\ calls'[i] = calls[i + 1]
      /\ calls' \in Seq(Call)
  BY <1>1, <1>2, FirstCall DEF CallsOK, pad
<1>4. \A p : /\ InSetup(p) <=> p = pad
             /\ ~InSetup(p)' /\ ~InReport(p) /\ ~InReport(p)'
  BY <1>1, <1>2 DEF InSetup, InReport
<1>5. (created[pad] => fd[pad]) /\ (pad \in DOMAIN view => fd[pad])
  BY <1>3, <1>4 DEF Owned
<1>6. /\ fd' \in [Pads -> BOOLEAN] /\ created' \in [Pads -> BOOLEAN]
      /\ DOMAIN view' = DOMAIN view \ {pad}
      /\ view' \in [DOMAIN view' -> Frame]
      /\ frame' \in [Pads -> Frame] /\ told' \in [Pads -> SUBSET Inputs]
      /\ ~fd'[pad] /\ ~created'[pad] /\ frame'[pad] = J!Neutral /\ told'[pad] = {}
      /\ \A q \in Pads : q # pad =>
           /\ fd'[q] = fd[q] /\ created'[q] = created[q]
           /\ frame'[q] = frame[q] /\ told'[q] = told[q]
      /\ \A q \in DOMAIN view' : view'[q] = view[q]
  BY <1>2, <1>3, <1>5, DestructorErases
<1>7. Held' = Held /\ Held \subseteq Pads
  BY <1>2 DEF Held, ToSet, TypeOK
<1>8. TypeOK'
  BY <1>2, <1>3, <1>6 DEF TypeOK, Frame
<1>9. \A i \in DOMAIN calls : calls[i].op = "setup"
  BY <1>1, FirstCall DEF CallsOK
<1>10. CallsOK'
  <2>1. \A i, j \in DOMAIN calls' : i # j => calls'[i].pad # calls'[j].pad
    <3> TAKE i, j \in DOMAIN calls'
    <3>1. i # j => i + 1 # j + 1
      BY <1>3
    <3> QED  BY <1>3, <1>9, <3>1 DEF CallsOK
  <2>2. calls' # <<>> => 1 \in DOMAIN calls'
    BY <1>3
  <2> QED  BY <1>2, <1>3, <1>7, <1>9, <2>1, <2>2 DEF CallsOK, PhasesOf
<1>11. ListsOK'
  BY <1>2, <1>7, <1>9 DEF ListsOK
<1>12. Owned'
  <2> SUFFICES ASSUME NEW p \in Pads
               PROVE  /\ fd'[p] <=> p \in Held'
                      /\ p \in DOMAIN view' <=> p \in Held'
                      /\ created'[p] => p \in Held'
    BY <1>4 DEF Owned
  <2>1. CASE p = pad
    BY <1>3, <1>6, <1>7, <2>1
  <2>2. CASE p # pad
    BY <1>4, <1>6, <1>7, <2>2 DEF Owned
  <2> QED  BY <2>1, <2>2
<1>13. Fresh'
  BY <1>6, <1>7 DEF Fresh
<1>14. FramesOK'
  <2>1. ASSUME NEW p \in Held, created'[p]
        PROVE  frame'[p] = view'[p] /\ view'[p].keys = told'[p] \cap Keys(p)
    <3>1. p # pad /\ p \in Pads /\ p \in DOMAIN view
      BY <1>3, <1>4, <1>7 DEF Owned
    <3>2. created[p] /\ frame[p] = view[p] /\ view[p].keys = told[p] \cap Keys(p)
      BY <1>4, <1>6, <1>9, <2>1, <3>1 DEF FramesOK
    <3> QED  BY <1>6, <3>1, <3>2
  <2> QED  BY <1>4, <1>7, <2>1 DEF FramesOK
<1>15. MasksOK'
  BY <1>3, <1>9 DEF MasksOK
<1> QED  BY <1>8, <1>10, <1>11, <1>12, <1>13, <1>14, <1>15

LEMMA DeleteKeepsIInv == IInv /\ Delete => IInv'
<1> SUFFICES ASSUME IInv, Delete PROVE IInv'
  OBVIOUS
<1> USE DEF IInv
<1>1. calls # <<>> /\ calls[1].op = "delete" /\ phase = "begin"
  BY DEF Delete, At
<1>2. /\ gamepads' = Kept(gamepads, Pads \ {pad})
      /\ Destructor(pad) /\ Forget(pad)
      /\ calls' = Tail(calls) /\ phase' = "begin"
      /\ UNCHANGED <<profiles, angles, valid>>
  BY DEF Delete, NextCall
<1>3. /\ pad \in Pads /\ pad \in Held /\ pad = calls[1].pad
      /\ \A i \in DOMAIN calls' : i + 1 \in DOMAIN calls /\ calls'[i] = calls[i + 1]
      /\ \A i \in DOMAIN calls : i = 1 \/ i - 1 \in DOMAIN calls'
      /\ calls' \in Seq(Call)
  BY <1>1, <1>2, FirstCall DEF CallsOK, pad
<1>4. \A p : ~InSetup(p) /\ ~InSetup(p)' /\ ~InReport(p) /\ ~InReport(p)'
  BY <1>1, <1>2 DEF InSetup, InReport
<1>5. fd[pad]
  BY <1>3, <1>4 DEF Owned
<1>6. /\ fd' \in [Pads -> BOOLEAN] /\ created' \in [Pads -> BOOLEAN]
      /\ DOMAIN view' = DOMAIN view \ {pad}
      /\ view' \in [DOMAIN view' -> Frame]
      /\ frame' \in [Pads -> Frame] /\ told' \in [Pads -> SUBSET Inputs]
      /\ ~fd'[pad] /\ ~created'[pad] /\ frame'[pad] = J!Neutral /\ told'[pad] = {}
      /\ \A q \in Pads : q # pad =>
           /\ fd'[q] = fd[q] /\ created'[q] = created[q]
           /\ frame'[q] = frame[q] /\ told'[q] = told[q]
      /\ \A q \in DOMAIN view' : view'[q] = view[q]
  BY <1>2, <1>3, <1>5, DestructorErases
<1>7. gamepads \in Seq(Pads) /\ \A i, j \in DOMAIN gamepads : gamepads[i] = gamepads[j] => i = j
  BY DEF TypeOK, ListsOK
<1>8. /\ gamepads' \in Seq(Pads)
      /\ Held' = Held \cap (Pads \ {pad})
      /\ \A i, j \in DOMAIN gamepads' : gamepads'[i] = gamepads'[j] => i = j
  <2>1. /\ Kept(gamepads, Pads \ {pad}) \in Seq(Pads)
        /\ ToSet(Kept(gamepads, Pads \ {pad})) = Held \cap (Pads \ {pad})
        /\ \A i, j \in DOMAIN Kept(gamepads, Pads \ {pad}) :
             Kept(gamepads, Pads \ {pad})[i] = Kept(gamepads, Pads \ {pad})[j] => i = j
    BY <1>7, KeptMembers DEF Held
  <2> QED  BY <1>2, <2>1 DEF Held
<1>9. Held' = Held \ {pad} /\ Held \subseteq Pads
  <2>1. Held \subseteq Pads
    BY <1>7 DEF Held, ToSet
  <2> QED  BY <1>8, <2>1
<1>10. TypeOK'
  BY <1>2, <1>3, <1>6, <1>8 DEF TypeOK, Frame
<1>11. \A i \in DOMAIN calls : calls[i].op = "delete"
  BY <1>1, FirstCall DEF CallsOK
<1>12. \A i \in DOMAIN calls' : calls'[i].op = "delete" /\ calls'[i].pad # pad
  <2> TAKE i \in DOMAIN calls'
  <2>1. i + 1 \in DOMAIN calls /\ calls'[i] = calls[i + 1] /\ i + 1 # 1
    BY <1>3
  <2>2. 1 \in DOMAIN calls
    BY <1>1, FirstCall
  <2>3. calls[i + 1].op = "delete" /\ calls[i + 1].pad # calls[1].pad
    BY <1>11, <2>1, <2>2 DEF CallsOK
  <2> QED  BY <1>3, <2>1, <2>3
<1>13. CallsOK'
  <2>1. \A i, j \in DOMAIN calls' : i # j => calls'[i].pad # calls'[j].pad
    <3> TAKE i, j \in DOMAIN calls'
    <3>1. i # j => i + 1 # j + 1
      BY <1>3
    <3> QED  BY <1>3, <1>11, <3>1 DEF CallsOK
  <2>2. \A i \in DOMAIN calls' : calls'[i].pad \in Held'
    BY <1>3, <1>9, <1>11, <1>12 DEF CallsOK
  <2>3. calls' # <<>> => 1 \in DOMAIN calls'
    BY <1>3
  <2> QED  BY <1>2, <1>12, <2>1, <2>2, <2>3 DEF CallsOK, PhasesOf
<1>14. ListsOK'
  <2>1. ASSUME NEW p \in Held', p[1] \notin profiles'
        PROVE  \E i \in DOMAIN calls' : calls'[i].op = "delete" /\ calls'[i].pad = p
    <3>1. PICK i \in DOMAIN calls : calls[i].pad = p
      BY <1>2, <1>9, <2>1 DEF ListsOK
    <3>2. i # 1
      BY <1>3, <1>9, <3>1
    <3>3. i - 1 \in DOMAIN calls' /\ calls'[i - 1] = calls[i]
      <4>1. i \in Int /\ i - 1 + 1 = i
        BY DEF TypeOK
      <4> QED  BY <1>3, <3>2, <4>1
    <3> QED  BY <1>12, <3>1, <3>3
  <2> QED  BY <1>8, <2>1 DEF ListsOK
<1>15. Owned'
  <2> SUFFICES ASSUME NEW p \in Pads
               PROVE  /\ fd'[p] <=> p \in Held'
                      /\ p \in DOMAIN view' <=> p \in Held'
                      /\ created'[p] => p \in Held'
    BY <1>4 DEF Owned
  <2>1. CASE p = pad
    BY <1>6, <1>9, <2>1
  <2>2. CASE p # pad
    BY <1>4, <1>6, <1>9, <2>2 DEF Owned
  <2> QED  BY <2>1, <2>2
<1>16. Fresh'
  BY <1>6, <1>9 DEF Fresh
<1>17. FramesOK'
  <2>1. ASSUME NEW p \in Held', created'[p]
        PROVE  frame'[p] = view'[p] /\ view'[p].keys = told'[p] \cap Keys(p)
    <3>1. p # pad /\ p \in Pads /\ p \in Held /\ p \in DOMAIN view
      BY <1>4, <1>9 DEF Owned
    <3>2. created[p] /\ frame[p] = view[p] /\ view[p].keys = told[p] \cap Keys(p)
      BY <1>4, <1>6, <1>11, <2>1, <3>1 DEF FramesOK
    <3> QED  BY <1>6, <3>1, <3>2
  <2> QED  BY <1>4, <2>1 DEF FramesOK
<1>18. MasksOK'
  BY <1>12 DEF MasksOK
<1> QED  BY <1>10, <1>13, <1>14, <1>15, <1>16, <1>17, <1>18

-----------------------------------------------------------------------------
(* Reports.                                                                *)

\* What the report that is under way is to have written before phase ph ends.
Complete(to, ph) ==
    IF calls[1].op = "buttons"
    THEN IF ph = "axes"
         THEN to = [keys |-> calls[1].keys \cap Keys(pad), axes |-> view[pad].axes]
         ELSE to = Pressed(pad, calls[1].keys)
    ELSE \E s \in AllSticks \ {"Dpad"}, position \in Axis \X Axis :
            to = Moved(pad, s, position)

Data == {"buttons", "stick", "gyro"}

LEMMA ReportGoesOn ==
    ASSUME IInv, calls # <<>>, calls[1].op \in Data, NEW to, Report(pad, to),
           created[pad] => to \in Frame,
           NEW ph \in {"axes", "sync"}, ph \in PhasesOf(calls[1].op), phase' = ph,
           UNCHANGED <<profiles, gamepads, fd, view, valid, told, calls>>,
           angles' \in [{"x", "z"} -> Axis],
           created[pad] => Complete(to, ph)
    PROVE  IInv'
<1> USE DEF IInv, Data
<1>1. pad \in Pads /\ pad \in Held /\ pad' = pad
  BY FirstCall DEF CallsOK, pad
<1>2. Held' = Held /\ Held \subseteq Pads
  BY DEF Held, ToSet, TypeOK
<1>3. /\ created \in [Pads -> BOOLEAN] /\ frame \in [Pads -> Frame]
  BY DEF TypeOK, Frame
<1>4. /\ created' \in [Pads -> BOOLEAN] /\ frame' \in [Pads -> Frame]
      /\ \A q \in Pads : q # pad => created'[q] = created[q] /\ frame'[q] = frame[q]
      /\ created'[pad] => created[pad] /\ frame'[pad] = to
  <2>1. CASE Works(pad, to)
    BY <1>1, <1>3, <2>1 DEF Works
  <2>2. CASE Fails(pad)
    BY <1>1, <1>3, <2>2, NeutralType DEF Fails
  <2> QED  BY <2>1, <2>2 DEF Report
<1>5. TypeOK'
  BY <1>4 DEF TypeOK, Frame
<1>6. CallsOK' /\ ListsOK' /\ MasksOK'
  BY <1>2 DEF CallsOK, ListsOK, MasksOK
<1>7. \A p : ~InSetup(p) /\ ~InSetup(p)'
  BY DEF InSetup
<1>8. Owned'
  <2> SUFFICES ASSUME NEW p \in Pads
               PROVE  /\ fd'[p] <=> p \in Held'
                      /\ p \in DOMAIN view' <=> p \in Held'
                      /\ created'[p] => p \in Held'
    BY <1>7 DEF Owned
  <2> QED  BY <1>1, <1>2, <1>4, <1>7 DEF Owned
<1>9. Fresh'
  BY <1>1, <1>2, <1>4 DEF Fresh
<1>10. \A p : /\ InReport(p)' <=> p = pad
              /\ InReport(p) => p = pad
  BY <1>1 DEF InReport
<1>11. FramesOK'
  <2> SUFFICES ASSUME NEW p \in Held, created'[p]
               PROVE  /\ IF InReport(p)' THEN Written(p)' ELSE frame'[p] = view'[p]
                      /\ \/ view'[p].keys = told'[p] \cap Keys(p)
                         \/ \E i \in DOMAIN calls' :
                              calls'[i].op = "buttons" /\ calls'[i].pad = p
    BY <1>2 DEF FramesOK
  <2>1. created[p] /\ p \in Pads
    BY <1>2, <1>4
  <2>2. CASE p = pad
    <3>1. Written(p)'
      BY <1>1, <1>4, <2>2 DEF Complete, Written, Pressed, Moved
    <3>2. InReport(p)'
      BY <1>10, <2>2
    <3>3. \/ view[p].keys = told[p] \cap Keys(p)
          \/ \E i \in DOMAIN calls : calls[i].op = "buttons" /\ calls[i].pad = p
      BY <2>1 DEF FramesOK
    <3> QED  BY <3>1, <3>2, <3>3
  <2>3. CASE p # pad
    BY <1>4, <1>10, <2>1, <2>3 DEF FramesOK
  <2> QED  BY <2>2, <2>3
<1> QED  BY <1>5, <1>6, <1>8, <1>9, <1>11

\* The gamepad of the running call: what its frame is while it works.
LEMMA ReportedPad ==
    ASSUME IInv, calls # <<>>, calls[1].op \in Data
    PROVE  /\ TypeOK /\ pad \in Pads /\ pad \in Held /\ pad \in DOMAIN view
           /\ frame[pad] \in Frame /\ view[pad] \in Frame
           /\ created[pad] /\ phase = "begin" => frame[pad] = view[pad]
           /\ created[pad] /\ phase # "begin" => Written(pad)
<1> USE DEF IInv, Data
<1>1. pad \in Pads /\ pad \in Held
  BY FirstCall DEF CallsOK, pad
<1>2. ~InSetup(pad)
  BY DEF InSetup
<1>3. pad \in DOMAIN view
  BY <1>1, <1>2 DEF Owned
<1>4. frame[pad] \in Frame /\ view[pad] \in Frame
  BY <1>1, <1>3 DEF TypeOK, Frame
<1>5. phase # "begin" <=> InReport(pad)
  BY DEF CallsOK, PhasesOf, InReport
<1>6. created[pad] => IF InReport(pad) THEN Written(pad) ELSE frame[pad] = view[pad]
  BY <1>1 DEF FramesOK
<1> QED  BY <1>1, <1>3, <1>4, <1>5, <1>6

LEMMA InputKeysKeepsIInv == IInv /\ InputKeys => IInv'
<1> SUFFICES ASSUME IInv, InputKeys PROVE IInv'
  OBVIOUS
<1> DEFINE to == [keys |-> calls[1].keys \cap Keys(pad), axes |-> frame[pad].axes]
<1>1. calls # <<>> /\ calls[1].op = "buttons" /\ phase = "begin"
  BY DEF InputKeys, At
<1>2. /\ Report(pad, to) /\ phase' = "axes"
      /\ UNCHANGED <<profiles, gamepads, fd, view, valid, told, calls>>
      /\ angles' = angles
  BY DEF InputKeys, Proceed
<1>3. /\ TypeOK /\ pad \in Pads /\ frame[pad] \in Frame
      /\ created[pad] => frame[pad] = view[pad]
  BY <1>1, ReportedPad DEF Data
<1>4. to \in Frame
  BY <1>3, PadTypes DEF Frame
<1>5. created[pad] => Complete(to, "axes")
  BY <1>1, <1>3 DEF Complete
<1>6. "axes" \in PhasesOf(calls[1].op) /\ calls[1].op \in Data
  BY <1>1 DEF PhasesOf, Data
<1>7. angles' \in [{"x", "z"} -> Axis]
  BY <1>2, <1>3 DEF TypeOK
<1> HIDE DEF to
<1> QED  BY <1>1, <1>2, <1>4, <1>5, <1>6, <1>7, ReportGoesOn

LEMMA InputDpadKeepsIInv == IInv /\ InputDpad => IInv'
<1> SUFFICES ASSUME IInv, InputDpad PROVE IInv'
  OBVIOUS
<1> DEFINE on == calls[1].keys \cap Keys(pad)
           x == IF "RIGHT" \in on THEN 1 ELSE IF "LEFT" \in on THEN -1 ELSE 0
           y == IF "DOWN" \in on THEN -1 ELSE IF "UP" \in on THEN 1 ELSE 0
           new == IF "Dpad" \in Sticks(pad)
                  THEN [frame[pad].axes EXCEPT !["Dpad"] = SetValue("Dpad", x, y)]
                  ELSE frame[pad].axes
           to == [keys |-> frame[pad].keys, axes |-> new]
<1>1. calls # <<>> /\ calls[1].op = "buttons" /\ phase = "axes"
  BY DEF InputDpad, At
<1>2. /\ Report(pad, to) /\ phase' = "sync"
      /\ UNCHANGED <<profiles, gamepads, fd, view, valid, told, calls>>
      /\ angles' = angles
  BY DEF InputDpad, InputStick, Proceed
<1>3. /\ TypeOK /\ pad \in Pads /\ frame[pad] \in Frame /\ view[pad] \in Frame
      /\ created[pad] => Written(pad)
  BY <1>1, ReportedPad DEF Data
<1>4. created[pad] => frame[pad] = [keys |-> on, axes |-> view[pad].axes]
  BY <1>1, <1>3 DEF Written
<1>5. SetValue("Dpad", x, y) \in Axis \X Axis
  BY ValuesAreClamped DEF AllSticks
<1>6. SetValue("Dpad", x, y) = J!HatOf(on)
  <2> HIDE DEF on
  <2> QED  BY HatFollowsKeys
<1>7. new \in [AllSticks -> Axis \X Axis]
  <2> HIDE DEF x, y
  <2> QED  BY <1>3, <1>5 DEF Frame
<1>8. to \in Frame
  <2> HIDE DEF new
  <2> QED  BY <1>3, <1>7 DEF Frame
<1>9. created[pad] => Complete(to, "sync")
  <2> SUFFICES ASSUME created[pad]  PROVE to = Pressed(pad, calls[1].keys)
    BY <1>1 DEF Complete
  <2>1. frame[pad].keys = on /\ frame[pad].axes = view[pad].axes
    BY <1>4
  <2> HIDE DEF x, y
  <2>2. new = IF "Dpad" \in Sticks(pad)
              THEN [view[pad].axes EXCEPT !["Dpad"] = J!HatOf(on)]
              ELSE view[pad].axes
    BY <1>6, <2>1
  <2> HIDE DEF new
  <2> QED  BY <2>1, <2>2 DEF Pressed
<1>10. "sync" \in PhasesOf(calls[1].op) /\ calls[1].op \in Data
  BY <1>1 DEF PhasesOf, Data
<1>11. angles' \in [{"x", "z"} -> Axis]
  BY <1>2, <1>3 DEF TypeOK
<1> HIDE DEF to
<1> QED  BY <1>1, <1>2, <1>8, <1>9, <1>10, <1>11, ReportGoesOn

\* A stick moves, whether the pad has it or not.
LEMMA MoveGoesOn ==
    ASSUME IInv, calls # <<>>, calls[1].op \in {"stick", "gyro"}, phase = "begin",
           NEW s \in AllSticks \ {"Dpad"}, NEW x \in Int, NEW y \in Int,
           InputStick(pad, s, x, y), phase' = "sync",
           UNCHANGED <<profiles, gamepads, fd, view, valid, told, calls>>,
           angles' \in [{"x", "z"} -> Axis]
    PROVE  IInv'
<1> DEFINE new == IF s \in Sticks(pad)
                  THEN [frame[pad].axes EXCEPT ![s] = SetValue(s, x, y)]
                  ELSE frame[pad].axes
           to == [keys |-> frame[pad].keys, axes |-> new]
<1>1. Report(pad, to)
  BY DEF InputStick
<1>2. /\ TypeOK /\ pad \in Pads /\ frame[pad] \in Frame /\ view[pad] \in Frame
      /\ created[pad] => frame[pad] = view[pad]
  BY ReportedPad DEF Data
<1>3. SetValue(s, x, y) \in Axis \X Axis
  BY ValuesAreClamped
<1>4. to \in Frame
  <2>1. new \in [AllSticks -> Axis \X Axis]
    BY <1>2, <1>3 DEF Frame
  <2> HIDE DEF new
  <2> QED  BY <1>2, <2>1 DEF Frame
<1>5. created[pad] => Complete(to, "sync")
  <2>1. created[pad] => to = Moved(pad, s, SetValue(s, x, y))
    BY <1>2 DEF Moved
  <2> HIDE DEF to
  <2>2. ASSUME created[pad]
        PROVE  \E t \in AllSticks \ {"Dpad"}, position \in Axis \X Axis :
                  to = Moved(pad, t, position)
    BY <1>3, <2>1, <2>2, Zenon
  <2>3. calls[1].op # "buttons"
    OBVIOUS
  <2> QED  BY <2>2, <2>3, Zenon DEF Complete
<1>6. "sync" \in PhasesOf(calls[1].op) /\ calls[1].op \in Data
  BY DEF PhasesOf, Data
<1> HIDE DEF to
<1> QED  BY <1>1, <1>4, <1>5, <1>6, ReportGoesOn

LEMMA InputMoveKeepsIInv == IInv /\ InputMove => IInv'
<1> SUFFICES ASSUME IInv, InputMove PROVE IInv'
  OBVIOUS
<1>1. calls # <<>> /\ calls[1].op = "stick" /\ phase = "begin" /\ TypeOK
  BY DEF InputMove, At, IInv
<1>2. /\ calls[1].stick \in AllSticks \ {"Dpad"}
      /\ calls[1].x \in Int /\ calls[1].y \in Int
  BY <1>1, FirstCall DEF Call
<1> QED
  BY <1>1, <1>2, MoveGoesOn DEF InputMove, Proceed, TypeOK

LEMMA InputGyroKeepsIInv == IInv /\ InputGyro => IInv'
<1> SUFFICES ASSUME IInv, InputGyro PROVE IInv'
  OBVIOUS
<1> DEFINE sx == Clamp(StickMin, StickMax, angles["x"] + calls[1].x)
           sz == Clamp(StickMin, StickMax, angles["z"] + calls[1].z)
<1>1. calls # <<>> /\ calls[1].op = "gyro" /\ phase = "begin" /\ TypeOK
  BY DEF InputGyro, At, IInv
<1>2. Axis \subseteq Int
  BY StickMaxAssumption DEF Axis, StickMin
<1>3. calls[1].x \in Int /\ calls[1].z \in Int
  BY <1>1, FirstCall, TurnsAssumption DEF Call
<1>4. angles["x"] + calls[1].x \in Int /\ angles["z"] + calls[1].z \in Int
  BY <1>1, <1>2, <1>3 DEF TypeOK
<1>5. sx \in Axis /\ sz \in Axis
  BY <1>4, ClampedAngles
<1>6. /\ angles' = [a \in {"x", "z"} |-> IF a = "x" THEN sx ELSE sz]
      /\ InputStick(pad, "Stick", -sx, -sz)
      /\ phase' = "sync"
      /\ UNCHANGED <<profiles, gamepads, fd, view, valid, told, calls>>
  BY DEF InputGyro, Proceed
<1> HIDE DEF sx, sz
<1>7. angles' \in [{"x", "z"} -> Axis] /\ -sx \in Int /\ -sz \in Int
  BY <1>2, <1>5, <1>6
<1>8. "Stick" \in AllSticks \ {"Dpad"}
  BY DEF AllSticks
<1> QED  BY <1>1, <1>6, <1>7, <1>8, MoveGoesOn

LEMMA SyncKeepsIInv == IInv /\ Sync => IInv'
<1> SUFFICES ASSUME IInv, Sync PROVE IInv'
  OBVIOUS
<1> USE DEF IInv
<1>1. calls # <<>> /\ calls[1].op \in Data /\ phase = "sync"
  BY DEF Sync, At, Data
<1>2. /\ calls' = Tail(calls) /\ phase' = "begin"
      /\ UNCHANGED <<profiles, gamepads, fd, angles, valid, told>>
  BY DEF Sync, NextCall
<1>3. /\ pad \in Pads /\ pad \in Held /\ pad = calls[1].pad
      /\ \A i \in DOMAIN calls' : i + 1 \in DOMAIN calls /\ calls'[i] = calls[i + 1]
      /\ \A i \in DOMAIN calls : i = 1 \/ i - 1 \in DOMAIN calls'
      /\ calls' \in Seq(Call)
  BY <1>1, <1>2, FirstCall DEF CallsOK, pad, Data
<1>4. /\ pad \in DOMAIN view /\ frame[pad] \in Frame
      /\ created[pad] => Written(pad)
  BY <1>1, ReportedPad
<1>5. Held' = Held /\ Held \subseteq Pads
  BY <1>2 DEF Held, ToSet, TypeOK
<1>6. /\ created \in [Pads -> BOOLEAN] /\ frame \in [Pads -> Frame]
      /\ DOMAIN view \subseteq Pads /\ view \in [DOMAIN view -> Frame]
  BY DEF TypeOK, Frame
<1>7. /\ created' \in [Pads -> BOOLEAN] /\ frame' \in [Pads -> Frame]
      /\ DOMAIN view' = DOMAIN view /\ view' \in [DOMAIN view -> Frame]
      /\ \A q \in Pads : q # pad => created'[q] = created[q] /\ frame'[q] = frame[q]
      /\ \A q \in DOMAIN view : q # pad => view'[q] = view[q]
      /\ created'[pad] => created[pad] /\ frame'[pad] = frame[pad] /\ view'[pad] = frame[pad]
  <2>1. CASE Works(pad, frame[pad]) /\ view' = [view EXCEPT ![pad] = frame[pad]]
    BY <1>3, <1>4, <1>6, <2>1 DEF Works
  <2>2. CASE Fails(pad) /\ UNCHANGED view
    BY <1>3, <1>6, <2>2, NeutralType DEF Fails
  <2> QED  BY <2>1, <2>2 DEF Sync
<1>8. TypeOK'
  BY <1>2, <1>3, <1>6, <1>7 DEF TypeOK, Frame
<1>9. \A i \in DOMAIN calls : calls[i].op = calls[1].op
  BY <1>1, FirstCall DEF CallsOK
<1>10. \A i \in DOMAIN calls' :
         calls'[i].op = calls[1].op /\ calls'[i].pad \in Held'
  BY <1>1, <1>3, <1>5, <1>9 DEF CallsOK, Data
<1>11. CallsOK'
  <2>1. calls' # <<>> => 1 \in DOMAIN calls'
    BY <1>3
  <2> QED  BY <1>1, <1>2, <1>10, <2>1 DEF CallsOK, PhasesOf, Data
<1>12. \A i \in DOMAIN calls : calls[i].op # "delete"
  BY <1>1, <1>9 DEF Data
<1>13. ListsOK'
  BY <1>2, <1>5, <1>12 DEF ListsOK
<1>14. MasksOK'
  BY <1>2, <1>3 DEF MasksOK
<1>15. \A p : /\ ~InSetup(p) /\ ~InSetup(p)' /\ ~InReport(p)'
              /\ InReport(p) => p = pad
  BY <1>1, <1>2 DEF InSetup, InReport, Data
<1>16. Owned'
  <2> SUFFICES ASSUME NEW p \in Pads
               PROVE  /\ fd'[p] <=> p \in Held'
                      /\ p \in DOMAIN view' <=> p \in Held'
                      /\ created'[p] => p \in Held'
    BY <1>15 DEF Owned
  <2> QED  BY <1>2, <1>3, <1>5, <1>7, <1>15 DEF Owned
<1>17. Fresh'
  BY <1>2, <1>3, <1>5, <1>7 DEF Fresh
<1>18. \A p \in Held : p \in Pads /\ p \in DOMAIN view
  BY <1>5, <1>15 DEF Owned
<1>19. FramesOK'
  <2> SUFFICES ASSUME NEW p \in Held, created'[p]
               PROVE  /\ frame'[p] = view'[p]
                      /\ \/ view'[p].keys = told'[p] \cap Keys(p)
                         \/ \E i \in DOMAIN calls' :
                              calls'[i].op = "buttons" /\ calls'[i].pad = p
    BY <1>5, <1>15 DEF FramesOK
  <2>1. created[p] /\ told'[p] = told[p]
    BY <1>2, <1>7, <1>18
  <2>2. \/ view[p].keys = told[p] \cap Keys(p)
        \/ \E i \in DOMAIN calls : calls[i].op = "buttons" /\ calls[i].pad = p
    BY <2>1 DEF FramesOK
  <2>3. ASSUME NEW i \in DOMAIN calls, calls[i].op = "buttons", calls[i].pad = p, i # 1
        PROVE  \E j \in DOMAIN calls' : calls'[j].op = "buttons" /\ calls'[j].pad = p
    <3>1. i \in Int /\ i - 1 + 1 = i
      BY DEF TypeOK
    <3>2. i - 1 \in DOMAIN calls' /\ calls'[i - 1] = calls[i]
      BY <1>3, <2>3, <3>1
    <3> QED  BY <2>3, <3>2
  <2>4. CASE p # pad
    <3>1. frame'[p] = view'[p] /\ view'[p] = view[p]
      BY <1>7, <1>15, <1>18, <2>1, <2>4 DEF FramesOK
    <3>2. \A i \in DOMAIN calls : calls[i].pad = p => i # 1
      BY <1>3, <2>4
    <3> QED  BY <2>1, <2>2, <2>3, <3>1, <3>2
  <2>5. CASE p = pad
    <3>1. frame'[p] = view'[p] /\ view'[p] = frame[p]
      BY <1>7, <2>5
    <3>2. CASE calls[1].op = "buttons"
      <4>1. frame[p].keys = calls[1].keys \cap Keys(p)
        BY <1>1, <1>4, <2>1, <2>5, <3>2 DEF Written, Pressed
      <4>2. calls[1].keys = told[p]
        BY <1>1, <1>3, <2>5, <3>2, FirstCall DEF MasksOK
      <4> QED  BY <2>1, <3>1, <4>1, <4>2
    <3>3. CASE calls[1].op # "buttons"
      <4>0. PICK s \in AllSticks, position \in Axis \X Axis :
              frame[p] = Moved(p, s, position)
        BY <1>4, <2>1, <2>5, <3>3 DEF Written
      <4>1. frame[p].keys = view[p].keys
        BY <4>0 DEF Moved
      <4>2. \A i \in DOMAIN calls : calls[i].op # "buttons"
        BY <1>9, <3>3
      <4> QED  BY <2>1, <2>2, <3>1, <4>1, <4>2
    <3> QED  BY <3>2, <3>3
  <2> QED  BY <2>4, <2>5
<1> QED  BY <1>8, <1>11, <1>13, <1>14, <1>16, <1>17, <1>19

\* The conjunction of who owns what, what is written and what was told is
\* inductive: no order of profiles, signals and failures breaks it.
THEOREM Invariance == Spec => []IInv
<1>1. Init => IInv
  BY InitIInv
<1>2. IInv /\ [Next]_vars => IInv'
  <2> SUFFICES ASSUME IInv, [Next]_vars  PROVE IInv'
    OBVIOUS
  <2>1. CASE Load
    BY <2>1, LoadKeepsIInv
  <2>2. CASE Unload
    BY <2>2, UnloadKeepsIInv
  <2>3. CASE Signal
    <3>1. PICK p \in Pads :
            \/ \E keys \in SUBSET Inputs : ButtonData(Group(p).type, Group(p).id, keys)
            \/ \E l, r \in Leans : StickData(Group(p).type, Group(p).id, l, r)
            \/ \E d \in Readings : PressureData(Group(p).id, d)
            \/ \E x, z \in Turns : GyroData(Group(p).id, x, z)
      BY <2>3 DEF Signal
    <3> QED
      BY <3>1, ButtonDataKeepsIInv, StickDataKeepsIInv, PressureDataKeepsIInv,
         GyroDataKeepsIInv
  <2>4. CASE Handler
    BY <2>4, SetupOpenKeepsIInv, SetupConfigureKeepsIInv, SetupCreateKeepsIInv,
       SetupKeepKeepsIInv, SetupDropKeepsIInv, DeleteKeepsIInv, InputKeysKeepsIInv,
       InputDpadKeepsIInv, InputMoveKeepsIInv, InputGyroKeepsIInv, SyncKeepsIInv
    DEF Handler
  <2>5. CASE UNCHANGED vars
    <3> USE <2>5 DEF vars, device
    <3>1. TypeOK' /\ MasksOK'
      BY DEF IInv, TypeOK, MasksOK
    <3>2. CallsOK' /\ ListsOK' /\ Fresh'
      BY DEF IInv, CallsOK, ListsOK, Fresh, Held
    <3>3. Owned'
      BY DEF IInv, Owned, Held, InSetup, pad
    <3>4. \A p : InReport(p)' = InReport(p)
      BY DEF InReport, pad
    <3>5. \A p : Written(p)' = Written(p)
      BY DEF Written, Pressed, Moved
    <3>6. FramesOK'
      BY <3>4, <3>5 DEF IInv, FramesOK, Held
    <3> QED  BY <3>1, <3>2, <3>3, <3>6 DEF IInv
  <2> QED  BY <2>1, <2>2, <2>3, <2>4, <2>5 DEF Next
<1> QED  BY <1>1, <1>2, PTL DEF Spec

\* Every variable has its type; the frames are made of keys and positions the
\* event device has.
THEOREM TypeCorrect == Spec => []TypeOK
<1>1. IInv => TypeOK
  BY DEF IInv
<1> QED  BY <1>1, Invariance, PTL

\* No descriptor and no event device leaks, and none is closed too early:
\* between two handlers the gamepads in the lists have one, and nobody else.
THEOREM NothingLeaks == Spec => []DescriptorsAreOwned
<1>1. IInv => DescriptorsAreOwned
  <2> SUFFICES ASSUME IInv, Idle, NEW p \in Pads
               PROVE  /\ fd[p] <=> p \in Held
                      /\ p \in DOMAIN view <=> p \in Held
                      /\ p \in Held => p[1] \in profiles
    BY DEF DescriptorsAreOwned, Held
  <2>1. ~InSetup(p)
    BY DEF InSetup, Idle
  <2>2. \A q \in Held : q[1] \in profiles
    BY DEF IInv, ListsOK, Idle
  <2> QED  BY <2>1, <2>2 DEF IInv, Owned
<1> QED  BY <1>1, Invariance, PTL

\* A gamepad that works shows the last mask of its remote, however many other
\* gamepads serve this remote and whichever of them have failed.
THEOREM MasksAreShown == Spec => []ToldIsShown
<1>1. IInv => ToldIsShown
  BY DEF IInv, ToldIsShown, FramesOK, Idle, Held
<1> QED  BY <1>1, Invariance, PTL

-----------------------------------------------------------------------------
(* Whole frames only.                                                      *)

LEMMA EraseIsVanish ==
    ASSUME TypeOK, NEW p \in Pads, Destructor(p)
    PROVE  J!JoystickNext \/ UNCHANGED view
<1>1. CASE fd[p] /\ p \in DOMAIN view
  <2>1. view' = [q \in DOMAIN view \ {p} |-> view[q]]
    BY <1>1 DEF Destructor
  <2>2. J!Vanish(p)
    BY <1>1, <2>1 DEF J!Vanish
  <2> QED  BY <2>2 DEF J!JoystickNext
<1>2. CASE fd[p] /\ p \notin DOMAIN view
  <2>1. view' = [q \in DOMAIN view \ {p} |-> view[q]]
    BY <1>2 DEF Destructor
  <2>2. view = [q \in DOMAIN view |-> view[q]] /\ DOMAIN view \ {p} = DOMAIN view
    BY <1>2 DEF TypeOK
  <2> QED  BY <2>1, <2>2
<1>3. CASE ~fd[p]
  BY <1>3 DEF Destructor
<1> QED  BY <1>1, <1>2, <1>3

LEMMA SyncIsWhole == IInv /\ Sync => J!JoystickNext \/ UNCHANGED view
<1> SUFFICES ASSUME IInv, Sync, view' # view
             PROVE  J!JoystickNext
  OBVIOUS
<1>1. calls # <<>> /\ calls[1].op \in Data /\ phase = "sync"
  BY DEF Sync, At, Data
<1>2. created[pad] /\ view' = [view EXCEPT ![pad] = frame[pad]]
  BY DEF Sync, Works
<1>3. /\ pad \in Pads /\ pad \in DOMAIN view
      /\ view[pad] \in Frame /\ Written(pad)
  BY <1>1, <1>2, ReportedPad
<1>4. CASE calls[1].op = "buttons"
  <2> DEFINE keys == calls[1].keys \cap Keys(pad)
  <2>1. frame[pad] = Pressed(pad, calls[1].keys)
    BY <1>1, <1>3, <1>4 DEF Written
  <2>2. J!Press(pad, keys)
    BY <1>2, <1>3, <2>1 DEF J!Press, Pressed
  <2>3. keys \in SUBSET Keys(pad)
    OBVIOUS
  <2> HIDE DEF keys
  <2> QED  BY <1>3, <2>2, <2>3 DEF J!JoystickNext
<1>5. CASE calls[1].op # "buttons"
  <2>1. PICK s \in AllSticks \ {"Dpad"}, position \in Axis \X Axis :
          frame[pad] = Moved(pad, s, position)
    BY <1>3, <1>5 DEF Written
  <2>2. s \in Sticks(pad)
    <3>1. ASSUME s \notin Sticks(pad)  PROVE FALSE
      <4>1. frame[pad] = [keys |-> view[pad].keys, axes |-> view[pad].axes]
        BY <2>1, <3>1 DEF Moved
      <4>2. frame[pad] = view[pad]
        BY <1>3, <4>1 DEF Frame
      <4>3. view = [q \in DOMAIN view |-> view[q]]
        BY DEF IInv, TypeOK
      <4> QED  BY <1>2, <1>3, <4>2, <4>3
    <3> QED  BY <3>1
  <2>3. J!Move(pad, s, position)
    BY <1>2, <1>3, <2>1, <2>2 DEF J!Move, Moved
  <2>4. s \in Sticks(pad) \ {"Dpad"}
    BY <2>2
  <2> QED  BY <1>3, <2>3, <2>4 DEF J!JoystickNext
<1> QED  BY <1>4, <1>5

LEMMA RefinesStep == IInv /\ [Next]_vars => [J!JoystickNext]_view
<1> SUFFICES ASSUME IInv, [Next]_vars
             PROVE  J!JoystickNext \/ UNCHANGED view
  OBVIOUS
<1>1. CASE SetupCreate
  <2>1. calls # <<>> /\ TypeOK
    BY <1>1 DEF SetupCreate, At, IInv
  <2>2. pad \in Pads
    BY <2>1, FirstCall
  <2>3. J!Appear(pad) \/ UNCHANGED view
    BY <1>1 DEF SetupCreate
  <2> QED  BY <2>2, <2>3 DEF J!JoystickNext
<1>2. CASE SetupDrop \/ Delete
  <2>1. calls # <<>> /\ TypeOK
    BY <1>2 DEF SetupDrop, Delete, At, IInv
  <2>2. pad \in Pads
    BY <2>1, FirstCall
  <2> QED  BY <1>2, <2>1, <2>2, EraseIsVanish DEF SetupDrop, Delete
<1>3. CASE Sync
  BY <1>3, SyncIsWhole
<1>4. CASE \/ SetupOpen \/ SetupConfigure \/ SetupKeep
           \/ InputKeys \/ InputDpad \/ InputMove \/ InputGyro
  BY <1>4 DEF SetupOpen, SetupConfigure, SetupKeep, InputKeys, InputDpad, InputMove,
     InputGyro, device
<1>5. CASE Load \/ Unload \/ Signal
  BY <1>5 DEF Load, Unload, Signal, ButtonData, StickData, PressureData, GyroData, device
<1>6. CASE UNCHANGED vars
  BY <1>6 DEF vars, device
<1> QED  BY <1>1, <1>2, <1>3, <1>4, <1>5, <1>6 DEF Next, Handler

\* What a program reads from the event devices are whole frames, in which the
\* hat fits the keys, whichever writes of a report failed.
THEOREM GamepadImplementsJoystick == Spec => ImplementsJoystick
<1>1. Init => J!JoystickInit
  BY DEF Init, J!JoystickInit
<1>2. IInv /\ [Next]_vars => [J!JoystickNext]_view
  BY RefinesStep
<1> QED
  BY <1>1, <1>2, Invariance, PTL DEF Spec, ImplementsJoystick, J!JoystickSpec


\* What programs read: no key the gamepad does not have, and a hat, where there
\* is one, that points where the keys of the same frame do.
HatFits ==
    \A p \in DOMAIN view :
        /\ view[p].keys \subseteq Keys(p)
        /\ "Dpad" \in Sticks(p) => view[p].axes["Dpad"] = J!HatOf(view[p].keys)

WholeView ==
    /\ view = [p \in DOMAIN view |-> view[p]]
    /\ \A p \in DOMAIN view : view[p].axes \in [AllSticks -> Axis \X Axis]

HatInv == WholeView /\ HatFits

\* Whatever gives its readers whole frames keeps the hat with the keys: the
\* axes of a stick and the mask of keys are different frames, and neither may
\* undo what the other has set.
LEMMA WholeFramesFit == J!JoystickSpec => []HatInv
<1>1. <<0, 0>> \in Axis \X Axis /\ \A keys : J!HatOf(keys) \in Axis \X Axis
  BY StickMaxAssumption DEF Axis, StickMin, J!HatOf
<1>2. "Dpad" \in AllSticks /\ J!HatOf({}) = <<0, 0>>
  BY DEF AllSticks, J!HatOf
<1>3. J!JoystickInit => HatInv
  BY DEF J!JoystickInit, HatInv, WholeView, HatFits
<1>4. HatInv /\ [J!JoystickNext]_view => HatInv'
  <2> SUFFICES ASSUME HatInv, [J!JoystickNext]_view  PROVE HatInv'
    OBVIOUS
  <2> USE DEF HatInv, WholeView, HatFits
  <2>1. ASSUME NEW p \in Pads, J!Appear(p)  PROVE HatInv'
    <3>1. J!Neutral.keys = {} /\ J!Neutral.axes = [s \in AllSticks |-> <<0, 0>>]
      BY DEF J!Neutral, J!AllSticks, AllSticks
    <3>2. /\ DOMAIN view' = DOMAIN view \cup {p}
          /\ \A q \in DOMAIN view' : view'[q] = IF q = p THEN J!Neutral ELSE view[q]
      BY <2>1 DEF J!Appear
    <3>3. view' = [q \in DOMAIN view' |-> view'[q]]
      BY <2>1 DEF J!Appear
    <3> DEFINE new == J!Neutral
    <3>4. /\ new.keys \subseteq Keys(p)
          /\ new.axes \in [AllSticks -> Axis \X Axis]
          /\ new.axes["Dpad"] = J!HatOf(new.keys)
      BY <1>1, <1>2, <3>1
    <3> HIDE DEF new
    <3>5. ASSUME NEW q \in DOMAIN view'
          PROVE  /\ view'[q].keys \subseteq Keys(q)
                 /\ view'[q].axes \in [AllSticks -> Axis \X Axis]
                 /\ "Dpad" \in Sticks(q) => view'[q].axes["Dpad"] = J!HatOf(view'[q].keys)
      <4>1. CASE q = p
        <5>1. view'[q] = new
          BY <3>2, <4>1 DEF new
        <5> QED  BY <3>4, <4>1, <5>1
      <4>2. CASE q # p
        <5>1. q \in DOMAIN view /\ view'[q] = view[q]
          BY <3>2, <3>5, <4>2
        <5> QED  BY <5>1
      <4> QED  BY <4>1, <4>2
    <3> QED  BY <3>3, <3>5
  <2>2. ASSUME NEW p \in Pads, J!Vanish(p)  PROVE HatInv'
    BY <2>2 DEF J!Vanish
  <2>3. ASSUME NEW p \in Pads, NEW keys \in SUBSET Keys(p), J!Press(p, keys)
        PROVE  HatInv'
    <3> DEFINE to == [keys |-> keys,
                      axes |-> IF "Dpad" \in Sticks(p)
                               THEN [view[p].axes EXCEPT !["Dpad"] = J!HatOf(keys)]
                               ELSE view[p].axes]
    <3>1. p \in DOMAIN view /\ view' = [view EXCEPT ![p] = to]
      BY <2>3 DEF J!Press
    <3>2. /\ to.keys = keys
          /\ to.axes \in [AllSticks -> Axis \X Axis]
          /\ "Dpad" \in Sticks(p) => to.axes["Dpad"] = J!HatOf(keys)
      BY <1>1, <1>2, <3>1
    <3> HIDE DEF to
    <3> QED  BY <3>1, <3>2
  <2>4. ASSUME NEW p \in Pads, NEW s \in Sticks(p) \ {"Dpad"},
               NEW position \in Axis \X Axis, J!Move(p, s, position)
        PROVE  HatInv'
    <3> DEFINE to == [keys |-> view[p].keys,
                      axes |-> [view[p].axes EXCEPT ![s] = position]]
    <3>1. p \in DOMAIN view /\ view' = [view EXCEPT ![p] = to]
      BY <2>4 DEF J!Move
    <3>2. /\ to.keys = view[p].keys
          /\ to.axes \in [AllSticks -> Axis \X Axis]
          /\ to.axes["Dpad"] = view[p].axes["Dpad"]
      BY <1>2, <2>4, <3>1
    <3> HIDE DEF to
    <3> QED  BY <3>1, <3>2
  <2>5. CASE UNCHANGED view
    BY <2>5
  <2> QED  BY <2>1, <2>2, <2>3, <2>4, <2>5 DEF J!JoystickNext
<1> QED  BY <1>3, <1>4, PTL DEF J!JoystickSpec

\* The same of the gamepads, whichever writes fail.
THEOREM HatFollows == Spec => []HatFits
<1>1. HatInv => HatFits
  BY DEF HatInv
<1> QED
  BY <1>1, GamepadImplementsJoystick, WholeFramesFit, PTL DEF ImplementsJoystick
=============================================================================
