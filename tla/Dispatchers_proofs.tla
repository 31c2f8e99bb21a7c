------------------------- MODULE Dispatchers_proofs -------------------------
(***************************************************************************)
(* Theorems about the tick of one remote, for any devices it can have and  *)
(* any number of events: what the controller's table says is connected is  *)
(* listed when the tick ends, data follows the connection of its device,   *)
(* and the wiimote adaptor does not list an id that is free.               *)
(***************************************************************************)
EXTENDS DispatcherProperties, SequenceTheorems, TLAPS

\* Whether an adaptor a of those in L or not lists the id after the first n
\* events of s: its last status says so.
SaysOn(e, a) == e.kind = "status" /\ e.on = TRUE /\ a \in StatusAdaptor(e.dev)
SaysOff(e, a) == e.kind = "status" /\ e.on = FALSE /\ a \in StatusAdaptor(e.dev)
ListedAfter(L, a, s, n) ==
    \/ \E k \in 1 .. n :
         SaysOn(s[k], a) /\ \A l \in k + 1 .. n : ~SaysOff(s[l], a)
    \/ a \in L /\ \A l \in 1 .. n : ~SaysOff(s[l], a)

\* Events on their way to the adaptors are those of the batch, then those of
\* the queue.
WillList(a) == ListedAfter(listed, a, Drained, Len(Drained))

Places ==
    /\ pc = "idle" => ret = <<>>
    /\ pc = "dispatch" => queue = <<>>
    /\ pc # "idle" => alive
    /\ ~alive => ~connected /\ opened = {}
    /\ ~connected => table = {} /\ queue = <<>> /\ (pc = "process" => goneSent)
OpenedInTable == ~goneSent => opened \subseteq table
QueuedStatuses == \A n \in DOMAIN queue : queue[n].kind = "status"
TableIsTold == \A d \in table \cap Separate, a \in Adaptors :
                  a \in StatusAdaptor(d) => WillList(a)
WiimoteIsTold == WillList("wiimote") => table \cap {"wiimote", "motion_plus"} # {}
DataIsAnnounced ==
    \A n \in DOMAIN ret, a \in Adaptors :
        ret[n].kind = "data" /\ ret[n].dev \in Separate /\ a \in StatusAdaptor(ret[n].dev)
        => ListedAfter(listed, a, ret, n - 1)

IInv == /\ TypeOK /\ Places /\ OpenedInTable /\ QueuedStatuses
        /\ TableIsTold /\ WiimoteIsTold /\ DataIsAnnounced

-----------------------------------------------------------------------------
(* Statuses and lists.                                                     *)

\* What is listed depends on the events so far.
LEMMA ListedIsLocal ==
    ASSUME NEW L, NEW a, NEW s, NEW t, NEW n \in Nat, \A k \in 1 .. n : s[k] = t[k]
    PROVE  ListedAfter(L, a, s, n) <=> ListedAfter(L, a, t, n)
<1>1. \A k \in 1 .. n : \A l \in k + 1 .. n : s[l] = t[l]
  OBVIOUS
<1> QED  BY <1>1 DEF ListedAfter

\* After more events, none of which says no: it was listed or one says yes.
LEMMA ListedLater ==
    ASSUME NEW L, NEW a, NEW s \in Seq(Event), NEW t \in Seq(Event),
           \A k \in DOMAIN t : ~SaysOff(t[k], a),
           ListedAfter(L, a, s, Len(s)) \/ \E k \in DOMAIN t : SaysOn(t[k], a)
    PROVE  ListedAfter(L, a, s \o t, Len(s \o t))
<1> DEFINE st == s \o t
<1>1. /\ Len(s) \in Nat /\ Len(t) \in Nat /\ Len(st) = Len(s) + Len(t)
      /\ DOMAIN t = 1 .. Len(t)
      /\ \A k \in 1 .. Len(s) : st[k] = s[k]
      /\ \A k \in 1 .. Len(t) : st[k + Len(s)] = t[k]
  BY ConcatProperties
<1> HIDE DEF st
<1>2. \A l \in Len(s) + 1 .. Len(st) : ~SaysOff(st[l], a)
  <2>1. ASSUME NEW l \in Len(s) + 1 .. Len(st)
        PROVE  ~SaysOff(st[l], a)
    <3>1. l - Len(s) \in 1 .. Len(t) /\ (l - Len(s)) + Len(s) = l
      BY <1>1
    <3>2. st[l] = t[l - Len(s)]
      BY <1>1, <3>1
    <3> QED  BY <1>1, <3>1, <3>2
  <2> QED  BY <2>1
<1>3. CASE \E k \in DOMAIN t : SaysOn(t[k], a)
  <2>1. PICK k \in 1 .. Len(t) : SaysOn(t[k], a)
    BY <1>1, <1>3
  <2>2. /\ k + Len(s) \in 1 .. Len(st)
        /\ \A l \in (k + Len(s)) + 1 .. Len(st) : l \in Len(s) + 1 .. Len(st)
    BY <1>1
  <2>3. SaysOn(st[k + Len(s)], a)
    BY <1>1, <2>1
  <2> QED  BY <1>2, <2>2, <2>3 DEF ListedAfter, st
<1>4. CASE \E k \in 1 .. Len(s) :
             SaysOn(s[k], a) /\ \A l \in k + 1 .. Len(s) : ~SaysOff(s[l], a)
  <2>1. PICK k \in 1 .. Len(s) :
               SaysOn(s[k], a) /\ \A l \in k + 1 .. Len(s) : ~SaysOff(s[l], a)
    BY <1>4
  <2>2. k \in 1 .. Len(st) /\ SaysOn(st[k], a)
    BY <1>1, <2>1
  <2>3. ASSUME NEW l \in k + 1 .. Len(st) PROVE ~SaysOff(st[l], a)
    <3>1. CASE l <= Len(s)
      <4>1. l \in k + 1 .. Len(s) /\ l \in 1 .. Len(s)
        BY <1>1, <3>1
      <4>2. ~SaysOff(s[l], a) /\ st[l] = s[l]
        BY <1>1, <2>1, <4>1
      <4> QED  BY <4>2
    <3>2. CASE l > Len(s)
      BY <1>1, <1>2, <3>2
    <3> QED  BY <1>1, <3>1, <3>2
  <2> QED  BY <2>2, <2>3 DEF ListedAfter, st
<1>5. CASE a \in L /\ \A l \in 1 .. Len(s) : ~SaysOff(s[l], a)
  <2>1. ASSUME NEW l \in 1 .. Len(st) PROVE ~SaysOff(st[l], a)
    <3>1. CASE l <= Len(s)
      BY <1>1, <1>5, <3>1
    <3>2. CASE l > Len(s)
      BY <1>1, <1>2, <3>2
    <3> QED  BY <1>1, <3>1, <3>2
  <2> QED  BY <1>5, <2>1 DEF ListedAfter, st
<1> QED  BY <1>3, <1>4, <1>5 DEF ListedAfter

\* After more events, none of which says yes: it was listed and none says no.
LEMMA ListedEarlier ==
    ASSUME NEW L, NEW a, NEW s \in Seq(Event), NEW t \in Seq(Event),
           \A k \in DOMAIN t : ~SaysOn(t[k], a),
           ListedAfter(L, a, s \o t, Len(s \o t))
    PROVE  /\ ListedAfter(L, a, s, Len(s))
           /\ \A k \in DOMAIN t : ~SaysOff(t[k], a)
<1> DEFINE st == s \o t
<1>1. /\ Len(s) \in Nat /\ Len(t) \in Nat /\ Len(st) = Len(s) + Len(t)
      /\ DOMAIN t = 1 .. Len(t)
      /\ \A k \in 1 .. Len(s) : st[k] = s[k]
      /\ \A k \in 1 .. Len(t) : st[k + Len(s)] = t[k]
      /\ ListedAfter(L, a, st, Len(st))
  BY ConcatProperties
<1> HIDE DEF st
<1>2. CASE \E k \in 1 .. Len(st) :
             SaysOn(st[k], a) /\ \A l \in k + 1 .. Len(st) : ~SaysOff(st[l], a)
  <2>1. PICK k \in 1 .. Len(st) :
               SaysOn(st[k], a) /\ \A l \in k + 1 .. Len(st) : ~SaysOff(st[l], a)
    BY <1>2
  <2>2. k <= Len(s)
    <3>1. SUFFICES ASSUME k > Len(s) PROVE FALSE
      BY <1>1
    <3>2. k - Len(s) \in 1 .. Len(t) /\ (k - Len(s)) + Len(s) = k
      BY <1>1, <3>1
    <3>3. st[k] = t[k - Len(s)]
      BY <1>1, <3>2
    <3> QED  BY <1>1, <2>1, <3>2, <3>3
  <2>3. k \in 1 .. Len(s) /\ SaysOn(s[k], a)
    BY <1>1, <2>1, <2>2
  <2>4. ASSUME NEW l \in k + 1 .. Len(s) PROVE ~SaysOff(s[l], a)
    <3>1. l \in k + 1 .. Len(st) /\ l \in 1 .. Len(s)
      BY <1>1
    <3>2. st[l] = s[l]
      BY <1>1, <3>1
    <3> QED  BY <2>1, <3>1, <3>2
  <2>5. ASSUME NEW l \in 1 .. Len(t) PROVE ~SaysOff(t[l], a)
    <3>1. l + Len(s) \in k + 1 .. Len(st) /\ st[l + Len(s)] = t[l]
      BY <1>1, <2>2
    <3> QED  BY <2>1, <3>1
  <2> QED  BY <1>1, <2>3, <2>4, <2>5 DEF ListedAfter
<1>3. CASE a \in L /\ \A l \in 1 .. Len(st) : ~SaysOff(st[l], a)
  <2>1. ASSUME NEW l \in 1 .. Len(s) PROVE ~SaysOff(s[l], a)
    BY <1>1, <1>3
  <2>2. ASSUME NEW l \in 1 .. Len(t) PROVE ~SaysOff(t[l], a)
    <3>1. l + Len(s) \in 1 .. Len(st) /\ st[l + Len(s)] = t[l]
      BY <1>1
    <3> QED  BY <1>3, <3>1
  <2> QED  BY <1>1, <1>3, <2>1, <2>2 DEF ListedAfter
<1> QED  BY <1>1, <1>2, <1>3 DEF ListedAfter

\* The first event is dispatched, and the others are what is left.
LEMMA ListedShifts ==
    ASSUME NEW L, NEW M, NEW a, NEW s \in Seq(Event), s # <<>>, NEW n \in 1 .. Len(s),
           a \in M <=> SaysOn(s[1], a) \/ (a \in L /\ ~SaysOff(s[1], a)),
           ListedAfter(L, a, s, n)
    PROVE  ListedAfter(M, a, Tail(s), n - 1)
<1> DEFINE t == Tail(s)
<1>1. /\ Len(s) \in Nat \ {0} /\ n - 1 \in Nat
      /\ \A k \in 1 .. n - 1 : t[k] = s[k + 1]
  BY HeadTailProperties
<1> HIDE DEF t
<1>2. CASE \E k \in 1 .. n :
             SaysOn(s[k], a) /\ \A l \in k + 1 .. n : ~SaysOff(s[l], a)
  <2>1. PICK k \in 1 .. n :
               SaysOn(s[k], a) /\ \A l \in k + 1 .. n : ~SaysOff(s[l], a)
    BY <1>2
  <2>2. CASE k = 1
    <3>1. ASSUME NEW l \in 1 .. n - 1 PROVE ~SaysOff(t[l], a)
      <4>1. l + 1 \in k + 1 .. n
        BY <1>1, <2>2
      <4> QED  BY <1>1, <2>1, <4>1
    <3> QED  BY <2>1, <2>2, <3>1 DEF ListedAfter, t
  <2>3. CASE k # 1
    <3>1. k - 1 \in 1 .. n - 1 /\ SaysOn(t[k - 1], a)
      BY <1>1, <2>1, <2>3
    <3>2. ASSUME NEW l \in (k - 1) + 1 .. n - 1 PROVE ~SaysOff(t[l], a)
      <4>1. l + 1 \in k + 1 .. n /\ l \in 1 .. n - 1
        BY <1>1
      <4> QED  BY <1>1, <2>1, <4>1
    <3> QED  BY <3>1, <3>2 DEF ListedAfter, t
  <2> QED  BY <2>2, <2>3
<1>3. CASE a \in L /\ \A l \in 1 .. n : ~SaysOff(s[l], a)
  <2>1. a \in M
    BY <1>1, <1>3
  <2>2. ASSUME NEW l \in 1 .. n - 1 PROVE ~SaysOff(t[l], a)
    <3>1. l + 1 \in 1 .. n
      BY <1>1
    <3> QED  BY <1>1, <1>3, <3>1
  <2> QED  BY <2>1, <2>2 DEF ListedAfter, t
<1> QED  BY <1>2, <1>3 DEF ListedAfter

\* And nothing else will be listed.
LEMMA ListedShiftsBack ==
    ASSUME NEW L, NEW M, NEW a, NEW s \in Seq(Event), s # <<>>, NEW n \in 1 .. Len(s),
           a \in M <=> SaysOn(s[1], a) \/ (a \in L /\ ~SaysOff(s[1], a)),
           ListedAfter(M, a, Tail(s), n - 1)
    PROVE  ListedAfter(L, a, s, n)
<1> DEFINE t == Tail(s)
<1>1. /\ Len(s) \in Nat \ {0} /\ n - 1 \in Nat
      /\ \A k \in 1 .. n - 1 : t[k] = s[k + 1]
      /\ ListedAfter(M, a, t, n - 1)
  BY HeadTailProperties
<1> HIDE DEF t
<1>2. CASE \E k \in 1 .. n - 1 :
             SaysOn(t[k], a) /\ \A l \in k + 1 .. n - 1 : ~SaysOff(t[l], a)
  <2>1. PICK k \in 1 .. n - 1 :
               SaysOn(t[k], a) /\ \A l \in k + 1 .. n - 1 : ~SaysOff(t[l], a)
    BY <1>2
  <2>2. k + 1 \in 1 .. n /\ SaysOn(s[k + 1], a)
    BY <1>1, <2>1
  <2>3. ASSUME NEW l \in (k + 1) + 1 .. n PROVE ~SaysOff(s[l], a)
    <3>1. l - 1 \in k + 1 .. n - 1 /\ l - 1 \in 1 .. n - 1 /\ (l - 1) + 1 = l
      BY <1>1
    <3> QED  BY <1>1, <2>1, <3>1
  <2> QED  BY <2>2, <2>3 DEF ListedAfter
<1>3. CASE a \in M /\ \A l \in 1 .. n - 1 : ~SaysOff(t[l], a)
  <2>1. ASSUME NEW l \in 2 .. n PROVE ~SaysOff(s[l], a)
    <3>1. l - 1 \in 1 .. n - 1 /\ (l - 1) + 1 = l
      BY <1>1
    <3> QED  BY <1>1, <1>3, <3>1
  <2>2. CASE SaysOn(s[1], a)
    <3>1. 1 \in 1 .. n /\ \A l \in 1 + 1 .. n : l \in 2 .. n
      BY <1>1
    <3> QED  BY <2>1, <2>2, <3>1 DEF ListedAfter
  <2>3. CASE a \in L /\ ~SaysOff(s[1], a)
    <3>1. \A l \in 1 .. n : l = 1 \/ l \in 2 .. n
      BY <1>1
    <3> QED  BY <2>1, <2>3, <3>1 DEF ListedAfter
  <2> QED  BY <1>3, <2>2, <2>3
<1> QED  BY <1>1, <1>2, <1>3 DEF ListedAfter

LEMMA ListedAtOnce ==
    ASSUME NEW L, NEW a, NEW s PROVE ListedAfter(L, a, s, 0) <=> a \in L
BY DEF ListedAfter

-----------------------------------------------------------------------------
(* What a reconfiguration queues.                                          *)

LEMMA EntryIs ==
    ASSUME NEW d \in Devices, NEW from, NEW to
    PROVE  /\ Entry(d, from, to) \in Seq(Devices)
           /\ Range(Entry(d, from, to)) = IF (d \in from) = (d \in to) THEN {} ELSE {d}
<1>1. Range(<<>>) = {} /\ <<>> \in Seq(Devices)
  BY DEF Range
<1>2. Range(<<d>>) = {d} /\ <<d>> \in Seq(Devices)
  BY DEF Range
<1> QED  BY <1>1, <1>2 DEF Entry

\* Every device whose entry differs, and no other.
LEMMA ChangedIs ==
    ASSUME NEW from, NEW to
    PROVE  /\ Changed(from, to) \in Seq(Devices)
           /\ \A d \in Devices :
                 (d \in from) # (d \in to) <=>
                 \E n \in DOMAIN Changed(from, to) : Changed(from, to)[n] = d
<1> DEFINE e(d) == Entry(d, from, to)
           a == e("balance_board") \o e("classic_controller")
           b == a \o e("motion_plus")
           c == b \o e("nunchuk")
           g == c \o e("pro_controller")
           h == g \o e("wiimote")
<1>1. \A d \in Devices : /\ e(d) \in Seq(Devices)
                         /\ Range(e(d)) = IF (d \in from) = (d \in to) THEN {} ELSE {d}
  BY EntryIs
<1>2. h = Changed(from, to)
  BY DEF Changed
<1> HIDE DEF e
<1>3. /\ a \in Seq(Devices)
      /\ Range(a) = Range(e("balance_board")) \cup Range(e("classic_controller"))
  BY <1>1, ConcatProperties, RangeConcatenation DEF Devices
<1> HIDE DEF a
<1>4. b \in Seq(Devices) /\ Range(b) = Range(a) \cup Range(e("motion_plus"))
  BY <1>1, <1>3, ConcatProperties, RangeConcatenation DEF Devices
<1> HIDE DEF b
<1>5. c \in Seq(Devices) /\ Range(c) = Range(b) \cup Range(e("nunchuk"))
  BY <1>1, <1>4, ConcatProperties, RangeConcatenation DEF Devices
<1> HIDE DEF c
<1>6. g \in Seq(Devices) /\ Range(g) = Range(c) \cup Range(e("pro_controller"))
  BY <1>1, <1>5, ConcatProperties, RangeConcatenation DEF Devices
<1> HIDE DEF g
<1>7. h \in Seq(Devices) /\ Range(h) = Range(g) \cup Range(e("wiimote"))
  BY <1>1, <1>6, ConcatProperties, RangeConcatenation DEF Devices
<1>8. Range(h) = UNION {Range(e(d)) : d \in Devices}
  BY <1>3, <1>4, <1>5, <1>6, <1>7 DEF Devices
<1> HIDE DEF h
<1>9. ASSUME NEW d \in Devices
      PROVE  d \in Range(h) <=> (d \in from) # (d \in to)
  <2>1. d \in Range(h) <=> \E x \in Devices : d \in Range(e(x))
    BY <1>8
  <2>2. \A x \in Devices : d \in Range(e(x)) <=> x = d /\ (d \in from) # (d \in to)
    BY <1>1
  <2> QED  BY <2>1, <2>2
<1>10. \A d : d \in Range(h) <=> \E n \in DOMAIN h : h[n] = d
  BY DEF Range
<1> QED  BY <1>2, <1>7, <1>9, <1>10

LEMMA StatusIsEvent ==
    ASSUME NEW d \in Devices, NEW to
    PROVE  /\ Status(d, d \in to) \in Event
           /\ Status(d, d \in to).kind = "status" /\ Status(d, d \in to).dev = d
           /\ d \in to => Status(d, d \in to).on = TRUE
           /\ d \notin to => Status(d, d \in to).on = FALSE
<1>1. CASE d \in to
  <2>1. Status(d, d \in to) = Status(d, TRUE)
    BY <1>1
  <2> QED  BY <1>1, <2>1 DEF Status, Event
<1>2. CASE d \notin to
  <2>1. Status(d, d \in to) = Status(d, FALSE)
    <3>1. \A v \in BOOLEAN : ~v => Status(d, v) = Status(d, FALSE)
      OBVIOUS
    <3>2. (d \in to) \in BOOLEAN /\ ~(d \in to)
      BY <1>2
    <3> QED  BY <3>1, <3>2
  <2> QED  BY <1>2, <2>1 DEF Status, Event
<1> QED  BY <1>1, <1>2

LEMMA DataIsEvent ==
    ASSUME NEW d \in Devices
    PROVE  /\ Data(d) \in Event /\ Data(d).kind # "status"
           /\ Data(d).kind = "data" => Data(d).dev = d
BY DEF Data, Event, Devices

LEMMA ReconfigureIsEvent == Reconfigure \in Event /\ Reconfigure.kind = "reconfigure"
BY DEF Reconfigure, Event, Devices

\* A status for every device whose entry differs, and nothing else.
Tells(e, d, to) == /\ e.kind = "status" /\ e.dev = d
                   /\ d \in to => e.on = TRUE
                   /\ d \notin to => e.on = FALSE

LEMMA StatusChangesAre ==
    ASSUME NEW from, NEW to
    PROVE  /\ StatusChanges(from, to) \in Seq(Event)
           /\ \A n \in DOMAIN StatusChanges(from, to) :
                 \E d \in Devices : Tells(StatusChanges(from, to)[n], d, to)
           /\ \A d \in Devices : (d \in from) # (d \in to) =>
                 \E n \in DOMAIN StatusChanges(from, to) :
                    Tells(StatusChanges(from, to)[n], d, to)
<1> DEFINE s == Changed(from, to)
           t == [i \in DOMAIN s |-> Status(s[i], s[i] \in to)]
<1>1. t = StatusChanges(from, to)
  BY DEF StatusChanges
<1>2. /\ s \in Seq(Devices)
      /\ \A d \in Devices : (d \in from) # (d \in to) <=> \E n \in DOMAIN s : s[n] = d
  BY ChangedIs
<1> HIDE DEF s
<1>3. DOMAIN s = 1 .. Len(s) /\ Len(s) \in Nat /\ \A n \in DOMAIN s : s[n] \in Devices
  BY <1>2, LenProperties
<1>4. DOMAIN t = DOMAIN s
  OBVIOUS
<1>5. ASSUME NEW n \in DOMAIN s
      PROVE  t[n] \in Event /\ Tells(t[n], s[n], to)
  <2>1. t[n] = Status(s[n], s[n] \in to)
    OBVIOUS
  <2>2. s[n] \in Devices
    BY <1>3
  <2> DEFINE d == s[n]
  <2>3. d \in Devices /\ t[n] = Status(d, d \in to)
    BY <2>1, <2>2
  <2> HIDE DEF d, t
  <2>4. t[n] \in Event /\ Tells(t[n], d, to)
    <3>1. /\ Status(d, d \in to) \in Event
          /\ Status(d, d \in to).kind = "status" /\ Status(d, d \in to).dev = d
          /\ d \in to => Status(d, d \in to).on = TRUE
          /\ d \notin to => Status(d, d \in to).on = FALSE
      BY <2>3, StatusIsEvent
    <3> DEFINE e == Status(d, d \in to)
    <3>2. /\ e \in Event /\ e.kind = "status" /\ e.dev = d
          /\ (d \in to => e.on = TRUE) /\ (d \notin to => e.on = FALSE)
      BY <3>1
    <3>3. t[n] = e
      BY <2>3
    <3> HIDE DEF e
    <3> QED  BY <3>2, <3>3 DEF Tells
  <2> QED  BY <2>4 DEF d
<1> HIDE DEF t
<1>6. t \in Seq(Event)
  <2>1. t \in [1 .. Len(s) -> Event]
    <3>1. t = [n \in DOMAIN t |-> t[n]]
      BY DEF t
    <3> QED  BY <1>3, <1>4, <1>5, <3>1
  <2> QED  BY <1>3, <2>1, SeqDef
<1>7. \A n \in DOMAIN t : \E d \in Devices : Tells(t[n], d, to)
  BY <1>3, <1>4, <1>5
<1>8. \A d \in Devices : (d \in from) # (d \in to) => \E n \in DOMAIN t : Tells(t[n], d, to)
  BY <1>2, <1>4, <1>5
<1> QED  BY <1>1, <1>6, <1>7, <1>8

LEMMA SeparateAdaptor ==
    ASSUME NEW d \in Separate, NEW e \in Devices, NEW a \in StatusAdaptor(d),
           a \in StatusAdaptor(e)
    PROVE  e = d
BY DEF Separate, Devices, StatusAdaptor

LEMMA WiimoteAdaptor ==
    ASSUME NEW d \in Devices
    PROVE  "wiimote" \in StatusAdaptor(d) <=> d \in {"wiimote", "motion_plus"}
BY DEF Devices, StatusAdaptor

\* A reconfiguration says nothing bad of a device that is in the new table,
\* and says so when it was not in the old one.
LEMMA ChangesTell ==
    ASSUME NEW from, NEW to, NEW d \in Separate \cap to, NEW a \in StatusAdaptor(d)
    PROVE  /\ \A n \in DOMAIN StatusChanges(from, to) : ~SaysOff(StatusChanges(from, to)[n], a)
           /\ d \notin from =>
                 \E n \in DOMAIN StatusChanges(from, to) : SaysOn(StatusChanges(from, to)[n], a)
<1> DEFINE s == StatusChanges(from, to)
<1>1. d \in Devices
  BY DEF Separate, Devices
<1>2. /\ \A n \in DOMAIN s : \E x \in Devices : Tells(s[n], x, to)
      /\ (d \in from) # (d \in to) => \E n \in DOMAIN s : Tells(s[n], d, to)
  BY <1>1, StatusChangesAre
<1> HIDE DEF s
<1>3. ASSUME NEW n \in DOMAIN s, SaysOff(s[n], a) PROVE FALSE
  <2>1. PICK x \in Devices : Tells(s[n], x, to)
    BY <1>2
  <2>2. x \notin to /\ a \in StatusAdaptor(x)
    BY <1>3, <2>1 DEF SaysOff, Tells
  <2>3. x = d
    BY <2>2, SeparateAdaptor
  <2> QED  BY <2>2, <2>3
<1>4. ASSUME d \notin from PROVE \E n \in DOMAIN s : SaysOn(s[n], a)
  <2>1. (d \in from) # (d \in to)
    BY <1>4
  <2>2. PICK n \in DOMAIN s : Tells(s[n], d, to)
    BY <1>2, <2>1
  <2> QED  BY <2>2 DEF SaysOn, Tells
<1> QED  BY <1>3, <1>4 DEF s

\* A reconfiguration to a table without wiimote and MotionPlus says nothing
\* good of them, and says so when one was in the old table.
LEMMA ChangesTellWiimote ==
    ASSUME NEW from, NEW to, to \cap {"wiimote", "motion_plus"} = {}
    PROVE  /\ \A n \in DOMAIN StatusChanges(from, to) :
                 ~SaysOn(StatusChanges(from, to)[n], "wiimote")
           /\ from \cap {"wiimote", "motion_plus"} # {} =>
                 \E n \in DOMAIN StatusChanges(from, to) :
                    SaysOff(StatusChanges(from, to)[n], "wiimote")
<1> DEFINE s == StatusChanges(from, to)
<1>1. /\ \A n \in DOMAIN s : \E x \in Devices : Tells(s[n], x, to)
      /\ \A d \in Devices :
             (d \in from) # (d \in to) => \E n \in DOMAIN s : Tells(s[n], d, to)
  BY StatusChangesAre
<1> HIDE DEF s
<1>2. ASSUME NEW n \in DOMAIN s, SaysOn(s[n], "wiimote") PROVE FALSE
  <2>1. PICK x \in Devices : Tells(s[n], x, to)
    BY <1>1
  <2>2. x \in to /\ "wiimote" \in StatusAdaptor(x)
    BY <1>2, <2>1 DEF SaysOn, Tells
  <2> QED  BY <2>2, WiimoteAdaptor
<1>3. ASSUME NEW d \in from \cap {"wiimote", "motion_plus"}
      PROVE  \E n \in DOMAIN s : SaysOff(s[n], "wiimote")
  <2>1. d \in Devices /\ d \notin to
    BY DEF Devices
  <2>2. (d \in from) # (d \in to)
    BY <2>1
  <2>3. PICK n \in DOMAIN s : Tells(s[n], d, to)
    BY <1>1, <2>1, <2>2
  <2>4. "wiimote" \in StatusAdaptor(d)
    BY <2>1, WiimoteAdaptor
  <2> QED  BY <2>1, <2>3, <2>4 DEF SaysOff, Tells
<1> QED  BY <1>2, <1>3 DEF s

-----------------------------------------------------------------------------
(* What a list of events tells, given what the table says.                 *)

Tolds(s, T) == \A d \in T \cap Separate, a \in Adaptors :
                  a \in StatusAdaptor(d) => ListedAfter(listed, a, s, Len(s))
WiimoteTold(s, T) ==
    ListedAfter(listed, "wiimote", s, Len(s)) => T \cap {"wiimote", "motion_plus"} # {}

LEMMA InvariantOfEvents ==
    /\ TableIsTold <=> Tolds(Drained, table)
    /\ WiimoteIsTold <=> WiimoteTold(Drained, table)
BY DEF TableIsTold, WiimoteIsTold, WillList, Tolds, WiimoteTold

\* Data and reconfigurations say nothing.
LEMMA AppendTells ==
    ASSUME NEW s \in Seq(Event), NEW e \in Event, e.kind # "status", NEW T
    PROVE  /\ Append(s, e) \in Seq(Event)
           /\ Tolds(s, T) => Tolds(Append(s, e), T)
           /\ WiimoteTold(s, T) => WiimoteTold(Append(s, e), T)
<1> DEFINE t == <<e>>
<1>1. /\ t \in Seq(Event) /\ Append(s, e) = s \o t /\ Append(s, e) \in Seq(Event)
      /\ \A a : \A k \in DOMAIN t : ~SaysOn(t[k], a) /\ ~SaysOff(t[k], a)
  <2>1. t \in Seq(Event) /\ Append(s, e) = s \o t /\ Append(s, e) \in Seq(Event)
    BY AppendIsConcat, AppendProperties
  <2>2. \A k \in DOMAIN t : t[k] = e
    OBVIOUS
  <2> QED  BY <2>1, <2>2 DEF SaysOn, SaysOff
<1> HIDE DEF t
<1>2. ASSUME Tolds(s, T) PROVE Tolds(s \o t, T)
  BY <1>1, <1>2, ListedLater DEF Tolds
<1>3. ASSUME WiimoteTold(s, T) PROVE WiimoteTold(s \o t, T)
  BY <1>1, <1>3, ListedEarlier DEF WiimoteTold
<1> QED  BY <1>1, <1>2, <1>3

\* A reconfiguration tells what it changes.
LEMMA ReconfigurationTells ==
    ASSUME NEW s \in Seq(Event), NEW flags, NEW open,
           ReconfigureInterface(flags, open), Tolds(s, table), WiimoteTold(s, table)
    PROVE  /\ queue' \in Seq(Event)
           /\ \A n \in DOMAIN queue' : queue'[n].kind = "status"
           /\ Tolds(s \o queue', table')
           /\ WiimoteTold(s \o queue', table')
<1>1. CASE open = flags
  <2>1. queue' = <<>> /\ table' = table /\ s \o <<>> = s
    BY <1>1, ConcatEmptySeq DEF ReconfigureInterface
  <2>2. <<>> \in Seq(Event) /\ DOMAIN <<>> = {}
    OBVIOUS
  <2> QED  BY <2>1, <2>2
<1>2. CASE open # flags
  <2> DEFINE t == StatusChanges(table, flags)
  <2>1. queue' = t /\ table' = flags
    BY <1>2 DEF ReconfigureInterface
  <2>2. t \in Seq(Event) /\ \A n \in DOMAIN t : \E d \in Devices : Tells(t[n], d, flags)
    BY StatusChangesAre
  <2>3. ASSUME NEW d \in Separate \cap flags, NEW a \in StatusAdaptor(d)
        PROVE  /\ \A n \in DOMAIN t : ~SaysOff(t[n], a)
               /\ d \notin table => \E n \in DOMAIN t : SaysOn(t[n], a)
    BY ChangesTell
  <2>4. flags \cap {"wiimote", "motion_plus"} = {} =>
          /\ \A n \in DOMAIN t : ~SaysOn(t[n], "wiimote")
          /\ table \cap {"wiimote", "motion_plus"} # {} =>
                \E n \in DOMAIN t : SaysOff(t[n], "wiimote")
    BY ChangesTellWiimote
  <2> HIDE DEF t
  <2>5. \A n \in DOMAIN t : t[n].kind = "status"
    BY <2>2 DEF Tells
  <2>6. Tolds(s \o t, flags)
    <3> SUFFICES ASSUME NEW d \in flags \cap Separate, NEW a \in Adaptors,
                        a \in StatusAdaptor(d)
                 PROVE  ListedAfter(listed, a, s \o t, Len(s \o t))
      BY DEF Tolds
    <3>1. d \in table => ListedAfter(listed, a, s, Len(s))
      BY DEF Tolds
    <3>2. /\ \A n \in DOMAIN t : ~SaysOff(t[n], a)
          /\ d \notin table => \E n \in DOMAIN t : SaysOn(t[n], a)
      BY <2>3
    <3> QED  BY <2>2, <3>1, <3>2, ListedLater
  <2>7. WiimoteTold(s \o t, flags)
    <3> SUFFICES ASSUME ListedAfter(listed, "wiimote", s \o t, Len(s \o t)),
                        flags \cap {"wiimote", "motion_plus"} = {}
                 PROVE  FALSE
      BY DEF WiimoteTold
    <3>1. /\ ListedAfter(listed, "wiimote", s, Len(s))
          /\ \A k \in DOMAIN t : ~SaysOff(t[k], "wiimote")
      BY <2>2, <2>4, ListedEarlier
    <3> QED  BY <2>4, <3>1 DEF WiimoteTold
  <2> QED  BY <2>1, <2>2, <2>5, <2>6, <2>7
<1> QED  BY <1>1, <1>2

-----------------------------------------------------------------------------
(* Type correctness.                                                       *)

LEMMA AdaptorsAre == ASSUME NEW d PROVE StatusAdaptor(d) \subseteq Adaptors
BY DEF StatusAdaptor, Adaptors

LEMMA ReconfigureType ==
    ASSUME TypeOK, NEW flags \in SUBSET Attachable, NEW open \in SUBSET Attachable,
           ReconfigureInterface(flags, open)
    PROVE  opened' \subseteq Attachable /\ queue' \in Seq(Event) /\ table' \subseteq Attachable
<1>1. <<>> \in Seq(Event)
  OBVIOUS
<1>2. StatusChanges(table, flags) \in Seq(Event)
  BY StatusChangesAre
<1> QED  BY <1>1, <1>2 DEF ReconfigureInterface, TypeOK, ControllerTypeOK

LEMMA DrainedType == ASSUME TypeOK PROVE Drained \in Seq(Event)
BY ConcatProperties DEF Drained, TypeOK, ControllerTypeOK

\* What process_gone reports.
Gone == LET s == Changed(table, {})
        IN  [i \in DOMAIN s |-> Status("wiimote", FALSE)]

LEMMA GoneAre ==
    /\ Gone \in Seq(Event)
    /\ \A n \in DOMAIN Gone : Gone[n] = Status("wiimote", FALSE)
    /\ table \subseteq Devices /\ table # {} => DOMAIN Gone # {}
<1> DEFINE s == Changed(table, {})
<1>1. Gone = [i \in DOMAIN s |-> Status("wiimote", FALSE)]
  BY DEF Gone
<1>2. /\ s \in Seq(Devices)
      /\ \A d \in Devices : (d \in table) # (d \in {}) <=> \E n \in DOMAIN s : s[n] = d
  BY ChangedIs
<1> HIDE DEF s
<1>3. DOMAIN s = 1 .. Len(s) /\ Len(s) \in Nat
  BY <1>2, LenProperties
<1>4. Status("wiimote", FALSE) \in Event
  BY DEF Status, Event, Devices
<1>5. Gone \in [1 .. Len(s) -> Event]
  BY <1>1, <1>3, <1>4
<1>6. Gone \in Seq(Event)
  BY <1>3, <1>5, SeqDef
<1>7. ASSUME table \subseteq Devices, table # {} PROVE DOMAIN Gone # {}
  <2>1. PICK d \in Devices : d \in table
    BY <1>7
  <2>2. (d \in table) # (d \in {})
    BY <2>1
  <2>3. \E n \in DOMAIN s : s[n] = d
    BY <1>2, <2>2
  <2> QED  BY <1>1, <2>3
<1> QED  BY <1>1, <1>6, <1>7

LEMMA TypeStep == ASSUME TypeOK, [Next]_vars PROVE TypeOK'
<1>1. <<>> \in Seq(Event) /\ Drained \in Seq(Event)
  BY DrainedType
<1>2. ASSUME NEW D \in SUBSET Attachable, Construct(D), UNCHANGED <<pc, listed>>
      PROVE  TypeOK'
  <2>1. /\ present' = TRUE /\ hw' = D /\ watchPending' = FALSE /\ goneSent' = FALSE
        /\ alive' = TRUE /\ ret' = <<>> /\ connected' \in BOOLEAN
        /\ \/ ReconfigureInterface(D, {})
           \/ opened' = {} /\ table' = {} /\ queue' = <<>>
    BY <1>2 DEF Construct
  <2>2. opened' \subseteq Attachable /\ queue' \in Seq(Event) /\ table' \subseteq Attachable
    <3>1. {} \in SUBSET Attachable
      OBVIOUS
    <3> QED  BY <1>1, <2>1, <3>1, ReconfigureType
  <2> QED  BY <1>1, <1>2, <2>1, <2>2 DEF TypeOK, ControllerTypeOK
<1>3. CASE Remove
  BY <1>1, <1>3 DEF Remove, DestroyController, TypeOK, ControllerTypeOK
<1>4. CASE StartProcess \/ TickEnds \/ UNCHANGED vars
  BY <1>4 DEF StartProcess, TickEnds, TypeOK, ControllerTypeOK, vars, ctrlvars, libvars, objvars
<1>5. ASSUME NEW d \in Attachable, TakeData(d), UNCHANGED <<pc, listed>> PROVE TypeOK'
  <2>1. Data(d) \in Event
    BY AttachableAssumption, DataIsEvent
  <2>2. Append(Drained, Data(d)) \in Seq(Event)
    BY <1>1, <2>1, AppendProperties
  <2> QED  BY <1>1, <1>5, <2>2 DEF TakeData, TypeOK, ControllerTypeOK, libvars
<1>6. ASSUME TakeWatch, UNCHANGED <<pc, listed>> PROVE TypeOK'
  <2>1. PICK open \in {opened, opened \cap hw} : ReconfigureInterface(hw, open)
    BY <1>6 DEF TakeWatch
  <2>2. hw \in SUBSET Attachable /\ open \in SUBSET Attachable
    BY DEF TypeOK, ControllerTypeOK
  <2>3. opened' \subseteq Attachable /\ queue' \in Seq(Event) /\ table' \subseteq Attachable
    BY <2>1, <2>2, ReconfigureType
  <2>4. ret' \in Seq(Event)
    BY <1>1, <1>6, ReconfigureIsEvent, AppendProperties DEF TakeWatch
  <2> QED  BY <1>6, <2>3, <2>4 DEF TakeWatch, TypeOK, ControllerTypeOK
<1>7. ASSUME TakeGone, UNCHANGED <<pc, listed>> PROVE TypeOK'
  <2>1. ret' = Drained \o Gone
    BY <1>7 DEF TakeGone, Gone
  <2>2. ret' \in Seq(Event)
    BY <1>1, <2>1, GoneAre, ConcatProperties
  <2> QED  BY <1>1, <1>7, <2>2 DEF TakeGone, TypeOK, ControllerTypeOK
<1>8. CASE ProcessReturns
  BY <1>1, <1>8 DEF ProcessReturns, NothingMore, TypeOK, ControllerTypeOK, libvars
<1>9. CASE Dispatch
  <2>1. ret' \in Seq(Event)
    BY <1>9, HeadTailProperties DEF Dispatch, TypeOK, ControllerTypeOK
  <2>2. listed' \subseteq Adaptors
    BY <1>9, AdaptorsAre DEF Dispatch, SetIds, TypeOK
  <2> QED  BY <1>9, <2>1, <2>2 DEF Dispatch, TypeOK, ControllerTypeOK, libvars
<1>10. CASE Remote
  BY <1>10 DEF Remote, Attach, Detach, Leave, objvars, TypeOK, ControllerTypeOK
<1> QED
  BY <1>2, <1>3, <1>4, <1>5, <1>6, <1>7, <1>8, <1>9, <1>10
  DEF Next, MainThread, Appear, ProcessTurn

-----------------------------------------------------------------------------
(* What data tells.                                                        *)

DataTold(s) ==
    \A n \in DOMAIN s, a \in Adaptors :
        s[n].kind = "data" /\ s[n].dev \in Separate /\ a \in StatusAdaptor(s[n].dev)
        => ListedAfter(listed, a, s, n - 1)

LEMMA DataConcat ==
    ASSUME NEW s \in Seq(Event), NEW t \in Seq(Event), DataTold(s),
           \A n \in DOMAIN t : t[n].kind # "data"
    PROVE  DataTold(s \o t)
<1> DEFINE st == s \o t
<1>1. /\ Len(s) \in Nat /\ Len(t) \in Nat /\ DOMAIN st = 1 .. Len(s) + Len(t)
      /\ DOMAIN t = 1 .. Len(t) /\ DOMAIN s = 1 .. Len(s)
      /\ \A n \in 1 .. Len(s) : st[n] = s[n]
      /\ \A n \in Len(s) + 1 .. Len(s) + Len(t) : st[n] = t[n - Len(s)]
  BY ConcatProperties, LenProperties
<1> HIDE DEF st
<1> SUFFICES ASSUME NEW n \in DOMAIN st, NEW a \in Adaptors,
                    st[n].kind = "data", st[n].dev \in Separate,
                    a \in StatusAdaptor(st[n].dev)
             PROVE  ListedAfter(listed, a, st, n - 1)
  BY DEF DataTold, st
<1>2. n \in 1 .. Len(s)
  <2>1. SUFFICES ASSUME n > Len(s) PROVE FALSE
    BY <1>1
  <2>2. n \in Len(s) + 1 .. Len(s) + Len(t) /\ n - Len(s) \in DOMAIN t
    BY <1>1, <2>1
  <2> QED  BY <1>1, <2>2
<1>3. s[n] = st[n]
  BY <1>1, <1>2
<1>4. ListedAfter(listed, a, s, n - 1)
  BY <1>1, <1>2, <1>3 DEF DataTold
<1>5. n - 1 \in Nat /\ \A k \in 1 .. n - 1 : s[k] = st[k]
  BY <1>1, <1>2
<1> QED  BY <1>4, <1>5, ListedIsLocal

LEMMA DataAppend ==
    ASSUME NEW s \in Seq(Event), NEW e \in Event, DataTold(s),
           e.kind = "data" /\ e.dev \in Separate =>
              \A a \in StatusAdaptor(e.dev) : ListedAfter(listed, a, s, Len(s))
    PROVE  DataTold(Append(s, e))
<1> DEFINE st == Append(s, e)
<1>1. /\ Len(s) \in Nat /\ DOMAIN st = 1 .. Len(s) + 1 /\ DOMAIN s = 1 .. Len(s)
      /\ \A n \in 1 .. Len(s) : st[n] = s[n]
      /\ st[Len(s) + 1] = e
  BY AppendProperties, LenProperties
<1> HIDE DEF st
<1> SUFFICES ASSUME NEW n \in DOMAIN st, NEW a \in Adaptors,
                    st[n].kind = "data", st[n].dev \in Separate,
                    a \in StatusAdaptor(st[n].dev)
             PROVE  ListedAfter(listed, a, st, n - 1)
  BY DEF DataTold, st
<1>2. n - 1 \in Nat /\ \A k \in 1 .. n - 1 : s[k] = st[k]
  BY <1>1
<1>3. ListedAfter(listed, a, s, n - 1)
  <2>1. CASE n = Len(s) + 1
    BY <1>1, <2>1
  <2>2. CASE n # Len(s) + 1
    <3>1. n \in 1 .. Len(s)
      BY <1>1, <2>2
    <3>2. s[n] = st[n]
      BY <1>1, <3>1
    <3> QED  BY <1>1, <3>1, <3>2 DEF DataTold
  <2> QED  BY <2>1, <2>2
<1> QED  BY <1>2, <1>3, ListedIsLocal

\* Draining the queue adds no data.
LEMMA DrainedTells ==
    ASSUME IInv
    PROVE  /\ Drained \in Seq(Event)
           /\ DataTold(Drained) /\ Tolds(Drained, table) /\ WiimoteTold(Drained, table)
<1>1. ret \in Seq(Event) /\ queue \in Seq(Event)
  BY DEF IInv, TypeOK, ControllerTypeOK
<1>2. DataTold(ret)
  BY DEF IInv, DataIsAnnounced, DataTold
<1>3. \A n \in DOMAIN queue : queue[n].kind # "data"
  BY DEF IInv, QueuedStatuses
<1>4. DataTold(Drained)
  BY <1>1, <1>2, <1>3, DataConcat DEF Drained
<1> QED  BY <1>4, DrainedType, InvariantOfEvents DEF IInv

LEMMA ListedOfNothing ==
    /\ \A a : ListedAfter(listed, a, <<>>, Len(<<>>)) <=> a \in listed
    /\ DataTold(<<>>)
<1>1. Len(<<>>) = 0
  OBVIOUS
<1>2. DataTold(<<>>)
  BY DEF DataTold
<1> QED  BY <1>1, <1>2, ListedAtOnce

-----------------------------------------------------------------------------
(* Steps.                                                                  *)

LEMMA InitHolds == Init => IInv
<1> SUFFICES ASSUME Init PROVE IInv
  OBVIOUS
<1> USE DEF Init, ControllerInit
<1>1. TypeOK
  <2>1. <<>> \in Seq(Event)
    OBVIOUS
  <2> QED  BY <2>1 DEF TypeOK, ControllerTypeOK
<1>2. Places /\ OpenedInTable /\ QueuedStatuses
  BY DEF Places, OpenedInTable, QueuedStatuses
<1>3. Drained = <<>>
  BY DEF Drained
<1>4. TableIsTold /\ WiimoteIsTold /\ DataIsAnnounced
  BY <1>3, ListedOfNothing DEF TableIsTold, WiimoteIsTold, WillList, DataIsAnnounced
<1> QED  BY <1>1, <1>2, <1>4 DEF IInv

\* Steps that leave the events, the lists and the table alone.
LEMMA QuietHolds ==
    ASSUME IInv, TypeOK', Places', UNCHANGED <<ret, queue, table, listed>>,
           ~goneSent' => ~goneSent /\ opened' \subseteq opened
    PROVE  IInv'
<1>1. Drained' = Drained
  BY DEF Drained
<1>2. QueuedStatuses' /\ DataIsAnnounced'
  BY DEF IInv, QueuedStatuses, DataIsAnnounced
<1>3. TableIsTold' /\ WiimoteIsTold'
  BY <1>1 DEF IInv, TableIsTold, WiimoteIsTold, WillList
<1>4. OpenedInTable'
  BY DEF IInv, OpenedInTable
<1> QED  BY <1>2, <1>3, <1>4 DEF IInv

\* A remote that appears finds the wiimote adaptor without its id.
LEMMA AppearHolds == ASSUME IInv, TypeOK', Appear PROVE IInv'
<1>1. PICK D \in SUBSET Attachable : Construct(D)
  BY DEF Appear
<1>2. /\ pc = "idle" /\ pc' = pc /\ listed' = listed /\ ~alive
      /\ alive' = TRUE /\ goneSent' = FALSE /\ ret' = <<>>
      /\ \/ connected' /\ ReconfigureInterface(D, {})
         \/ ~connected' /\ opened' = {} /\ table' = {} /\ queue' = <<>>
  BY <1>1 DEF Appear, Construct
<1>3. table = {} /\ queue = <<>> /\ ret = <<>>
  BY <1>2 DEF IInv, Places
<1>4. Drained = <<>> /\ Drained' = <<>> \o queue'
  BY <1>2, <1>3 DEF Drained
<1>5. Tolds(<<>>, table) /\ WiimoteTold(<<>>, table)
  BY <1>4, DrainedTells
<1>6. /\ queue' \in Seq(Event)
      /\ \A n \in DOMAIN queue' : queue'[n].kind = "status"
      /\ Tolds(Drained', table') /\ WiimoteTold(Drained', table')
  <2>1. <<>> \in Seq(Event)
    OBVIOUS
  <2>2. CASE ReconfigureInterface(D, {})
    BY <1>4, <1>5, <2>1, <2>2, ReconfigurationTells
  <2>3. CASE table' = {} /\ queue' = <<>>
    <3>1. Drained' = <<>>
      BY <1>4, <2>3
    <3> QED  BY <1>3, <1>5, <2>1, <2>3, <3>1
  <2> QED  BY <1>2, <2>2, <2>3
<1>7. Places'
  BY <1>2 DEF Places, IInv
<1>8. OpenedInTable'
  BY <1>2, <1>3 DEF OpenedInTable, ReconfigureInterface
<1>9. QueuedStatuses'
  BY <1>6 DEF QueuedStatuses
<1>10. TableIsTold' /\ WiimoteIsTold'
  BY <1>2, <1>6 DEF TableIsTold, WiimoteIsTold, WillList, Tolds, WiimoteTold
<1>11. DataIsAnnounced'
  BY <1>2 DEF DataIsAnnounced
<1> QED  BY <1>7, <1>8, <1>9, <1>10, <1>11 DEF IInv

LEMMA RemoveHolds == ASSUME IInv, TypeOK', Remove PROVE IInv'
<1>1. /\ pc = "idle" /\ ~connected /\ alive' = FALSE /\ goneSent' = FALSE /\ opened' = {}
      /\ table' = {} /\ queue' = <<>>
      /\ UNCHANGED <<pc, listed, connected, ret>>
  BY DEF Remove, DestroyController
<1>2. table = {} /\ queue = <<>> /\ ret = <<>>
  BY <1>1 DEF IInv, Places
<1>3. Places'
  BY <1>1, <1>2 DEF Places
<1>4. Drained' = Drained
  BY <1>1, <1>2 DEF Drained
<1>5. TableIsTold' /\ WiimoteIsTold'
  BY <1>1, <1>2, <1>4 DEF IInv, TableIsTold, WiimoteIsTold, WillList
<1>6. OpenedInTable' /\ QueuedStatuses' /\ DataIsAnnounced'
  BY <1>1, <1>2 DEF OpenedInTable, QueuedStatuses, DataIsAnnounced
<1> QED  BY <1>3, <1>5, <1>6 DEF IInv

LEMMA MovesHold ==
    ASSUME IInv, TypeOK', StartProcess \/ TickEnds \/ Remote \/ UNCHANGED vars PROVE IInv'
<1>1. UNCHANGED <<ret, queue, table, listed, goneSent, opened, alive, connected>>
  BY DEF StartProcess, TickEnds, Remote, Attach, Detach, Leave, ctrlvars, libvars,
     objvars, vars
<1>2. \/ alive /\ connected /\ pc' = "process"
      \/ pc = "dispatch" /\ ret = <<>> /\ pc' = "idle"
      \/ pc' = pc
  BY DEF StartProcess, TickEnds, Remote, vars
<1>3. Places'
  BY <1>1, <1>2 DEF IInv, Places
<1> QED  BY <1>1, <1>3, QuietHolds

LEMMA TakeDataHolds ==
    ASSUME IInv, TypeOK', pc = "process", NEW d \in Attachable, TakeData(d),
           UNCHANGED <<pc, listed>>
    PROVE  IInv'
<1>1. /\ d \in opened /\ ~goneSent /\ ret' = Append(Drained, Data(d)) /\ queue' = <<>>
      /\ UNCHANGED <<goneSent, opened, alive, connected, table>>
  BY DEF TakeData, libvars
<1> DEFINE e == Data(d)
<1>2. d \in table /\ d \in Devices /\ table \subseteq Devices
  BY <1>1, AttachableAssumption DEF IInv, OpenedInTable, TypeOK, ControllerTypeOK
<1>3. e \in Event /\ e.kind # "status" /\ (e.kind = "data" => e.dev = d)
  BY <1>2, DataIsEvent
<1> HIDE DEF e
<1>4. /\ Drained \in Seq(Event)
      /\ DataTold(Drained) /\ Tolds(Drained, table) /\ WiimoteTold(Drained, table)
  BY DrainedTells
<1>5. /\ Append(Drained, e) \in Seq(Event)
      /\ Tolds(Append(Drained, e), table) /\ WiimoteTold(Append(Drained, e), table)
  BY <1>3, <1>4, AppendTells
<1>6. DataTold(Append(Drained, e))
  <2>1. \A a \in StatusAdaptor(d) : d \in Separate => ListedAfter(listed, a, Drained, Len(Drained))
    BY <1>2, <1>4, AdaptorsAre DEF Tolds
  <2> QED  BY <1>3, <1>4, <2>1, DataAppend
<1>7. ret' = Append(Drained, e) /\ Drained' = Append(Drained, e)
  <2>1. ret' = Append(Drained, e)
    BY <1>1 DEF e
  <2>2. Append(Drained, e) \o <<>> = Append(Drained, e)
    BY <1>5, ConcatEmptySeq
  <2>3. Drained' = ret' \o queue'
    BY DEF Drained
  <2> QED  BY <1>1, <2>1, <2>2, <2>3
<1>8. Places'
  BY <1>1 DEF IInv, Places
<1>9. OpenedInTable' /\ QueuedStatuses'
  BY <1>1 DEF IInv, OpenedInTable, QueuedStatuses
<1>10. TableIsTold' /\ WiimoteIsTold'
  BY <1>1, <1>5, <1>7 DEF TableIsTold, WiimoteIsTold, WillList, Tolds, WiimoteTold
<1>11. DataIsAnnounced'
  BY <1>6, <1>7 DEF DataIsAnnounced, DataTold
<1> QED  BY <1>8, <1>9, <1>10, <1>11 DEF IInv

LEMMA TakeWatchHolds ==
    ASSUME IInv, TypeOK', pc = "process", TakeWatch, UNCHANGED <<pc, listed>>
    PROVE  IInv'
<1> DEFINE s == Append(Drained, Reconfigure)
<1>1. /\ ~goneSent /\ ret' = s
      /\ UNCHANGED <<goneSent, alive, connected>>
  BY DEF TakeWatch
<1>2. PICK open \in {opened, opened \cap hw} : ReconfigureInterface(hw, open)
  BY DEF TakeWatch
<1>3. /\ Drained \in Seq(Event)
      /\ DataTold(Drained) /\ Tolds(Drained, table) /\ WiimoteTold(Drained, table)
  BY DrainedTells
<1>4. s \in Seq(Event) /\ Tolds(s, table) /\ WiimoteTold(s, table)
  BY <1>3, ReconfigureIsEvent, AppendTells
<1>5. DataTold(s)
  BY <1>3, ReconfigureIsEvent, DataAppend
<1> HIDE DEF s
<1>6. /\ \A n \in DOMAIN queue' : queue'[n].kind = "status"
      /\ Tolds(s \o queue', table') /\ WiimoteTold(s \o queue', table')
  BY <1>2, <1>4, ReconfigurationTells
<1>7. Drained' = s \o queue'
  BY <1>1 DEF Drained
<1>8. Places'
  BY <1>1 DEF IInv, Places
<1>9. OpenedInTable'
  BY <1>1, <1>2 DEF IInv, OpenedInTable, ReconfigureInterface
<1>10. QueuedStatuses'
  BY <1>6 DEF QueuedStatuses
<1>11. TableIsTold' /\ WiimoteIsTold'
  BY <1>6, <1>7 DEF TableIsTold, WiimoteIsTold, WillList, Tolds, WiimoteTold
<1>12. DataIsAnnounced'
  BY <1>1, <1>5 DEF DataIsAnnounced, DataTold
<1> QED  BY <1>8, <1>9, <1>10, <1>11, <1>12 DEF IInv

\* process_gone tells the wiimote adaptor, if it tells anybody.
LEMMA TakeGoneHolds ==
    ASSUME IInv, TypeOK', pc = "process", TakeGone, UNCHANGED <<pc, listed>>
    PROVE  IInv'
<1>1. /\ goneSent' = TRUE /\ ret' = Drained \o Gone /\ queue' = <<>> /\ table' = {}
      /\ connected' = FALSE /\ alive' = alive /\ opened' = opened
  BY DEF TakeGone, Gone
<1>2. /\ Drained \in Seq(Event)
      /\ DataTold(Drained) /\ Tolds(Drained, table) /\ WiimoteTold(Drained, table)
  BY DrainedTells
<1>3. /\ Gone \in Seq(Event)
      /\ \A n \in DOMAIN Gone : Gone[n] = Status("wiimote", FALSE)
      /\ table # {} => DOMAIN Gone # {}
  BY AttachableAssumption, GoneAre DEF IInv, TypeOK, ControllerTypeOK
<1>4. /\ \A n \in DOMAIN Gone : /\ Gone[n].kind # "data"
                                /\ ~SaysOn(Gone[n], "wiimote")
                                /\ SaysOff(Gone[n], "wiimote")
  BY <1>3 DEF Status, SaysOn, SaysOff, StatusAdaptor
<1>5. Drained \o Gone \in Seq(Event)
  BY <1>2, <1>3, ConcatProperties
<1>6. DataTold(Drained \o Gone)
  BY <1>2, <1>3, <1>4, DataConcat
<1>7. ~ListedAfter(listed, "wiimote", Drained \o Gone, Len(Drained \o Gone))
  <2> SUFFICES ASSUME ListedAfter(listed, "wiimote", Drained \o Gone, Len(Drained \o Gone))
               PROVE  FALSE
    OBVIOUS
  <2>1. /\ ListedAfter(listed, "wiimote", Drained, Len(Drained))
        /\ \A n \in DOMAIN Gone : ~SaysOff(Gone[n], "wiimote")
    BY <1>2, <1>3, <1>4, ListedEarlier
  <2>2. table # {}
    BY <1>2, <2>1 DEF WiimoteTold
  <2> QED  BY <1>3, <1>4, <2>1, <2>2
<1>8. Drained' = Drained \o Gone
  <2>1. Drained' = ret' \o queue'
    BY DEF Drained
  <2> QED  BY <1>1, <1>5, <2>1, ConcatEmptySeq
<1>9. Places'
  BY <1>1 DEF IInv, Places
<1>10. OpenedInTable' /\ QueuedStatuses'
  BY <1>1 DEF OpenedInTable, QueuedStatuses
<1>11. TableIsTold'
  BY <1>1 DEF TableIsTold
<1>12. WiimoteIsTold'
  BY <1>7, <1>8 DEF WiimoteIsTold, WillList
<1>13. DataIsAnnounced'
  BY <1>1, <1>6 DEF DataIsAnnounced, DataTold
<1> QED  BY <1>9, <1>10, <1>11, <1>12, <1>13 DEF IInv

LEMMA ProcessReturnsHolds == ASSUME IInv, TypeOK', ProcessReturns PROVE IInv'
<1>1. /\ pc = "process" /\ pc' = "dispatch" /\ ret' = Drained /\ queue' = <<>>
      /\ UNCHANGED <<listed, goneSent, opened, alive, connected, table>>
  BY DEF ProcessReturns, NothingMore, libvars
<1>2. /\ Drained \in Seq(Event)
      /\ DataTold(Drained) /\ Tolds(Drained, table) /\ WiimoteTold(Drained, table)
  BY DrainedTells
<1>3. Drained' = Drained
  <2>1. Drained' = ret' \o queue'
    BY DEF Drained
  <2> QED  BY <1>1, <1>2, <2>1, ConcatEmptySeq
<1>4. Places'
  BY <1>1 DEF IInv, Places
<1>5. OpenedInTable' /\ QueuedStatuses'
  BY <1>1 DEF IInv, OpenedInTable, QueuedStatuses
<1>6. TableIsTold' /\ WiimoteIsTold'
  BY <1>1, <1>3 DEF IInv, TableIsTold, WiimoteIsTold, WillList
<1>7. DataIsAnnounced'
  BY <1>1, <1>2 DEF DataIsAnnounced, DataTold
<1> QED  BY <1>4, <1>5, <1>6, <1>7 DEF IInv

\* An adaptor lists what the first event says, or what it listed before.
LEMMA DispatchLists ==
    ASSUME TypeOK, Dispatch, NEW a \in Adaptors
    PROVE  /\ ret # <<>> /\ ret \in Seq(Event)
           /\ a \in listed' <=> SaysOn(ret[1], a) \/ (a \in listed /\ ~SaysOff(ret[1], a))
<1> DEFINE ev == Head(ret)
<1>1. /\ ret # <<>> /\ ret \in Seq(Event) /\ ev = ret[1] /\ ev \in Event
      /\ IF ev.kind = "status" THEN SetIds(ev.dev, ev.on) ELSE UNCHANGED listed
  BY HeadTailProperties DEF Dispatch, TypeOK, ControllerTypeOK
<1> HIDE DEF ev
<1>2. CASE ev.kind # "status"
  BY <1>1, <1>2 DEF SaysOn, SaysOff
<1>3. CASE ev.kind = "status"
  <2>1. ev.on \in BOOLEAN
    BY <1>1, <1>3 DEF Event
  <2>2. CASE ev.on = TRUE
    <3>1. listed' = listed \cup StatusAdaptor(ev.dev)
      BY <1>1, <1>3, <2>2 DEF SetIds
    <3> QED  BY <1>1, <1>3, <2>2, <3>1 DEF SaysOn, SaysOff
  <2>3. CASE ev.on = FALSE
    <3>1. listed' = listed \ StatusAdaptor(ev.dev)
      BY <1>1, <1>3, <2>3 DEF SetIds
    <3> QED  BY <1>1, <1>3, <2>3, <3>1 DEF SaysOn, SaysOff
  <2> QED  BY <2>1, <2>2, <2>3
<1> QED  BY <1>2, <1>3

LEMMA DispatchHolds == ASSUME IInv, TypeOK', Dispatch PROVE IInv'
<1>1. /\ pc = "dispatch" /\ pc' = pc /\ ret' = Tail(ret)
      /\ UNCHANGED <<goneSent, opened, alive, connected, table, queue>>
  BY DEF Dispatch, libvars
<1>2. queue = <<>> /\ TypeOK
  BY <1>1 DEF IInv, Places
<1>3. ret # <<>> /\ ret \in Seq(Event)
  BY <1>2, DispatchLists DEF Adaptors
<1>4. /\ Tail(ret) \in Seq(Event) /\ Len(Tail(ret)) = Len(ret) - 1 /\ Len(ret) \in Nat
      /\ Len(ret) \in 1 .. Len(ret) /\ DOMAIN ret = 1 .. Len(ret)
      /\ DOMAIN Tail(ret) = 1 .. Len(ret) - 1
      /\ \A n \in 1 .. Len(ret) - 1 : Tail(ret)[n] = ret[n + 1] /\ n + 1 \in 1 .. Len(ret)
  BY <1>3, HeadTailProperties, LenProperties
<1>5. Drained = ret /\ Drained' = Tail(ret)
  <2>1. Drained = ret \o <<>> /\ Drained' = Tail(ret) \o <<>>
    BY <1>1, <1>2 DEF Drained
  <2> QED  BY <1>3, <1>4, <2>1, ConcatEmptySeq
<1>6. \A a \in Adaptors, n \in 1 .. Len(ret) :
         ListedAfter(listed, a, ret, n) <=> ListedAfter(listed', a, Tail(ret), n - 1)
  BY <1>2, <1>3, DispatchLists, ListedShifts, ListedShiftsBack
<1>7. Places'
  BY <1>1 DEF IInv, Places
<1>8. OpenedInTable' /\ QueuedStatuses'
  BY <1>1 DEF IInv, OpenedInTable, QueuedStatuses
<1>9. TableIsTold'
  <2> SUFFICES ASSUME NEW d \in table \cap Separate, NEW a \in Adaptors,
                      a \in StatusAdaptor(d)
               PROVE  ListedAfter(listed', a, Tail(ret), Len(Tail(ret)))
    BY <1>1, <1>5 DEF TableIsTold, WillList
  <2>1. ListedAfter(listed, a, ret, Len(ret))
    BY <1>5 DEF IInv, TableIsTold, WillList
  <2> QED  BY <1>4, <1>6, <2>1
<1>10. WiimoteIsTold'
  <2> SUFFICES ASSUME ListedAfter(listed', "wiimote", Tail(ret), Len(Tail(ret)))
               PROVE  table \cap {"wiimote", "motion_plus"} # {}
    BY <1>1, <1>5 DEF WiimoteIsTold, WillList
  <2>1. ListedAfter(listed, "wiimote", ret, Len(ret))
    BY <1>4, <1>6 DEF Adaptors
  <2> QED  BY <1>5, <2>1 DEF IInv, WiimoteIsTold, WillList
<1>11. DataIsAnnounced'
  <2> SUFFICES ASSUME NEW n \in DOMAIN Tail(ret), NEW a \in Adaptors,
                      Tail(ret)[n].kind = "data", Tail(ret)[n].dev \in Separate,
                      a \in StatusAdaptor(Tail(ret)[n].dev)
               PROVE  ListedAfter(listed', a, Tail(ret), n - 1)
    BY <1>1 DEF DataIsAnnounced
  <2>1. Tail(ret)[n] = ret[n + 1] /\ n + 1 \in 1 .. Len(ret) /\ n \in 1 .. Len(ret)
        /\ (n + 1) - 1 = n
    BY <1>4
  <2>2. ListedAfter(listed, a, ret, n)
    BY <1>4, <2>1 DEF IInv, DataIsAnnounced
  <2> QED  BY <1>6, <2>1, <2>2
<1> QED  BY <1>7, <1>8, <1>9, <1>10, <1>11 DEF IInv

-----------------------------------------------------------------------------

\* The invariant is inductive, for any devices and any bounds.
THEOREM Invariance == Spec => []IInv
<1>1. IInv /\ [Next]_vars => IInv'
  <2> SUFFICES ASSUME IInv, [Next]_vars PROVE IInv'
    OBVIOUS
  <2>1. TypeOK'
    BY TypeStep DEF IInv
  <2>2. CASE Appear
    BY <2>1, <2>2, AppearHolds
  <2>3. CASE Remove
    BY <2>1, <2>3, RemoveHolds
  <2>4. CASE StartProcess \/ TickEnds \/ Remote \/ UNCHANGED vars
    BY <2>1, <2>4, MovesHold
  <2>5. CASE ProcessTurn
    BY <2>1, <2>5, TakeDataHolds, TakeWatchHolds, TakeGoneHolds DEF ProcessTurn
  <2>6. CASE ProcessReturns
    BY <2>1, <2>6, ProcessReturnsHolds
  <2>7. CASE Dispatch
    BY <2>1, <2>7, DispatchHolds
  <2> QED  BY <2>2, <2>3, <2>4, <2>5, <2>6, <2>7 DEF Next, MainThread
<1> QED  BY <1>1, InitHolds, PTL DEF Spec

\* Type correctness of the controller and of what the adaptors list.
THEOREM TypeCorrect == Spec => []TypeOK
<1>1. IInv => TypeOK
  BY DEF IInv
<1> QED  BY <1>1, Invariance, PTL

\* When a tick ends, what the controller's table says is connected is listed,
\* whatever process() collected and in whatever order.
THEOREM TicksDeliver == Spec => []TickDeliversTable
<1>1. IInv => TickDeliversTable
  <2> SUFFICES ASSUME IInv, pc = "dispatch", ret = <<>>
               PROVE  /\ queue = <<>>
                      /\ \A d \in table \cap Separate : StatusAdaptor(d) \subseteq listed
    BY DEF TickDeliversTable
  <2>1. queue = <<>>
    BY DEF IInv, Places
  <2>2. Drained = <<>>
    BY <2>1 DEF Drained
  <2>3. ASSUME NEW d \in table \cap Separate, NEW a \in StatusAdaptor(d)
        PROVE  a \in listed
    <3>1. WillList(a)
      BY AdaptorsAre DEF IInv, TableIsTold
    <3> QED  BY <2>2, <3>1, ListedOfNothing DEF WillList
  <2> QED  BY <2>1, <2>3
<1> QED  BY <1>1, Invariance, PTL

\* Clients are told of a device before they get its data.
THEOREM DataFollows == Spec => []DataFollowsConnection
<1>1. IInv => DataFollowsConnection
  <2> SUFFICES ASSUME IInv, ret # <<>>, Head(ret).kind = "data",
                      Head(ret).dev \in Separate,
                      NEW a \in StatusAdaptor(Head(ret).dev)
               PROVE  a \in listed
    BY DEF DataFollowsConnection
  <2>1. ret \in Seq(Event)
    BY DEF IInv, TypeOK, ControllerTypeOK
  <2>2. 1 \in DOMAIN ret /\ Head(ret) = ret[1]
    BY <2>1
  <2>3. ListedAfter(listed, a, ret, 1 - 1)
    BY <2>2, AdaptorsAre DEF IInv, DataIsAnnounced
  <2>4. 1 - 1 = 0
    OBVIOUS
  <2> QED  BY <2>3, <2>4, ListedAtOnce
<1> QED  BY <1>1, Invariance, PTL

\* An id whose controller is gone is not one of the wiimote adaptor's.
THEOREM FreeIdsAreNoWiimotes == Spec => []DestroyedIsNotAWiimote
<1>1. IInv => DestroyedIsNotAWiimote
  <2> SUFFICES ASSUME IInv, ~alive, "wiimote" \in listed PROVE FALSE
    BY DEF DestroyedIsNotAWiimote
  <2>1. table = {} /\ queue = <<>> /\ ret = <<>>
    BY DEF IInv, Places, TypeOK
  <2>2. Drained = <<>>
    BY <2>1 DEF Drained
  <2>3. WillList("wiimote")
    BY <2>2, ListedOfNothing DEF WillList
  <2> QED  BY <2>1, <2>3 DEF IInv, WiimoteIsTold
<1> QED  BY <1>1, Invariance, PTL
=============================================================================
