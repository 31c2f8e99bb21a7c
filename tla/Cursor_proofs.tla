---------------------------- MODULE Cursor_proofs ----------------------------
(***************************************************************************)
(* What process_1point preserves, that the tracked pair always fits the    *)
(* frame, for a camera of any width, and that a processor and a cursor     *)
(* that is shown go with their remote.                                     *)
(***************************************************************************)
EXTENDS VirtualCursor, Dispatchers_proofs, SequenceTheorems, TLAPS

Pairs == Int \X Int

\* A pair that is moved along with the one visible point keeps its length.
LEMMA OnePointKeepsSpan ==
    ASSUME NEW last \in Pairs, NEW x \in Int
    PROVE  /\ OnePoint(last, x) \in Pairs
           /\ Span(OnePoint(last, x)) = Span(last)
<1>1. /\ last[1] \in Int
      /\ last[2] \in Int
  BY DEF Pairs
<1>2. CASE Abs(x - last[1]) < Abs(x - last[2])
  <2>1. OnePoint(last, x) = <<x, last[2] + (x - last[1])>>
    BY <1>1, <1>2 DEF OnePoint, Abs
  <2> QED BY <1>1, <2>1 DEF Span, Abs, Pairs
<1>3. CASE Abs(x - last[1]) > Abs(x - last[2])
  <2>1. OnePoint(last, x) = <<last[1] + (x - last[2]), x>>
    BY <1>1, <1>3 DEF OnePoint, Abs
  <2> QED BY <1>1, <2>1 DEF Span, Abs, Pairs
<1>4. CASE Abs(x - last[1]) = Abs(x - last[2])
  <2>1. OnePoint(last, x) = <<x, last[1] + (x - last[2])>>
    BY <1>1, <1>4 DEF OnePoint, Abs
  <2> QED BY <1>1, <2>1 DEF Span, Abs, Pairs
<1> QED BY <1>1, <1>2, <1>3, <1>4 DEF Abs

\* Unless the visible point is as far from the one as from the other, both
\* points move by the same distance: the pair is not turned round.
THEOREM OnePointKeepsOrder ==
    ASSUME NEW last \in Pairs, NEW x \in Int,
           Abs(x - last[1]) # Abs(x - last[2])
    PROVE  OnePoint(last, x)[2] - OnePoint(last, x)[1] = last[2] - last[1]
<1>1. /\ last[1] \in Int
      /\ last[2] \in Int
  BY DEF Pairs
<1>2. CASE Abs(x - last[1]) < Abs(x - last[2])
  <2>1. OnePoint(last, x) = <<x, last[2] + (x - last[1])>>
    BY <1>1, <1>2 DEF OnePoint, Abs
  <2> QED BY <1>1, <2>1
<1>3. CASE Abs(x - last[1]) > Abs(x - last[2])
  <2>1. OnePoint(last, x) = <<last[1] + (x - last[2]), x>>
    BY <1>1, <1>3 DEF OnePoint, Abs
  <2> QED BY <1>1, <2>1
<1> QED BY <1>1, <1>2, <1>3 DEF Abs

\* The visible point is one of the two that are remembered.
LEMMA OnePointContains ==
    ASSUME NEW last \in Pairs, NEW x \in Int
    PROVE  OnePoint(last, x)[1] = x \/ OnePoint(last, x)[2] = x
BY DEF OnePoint, Pairs

-----------------------------------------------------------------------------
PairInv == last_points \in {<<>>} \cup Pairs /\ PairFitsFrame

\* A frame with two points holds two positions of the camera, and so does
\* the only point of a frame with one.
LEMMA FramePoints ==
    ASSUME NEW ir \in Frames
    PROVE  /\ Len(ir) = 1 => ir[1] \in 0 .. Pixels
           /\ Len(ir) = 2 => ir[1] \in 0 .. Pixels /\ ir[2] \in 0 .. Pixels
<1>1. CASE ir \in {<<0, 0, 0>>, <<0, 0, 0, 0>>}
  BY <1>1
<1>2. CASE \E n \in 0 .. 2 : ir \in [1 .. n -> 0 .. Pixels]
  <2>1. PICK n \in 0 .. 2 : ir \in [1 .. n -> 0 .. Pixels]
    BY <1>2
  <2>2. Len(ir) = n
    BY <2>1
  <2> QED BY <2>1, <2>2
<1> QED BY <1>1, <1>2 DEF Frames

\* One infrared frame: the pair is taken from it, moved by it, or kept.
LEMMA CalculateKeepsPair ==
    ASSUME PairInv, NEW ir \in Frames \cup {<<>>}, Calculate(ir)
    PROVE  PairInv'
<1>1. Pixels \in Nat
  BY PixelsAssumption
<1>2. CASE Probe(ir, last_points) = <<>>
  BY <1>2 DEF Calculate, PairInv, PairFitsFrame
<1>3. CASE Probe(ir, last_points) # <<>>
  <2>1. last_points' = Probe(ir, last_points)
    BY <1>3 DEF Calculate
  <2>2. ir \in Frames
    BY <1>3 DEF Probe
  <2>3. CASE Len(ir) = 2
    <3>1. last_points' = <<ir[1], ir[2]>>
      BY <2>1, <2>3 DEF Probe
    <3>2. ir[1] \in 0 .. Pixels /\ ir[2] \in 0 .. Pixels
      BY <2>2, <2>3, FramePoints
    <3> QED BY <1>1, <3>1, <3>2 DEF PairInv, PairFitsFrame, Pairs, Span, Abs
  <2>4. CASE Len(ir) # 2
    <3>1. /\ Len(ir) = 1
          /\ last_points # <<>>
          /\ last_points' = OnePoint(last_points, ir[1])
      BY <1>3, <2>1, <2>4 DEF Probe
    <3>2. /\ last_points \in Pairs
          /\ Span(last_points) <= Pixels
      BY <3>1 DEF PairInv, PairFitsFrame
    <3>3. ir[1] \in 0 .. Pixels /\ ir[1] \in Int
      BY <1>1, <2>2, <3>1, FramePoints
    <3>4. /\ last_points' \in Pairs
          /\ Span(last_points') = Span(last_points)
      BY <3>1, <3>2, <3>3, OnePointKeepsSpan
    <3>5. last_points'[1] = ir[1] \/ last_points'[2] = ir[1]
      BY <3>1, <3>2, <3>3, OnePointContains
    <3>6. Span(last_points)' = Span(last_points')
      BY DEF Span
    <3> QED BY <3>2, <3>3, <3>4, <3>5, <3>6 DEF PairInv, PairFitsFrame
  <2> QED BY <2>3, <2>4
<1> QED BY <1>2, <1>3

\* The tracked pair always has a point in the frame and is never longer than
\* the frame is wide, for every camera and every sequence of frames.
THEOREM PairAlwaysFits == CursorSpec => []PairFitsFrame
<1>1. CursorInit => PairInv
  BY DEF CursorInit, ProcessorInit, PairInv, PairFitsFrame
<1>2. PairInv /\ [CursorNext]_allvars => PairInv'
  <2> SUFFICES ASSUME PairInv, [CursorNext]_allvars
               PROVE  PairInv'
    OBVIOUS
  <2> DEFINE ev == Head(ret)
  <2>1. ASSUME UNCHANGED last_points PROVE PairInv'
    BY <2>1 DEF PairInv, PairFitsFrame
  <2>2. ASSUME Fresh PROVE PairInv'
    BY <2>2 DEF Fresh, PairInv, PairFitsFrame
  <2>3. CASE CursorProcess(ev)
    <3>1. CASE UNCHANGED cursorvars
      BY <2>1, <3>1 DEF cursorvars, procvars
    <3>2. CASE StatusConnected(ev) \/ OtherData(ev)
      BY <2>1, <3>2 DEF StatusConnected, OtherData, cursorvars, procvars
    <3>3. CASE StatusDisconnected(ev) \/ Reconfigured(ev)
      BY <2>2, <3>3 DEF StatusDisconnected, Reconfigured
    <3>4. CASE MotionData(ev)
      BY <2>1, <3>4 DEF MotionData, InputAcc, InputGyro, procvars
    <3>5. CASE InfraredData(ev)
      <4>1. PICK ir \in Frames : Calculate(ir)
        BY <3>5 DEF InfraredData
      <4> QED BY <4>1, CalculateKeepsPair
    <3> QED BY <2>3, <3>1, <3>2, <3>3, <3>4, <3>5 DEF CursorProcess
  <2>4. CASE Elsewhere
    BY <2>1, <2>4 DEF Elsewhere, cursorvars, procvars
  <2>5. CASE UNCHANGED allvars
    BY <2>1, <2>5 DEF allvars, cursorvars, procvars
  <2> QED BY <2>3, <2>4, <2>5 DEF CursorNext, CursorDispatch
<1>3. PairInv => PairFitsFrame
  BY DEF PairInv
<1> QED BY <1>1, <1>2, <1>3, PTL DEF CursorSpec

-----------------------------------------------------------------------------
(* The processor and what clients are shown follow from the events that    *)
(* are on their way, as the lists of the adaptors do.                      *)

\* Whether something made by events in M and ended by events in E is there
\* when the events of s have been dispatched.
StillAfter(was, M, E, s) ==
    \/ \E k \in 1 .. Len(s) : s[k] \in M /\ \A l \in k + 1 .. Len(s) : s[l] \notin E
    \/ was /\ \A l \in 1 .. Len(s) : s[l] \notin E

LEMMA StillOfNothing ==
    ASSUME NEW was, NEW M, NEW E
    PROVE  StillAfter(was, M, E, <<>>) => was
<1>1. Len(<<>>) = 0
  OBVIOUS
<1> QED  BY <1>1 DEF StillAfter

\* After more events, none of which makes it.
LEMMA StillLater ==
    ASSUME NEW was, NEW M, NEW E, NEW s \in Seq(Event), NEW t \in Seq(Event),
           \A k \in DOMAIN t : t[k] \notin M, StillAfter(was, M, E, s \o t)
    PROVE  StillAfter(was, M, E, s) /\ \A k \in DOMAIN t : t[k] \notin E
<1> DEFINE st == s \o t
<1>1. /\ Len(s) \in Nat /\ Len(t) \in Nat /\ Len(st) = Len(s) + Len(t)
      /\ \A k \in 1 .. Len(s) : st[k] = s[k]
      /\ \A k \in 1 .. Len(t) : st[Len(s) + k] = t[k]
      /\ DOMAIN t = 1 .. Len(t)
  BY ConcatProperties, LenProperties
<1> HIDE DEF st
<1>2. StillAfter(was, M, E, st)
  BY DEF st
<1>3. ASSUME NEW k \in 1 .. Len(st), st[k] \in M, \A l \in k + 1 .. Len(st) : st[l] \notin E
      PROVE  StillAfter(was, M, E, s) /\ \A n \in DOMAIN t : t[n] \notin E
  <2>1. k \in 1 .. Len(s)
    <3> SUFFICES ASSUME k > Len(s) PROVE FALSE
      BY <1>1
    <3>1. k - Len(s) \in 1 .. Len(t) /\ k = Len(s) + (k - Len(s))
      BY <1>1
    <3>2. st[k] = t[k - Len(s)]
      BY <1>1, <3>1
    <3> QED  BY <1>1, <1>3, <3>1, <3>2
  <2>2. s[k] \in M /\ \A l \in k + 1 .. Len(s) : s[l] \notin E
    BY <1>1, <1>3, <2>1
  <2>3. ASSUME NEW n \in 1 .. Len(t) PROVE t[n] \notin E
    <3>1. Len(s) + n \in k + 1 .. Len(st)
      BY <1>1, <2>1
    <3> QED  BY <1>1, <1>3, <3>1
  <2> QED  BY <1>1, <2>1, <2>2, <2>3 DEF StillAfter
<1>4. ASSUME was, \A l \in 1 .. Len(st) : st[l] \notin E
      PROVE  StillAfter(was, M, E, s) /\ \A n \in DOMAIN t : t[n] \notin E
  <2>1. \A l \in 1 .. Len(s) : s[l] \notin E
    BY <1>1, <1>4
  <2>2. ASSUME NEW n \in 1 .. Len(t) PROVE t[n] \notin E
    <3>1. Len(s) + n \in 1 .. Len(st)
      BY <1>1
    <3> QED  BY <1>1, <1>4, <3>1
  <2> QED  BY <1>1, <1>4, <2>1, <2>2 DEF StillAfter
<1> QED  BY <1>2, <1>3, <1>4 DEF StillAfter

\* After one more event.
LEMMA StillAppend ==
    ASSUME NEW was, NEW M, NEW E, NEW s \in Seq(Event), NEW e \in Event, e \notin M,
           StillAfter(was, M, E, Append(s, e))
    PROVE  StillAfter(was, M, E, s) /\ e \notin E
<1> DEFINE t == <<e>>
<1>1. t \in Seq(Event) /\ Append(s, e) = s \o t
  BY AppendIsConcat
<1>2. DOMAIN t = {1} /\ t[1] = e
  OBVIOUS
<1> HIDE DEF t
<1> QED  BY <1>1, <1>2, StillLater

\* Dispatching the first event changes nothing of what will be.
LEMMA StillShifts ==
    ASSUME NEW was, NEW is, NEW M, NEW E, NEW s \in Seq(Event), s # <<>>,
           is => s[1] \in M \/ (was /\ s[1] \notin E),
           StillAfter(is, M, E, Tail(s))
    PROVE  StillAfter(was, M, E, s)
<1> DEFINE t == Tail(s)
<1>1. /\ Len(s) \in Nat /\ Len(s) >= 1 /\ Len(t) = Len(s) - 1
      /\ \A k \in 1 .. Len(t) : t[k] = s[k + 1]
  BY HeadTailProperties
<1> HIDE DEF t
<1>2. \A l \in 2 .. Len(s) : l - 1 \in 1 .. Len(t) /\ t[l - 1] = s[l]
  BY <1>1
<1>3. ASSUME NEW k \in 1 .. Len(t), t[k] \in M, \A l \in k + 1 .. Len(t) : t[l] \notin E
      PROVE  StillAfter(was, M, E, s)
  <2>1. k + 1 \in 1 .. Len(s) /\ s[k + 1] \in M
    BY <1>1, <1>3
  <2>2. ASSUME NEW l \in (k + 1) + 1 .. Len(s) PROVE s[l] \notin E
    <3>1. l \in 2 .. Len(s) /\ l - 1 \in k + 1 .. Len(t)
      BY <1>1
    <3> QED  BY <1>2, <1>3, <3>1
  <2> QED  BY <2>1, <2>2 DEF StillAfter
<1>4. ASSUME is, \A l \in 1 .. Len(t) : t[l] \notin E
      PROVE  StillAfter(was, M, E, s)
  <2>1. \A l \in 2 .. Len(s) : s[l] \notin E
    BY <1>2, <1>4
  <2>2. CASE s[1] \in M
    <3>1. 1 \in 1 .. Len(s) /\ \A l \in 1 + 1 .. Len(s) : s[l] \notin E
      BY <1>1, <2>1
    <3> QED  BY <2>2, <3>1 DEF StillAfter
  <2>3. CASE was /\ s[1] \notin E
    <3>1. \A l \in 1 .. Len(s) : s[l] \notin E
      BY <1>1, <2>1, <2>3
    <3> QED  BY <2>3, <3>1 DEF StillAfter
  <2> QED  BY <1>4, <2>2, <2>3
<1> QED  BY <1>3, <1>4 DEF StillAfter, t

-----------------------------------------------------------------------------
Lost(e) == e.dev = "wiimote" /\ e.kind = "status" /\ e.on = FALSE
Makers == {e \in Event : e.dev = "wiimote" /\ e.kind \in {"data", "gyro"}}
Erasers == {e \in Event : Lost(e) \/ (e.dev = "wiimote" /\ e.kind = "reconfigure")}
Showers == {e \in Event : e.dev = "wiimote" /\ e.kind = "data"}
Hiders == {e \in Event : Lost(e)}

MayExist(s) == StillAfter(exists, Makers, Erasers, s)
MayShow(s) == StillAfter(shown, Showers, Hiders, s)

\* A processor is there, or will be, only as long as the table has a device,
\* and a cursor is shown only as long as it has the wiimote.
CursorInv ==
    /\ MayExist(Drained) => table # {}
    /\ MayShow(Drained) => "wiimote" \in table

\* The dispatcher of cursors leaves the rest of the tick alone.
THEOREM CursorKeepsDispatchers == CursorSpec => Spec
<1>1. CursorInit => Init
  BY DEF CursorInit
<1>2. [CursorNext]_allvars => [Next]_vars
  BY DEF CursorNext, CursorDispatch, Elsewhere, Next, MainThread, allvars
<1> QED  BY <1>1, <1>2, PTL DEF CursorSpec, Spec

\* A reconfiguration makes and shows nothing, and takes back the wiimote when
\* the table loses it.
LEMMA ReconfigurationHides ==
    ASSUME NEW s \in Seq(Event), NEW flags, NEW open,
           ReconfigureInterface(flags, open), MayShow(s) => "wiimote" \in table
    PROVE  /\ MayShow(s \o queue') => "wiimote" \in table'
           /\ MayExist(s \o queue') => MayExist(s)
<1>1. CASE open = flags
  <2>1. queue' = <<>> /\ table' = table /\ s \o <<>> = s
    BY <1>1, ConcatEmptySeq DEF ReconfigureInterface
  <2> QED  BY <2>1
<1>2. CASE open # flags
  <2> DEFINE t == StatusChanges(table, flags)
  <2>1. queue' = t /\ table' = flags
    BY <1>2 DEF ReconfigureInterface
  <2>2. /\ t \in Seq(Event) /\ \A n \in DOMAIN t : \E d \in Devices : Tells(t[n], d, flags)
        /\ "wiimote" \in table /\ "wiimote" \notin flags =>
              \E n \in DOMAIN t : Tells(t[n], "wiimote", flags)
    <3>1. "wiimote" \in Devices
      BY DEF Devices
    <3>2. /\ t \in Seq(Event) /\ \A n \in DOMAIN t : \E d \in Devices : Tells(t[n], d, flags)
          /\ \A d \in Devices :
                (d \in table) # (d \in flags) => \E n \in DOMAIN t : Tells(t[n], d, flags)
      BY StatusChangesAre
    <3> QED  BY <3>1, <3>2
  <2> HIDE DEF t
  <2>3. \A n \in DOMAIN t : t[n] \notin Makers /\ t[n] \notin Showers
    BY <2>2 DEF Tells, Makers, Showers
  <2>4. MayExist(s \o t) => MayExist(s)
    BY <2>2, <2>3, StillLater DEF MayExist
  <2>5. ASSUME MayShow(s \o t), "wiimote" \notin flags PROVE FALSE
    <3>1. MayShow(s) /\ \A n \in DOMAIN t : t[n] \notin Hiders
      BY <2>2, <2>3, <2>5, StillLater DEF MayShow
    <3>2. PICK n \in DOMAIN t : Tells(t[n], "wiimote", flags)
      BY <2>2, <2>5, <3>1
    <3>3. t[n] \in Event
      BY <2>2, LenProperties
    <3> QED  BY <2>5, <3>1, <3>2, <3>3 DEF Tells, Hiders, Lost
  <2> QED  BY <2>1, <2>4, <2>5
<1> QED  BY <1>1, <1>2

\* Steps that leave the cursor and what is on its way alone.
LEMMA CursorKept ==
    ASSUME CursorInv, UNCHANGED <<exists, shown, table>>, Drained' = Drained
    PROVE  CursorInv'
BY DEF CursorInv, MayExist, MayShow

\* What will be is what the events on their way say after the step.
LEMMA CursorAfter ==
    ASSUME UNCHANGED <<exists, shown>>,
           MayExist(Drained') => table' # {}, MayShow(Drained') => "wiimote" \in table'
    PROVE  CursorInv'
BY DEF CursorInv, MayExist, MayShow

LEMMA AppearKeepsCursor ==
    ASSUME IInv, CursorInv, Appear, UNCHANGED <<exists, shown>>
    PROVE  CursorInv'
<1>1. PICK D \in SUBSET Attachable : Construct(D)
  BY DEF Appear
<1>2. /\ ~alive /\ ret' = <<>>
      /\ ReconfigureInterface(D, {}) \/ (table' = {} /\ queue' = <<>>)
  BY <1>1 DEF Construct
<1>3. table = {} /\ queue = <<>> /\ ret = <<>> /\ Drained = <<>>
  BY <1>2 DEF IInv, Places, Drained, Appear
<1>4. Drained' = <<>> \o queue' /\ <<>> \in Seq(Event)
  BY <1>2 DEF Drained
<1>5. ~MayExist(<<>>) /\ ~MayShow(<<>>)
  BY <1>3 DEF CursorInv
<1>6. CASE ReconfigureInterface(D, {})
  BY <1>4, <1>5, <1>6, ReconfigurationHides, CursorAfter
<1>7. CASE table' = {} /\ queue' = <<>>
  <2>1. Drained' = Drained
    BY <1>3, <1>4, <1>7
  <2> QED  BY <1>3, <1>7, <2>1, CursorKept
<1> QED  BY <1>2, <1>6, <1>7

LEMMA TakeDataKeepsCursor ==
    ASSUME IInv, CursorInv, NEW d \in Attachable, TakeData(d), UNCHANGED <<exists, shown>>
    PROVE  CursorInv'
<1> DEFINE e == Data(d)
<1>1. /\ ret' = Append(Drained, e) /\ queue' = <<>> /\ table' = table /\ d \in table
  BY DEF TakeData, IInv, OpenedInTable
<1>2. /\ d \in Devices /\ e \in Event
      /\ e.kind = "data" => e.dev = d
  BY AttachableAssumption, DataIsEvent
<1> HIDE DEF e
<1>3. Drained \in Seq(Event)
  BY DrainedType DEF IInv
<1>4. Drained' = Append(Drained, e)
  <2>1. Drained' = ret' \o queue' /\ Append(Drained, e) \in Seq(Event)
    BY <1>2, <1>3, AppendProperties DEF Drained
  <2> QED  BY <1>1, <2>1, ConcatEmptySeq
<1>5. ASSUME MayShow(Append(Drained, e)), "wiimote" \notin table PROVE FALSE
  <2>1. e \notin Showers
    BY <1>1, <1>2, <1>5 DEF Showers
  <2> QED  BY <1>2, <1>3, <1>5, <2>1, StillAppend DEF MayShow, CursorInv
<1> QED  BY <1>1, <1>4, <1>5, CursorAfter

LEMMA TakeWatchKeepsCursor ==
    ASSUME IInv, CursorInv, TakeWatch, UNCHANGED <<exists, shown>>
    PROVE  CursorInv'
<1> DEFINE s == Append(Drained, Reconfigure)
<1>1. ret' = s
  BY DEF TakeWatch
<1>2. PICK open \in {opened, opened \cap hw} : ReconfigureInterface(hw, open)
  BY DEF TakeWatch
<1>3. Drained \in Seq(Event) /\ Reconfigure \in Event /\ s \in Seq(Event)
  BY DrainedType, ReconfigureIsEvent, AppendProperties DEF IInv
<1>4. Reconfigure \notin Makers /\ Reconfigure \notin Showers /\ Reconfigure \in Erasers
  BY <1>3 DEF Makers, Showers, Erasers, Reconfigure
<1>5. ~MayExist(s) /\ (MayShow(s) => "wiimote" \in table)
  BY <1>3, <1>4, StillAppend DEF MayExist, MayShow, CursorInv
<1>6. Drained' = s \o queue'
  BY <1>1 DEF Drained
<1> HIDE DEF s
<1> QED  BY <1>2, <1>3, <1>5, <1>6, ReconfigurationHides, CursorAfter

LEMMA TakeGoneKeepsCursor ==
    ASSUME IInv, CursorInv, TakeGone, UNCHANGED <<exists, shown>>
    PROVE  CursorInv'
<1>1. ret' = Drained \o Gone /\ queue' = <<>> /\ table' = {}
  BY DEF TakeGone, Gone
<1>2. /\ Drained \in Seq(Event) /\ Gone \in Seq(Event)
      /\ \A n \in DOMAIN Gone : Gone[n] = Status("wiimote", FALSE)
      /\ table # {} => DOMAIN Gone # {}
  BY AttachableAssumption, DrainedType, GoneAre DEF IInv, TypeOK, ControllerTypeOK
<1>3. Drained' = Drained \o Gone
  <2>1. Drained' = ret' \o queue' /\ Drained \o Gone \in Seq(Event)
    BY <1>2, ConcatProperties DEF Drained
  <2> QED  BY <1>1, <2>1, ConcatEmptySeq
<1>4. \A n \in DOMAIN Gone : /\ Gone[n] \notin Makers /\ Gone[n] \notin Showers
                             /\ Gone[n] \in Erasers /\ Gone[n] \in Hiders
  <2>1. Status("wiimote", FALSE) \in Event
    BY DEF Status, Event, Devices
  <2> QED  BY <1>2, <2>1 DEF Makers, Showers, Erasers, Hiders, Lost, Status
<1>5. ASSUME MayExist(Drained \o Gone) PROVE FALSE
  <2>1. MayExist(Drained) /\ \A n \in DOMAIN Gone : Gone[n] \notin Erasers
    BY <1>2, <1>4, <1>5, StillLater DEF MayExist
  <2> QED  BY <1>2, <1>4, <2>1 DEF CursorInv
<1>6. ASSUME MayShow(Drained \o Gone) PROVE FALSE
  <2>1. MayShow(Drained) /\ \A n \in DOMAIN Gone : Gone[n] \notin Hiders
    BY <1>2, <1>4, <1>6, StillLater DEF MayShow
  <2> QED  BY <1>2, <1>4, <2>1 DEF CursorInv
<1> QED  BY <1>3, <1>5, <1>6, CursorAfter

LEMMA ElsewhereKeepsCursor ==
    ASSUME IInv, CursorInv, Elsewhere
    PROVE  CursorInv'
<1>1. UNCHANGED <<exists, shown>>
  BY DEF Elsewhere, cursorvars
<1>2. CASE Remove
  <2>1. table = {} /\ queue = <<>> /\ ret = <<>>
    BY <1>2 DEF IInv, Places, Remove, DestroyController
  <2>2. Drained' = Drained /\ table' = table
    BY <1>2, <2>1 DEF Drained, Remove, DestroyController
  <2> QED  BY <1>1, <2>2, CursorKept
<1>3. CASE StartProcess \/ TickEnds \/ Remote
  <2>1. Drained' = Drained /\ table' = table
    BY <1>3 DEF Drained, StartProcess, TickEnds, Remote, Attach, Detach, Leave,
       ctrlvars, libvars, objvars
  <2> QED  BY <1>1, <2>1, CursorKept
<1>4. CASE ProcessReturns
  <2>1. ret' = Drained /\ queue' = <<>> /\ table' = table
    BY <1>4 DEF ProcessReturns, NothingMore
  <2>2. Drained' = ret' \o queue' /\ Drained \in Seq(Event)
    BY DrainedType DEF Drained, IInv
  <2> QED  BY <1>1, <2>1, <2>2, ConcatEmptySeq, CursorKept
<1>5. CASE ProcessTurn
  BY <1>1, <1>5, TakeDataKeepsCursor, TakeWatchKeepsCursor, TakeGoneKeepsCursor
     DEF ProcessTurn
<1>6. CASE Appear
  BY <1>1, <1>6, AppearKeepsCursor
<1> QED  BY <1>2, <1>3, <1>4, <1>5, <1>6 DEF Elsewhere

\* What the dispatcher of cursors makes of one event.
LEMMA CursorProcessIs ==
    ASSUME NEW ev \in Event, CursorProcess(ev)
    PROVE  /\ exists' => ev \in Makers \/ (exists /\ ev \notin Erasers)
           /\ shown' => ev \in Showers \/ (shown /\ ev \notin Hiders)
<1> USE DEF Makers, Erasers, Showers, Hiders, Lost
<1>1. CASE ev.dev # "wiimote"
  BY <1>1 DEF CursorProcess, cursorvars
<1>2. CASE StatusConnected(ev)
  BY <1>2 DEF StatusConnected, cursorvars
<1>3. CASE StatusDisconnected(ev)
  BY <1>3 DEF StatusDisconnected, Signals
<1>4. CASE Reconfigured(ev)
  BY <1>4 DEF Reconfigured
<1>5. CASE ev.dev = "wiimote" /\ MotionData(ev)
  BY <1>5 DEF MotionData
<1>6. CASE ev.dev = "wiimote" /\ InfraredData(ev)
  BY <1>6 DEF InfraredData
<1>7. CASE OtherData(ev)
  BY <1>7 DEF OtherData, cursorvars
<1> QED  BY <1>1, <1>2, <1>3, <1>4, <1>5, <1>6, <1>7 DEF CursorProcess

LEMMA DispatchKeepsCursor ==
    ASSUME IInv, CursorInv, CursorDispatch
    PROVE  CursorInv'
<1>1. /\ ret # <<>> /\ ret' = Tail(ret) /\ pc = "dispatch"
      /\ UNCHANGED <<table, queue>> /\ CursorProcess(Head(ret))
  BY DEF CursorDispatch, Dispatch
<1>2. queue = <<>> /\ ret \in Seq(Event)
  BY <1>1 DEF IInv, Places, TypeOK, ControllerTypeOK
<1>3. Tail(ret) \in Seq(Event) /\ Head(ret) = ret[1] /\ ret[1] \in Event
  BY <1>1, <1>2, HeadTailProperties
<1>4. Drained = ret /\ Drained' = Tail(ret)
  <2>1. Drained = ret \o queue /\ Drained' = ret' \o queue'
    BY DEF Drained
  <2> QED  BY <1>1, <1>2, <1>3, <2>1, ConcatEmptySeq
<1>5. /\ exists' => ret[1] \in Makers \/ (exists /\ ret[1] \notin Erasers)
      /\ shown' => ret[1] \in Showers \/ (shown /\ ret[1] \notin Hiders)
  BY <1>1, <1>3, CursorProcessIs
<1>6. StillAfter(exists', Makers, Erasers, Tail(ret)) => MayExist(ret)
  BY <1>1, <1>2, <1>5, StillShifts DEF MayExist
<1>7. StillAfter(shown', Showers, Hiders, Tail(ret)) => MayShow(ret)
  BY <1>1, <1>2, <1>5, StillShifts DEF MayShow
<1> QED  BY <1>1, <1>4, <1>6, <1>7 DEF CursorInv, MayExist, MayShow

THEOREM CursorInvariance == CursorSpec => [](IInv /\ CursorInv)
<1>1. CursorInit => CursorInv
  <2> SUFFICES ASSUME CursorInit PROVE CursorInv
    OBVIOUS
  <2>1. Drained = <<>> /\ exists = FALSE /\ shown = FALSE
    BY DEF CursorInit, Init, ControllerInit, Drained
  <2>2. ~MayExist(<<>>) /\ ~MayShow(<<>>)
    BY <2>1, StillOfNothing DEF MayExist, MayShow
  <2> QED  BY <2>1, <2>2 DEF CursorInv
<1>2. IInv /\ CursorInv /\ [CursorNext]_allvars => CursorInv'
  <2> SUFFICES ASSUME IInv, CursorInv, [CursorNext]_allvars PROVE CursorInv'
    OBVIOUS
  <2>1. CASE UNCHANGED allvars
    <3>1. Drained' = Drained /\ UNCHANGED <<exists, shown, table>>
      BY <2>1 DEF Drained, allvars, vars, ctrlvars, objvars, cursorvars
    <3> QED  BY <3>1, CursorKept
  <2> QED  BY <2>1, DispatchKeepsCursor, ElsewhereKeepsCursor DEF CursorNext
<1> QED  BY <1>1, <1>2, CursorKeepsDispatchers, Invariance, PTL DEF CursorSpec

\* An id whose controller is gone has no processor, whatever samples were
\* still on their way when the remote left.
THEOREM ProcessorGoesWithRemote == CursorSpec => []DestroyedHasNoCursor
<1>1. IInv /\ CursorInv => DestroyedHasNoCursor
  <2> SUFFICES ASSUME IInv, CursorInv, ~alive, exists PROVE FALSE
    BY DEF DestroyedHasNoCursor
  <2>1. table = {} /\ Drained = <<>>
    BY DEF IInv, Places, Drained, TypeOK
  <2>2. MayExist(<<>>)
    BY DEF MayExist, StillAfter
  <2> QED  BY <2>1, <2>2 DEF CursorInv
<1> QED  BY <1>1, CursorInvariance, PTL

\* The last a client hears of the cursor of a remote that is gone is that it
\* is not visible.
THEOREM GoneCursorsAreHidden == CursorSpec => []GoneCursorIsHidden
<1>1. IInv /\ CursorInv => GoneCursorIsHidden
  <2> SUFFICES ASSUME IInv, CursorInv, ~alive, shown PROVE FALSE
    BY DEF GoneCursorIsHidden
  <2>1. table = {} /\ Drained = <<>>
    BY DEF IInv, Places, Drained, TypeOK
  <2>2. MayShow(<<>>)
    BY DEF MayShow, StillAfter
  <2> QED  BY <2>1, <2>2 DEF CursorInv
<1> QED  BY <1>1, CursorInvariance, PTL
=============================================================================
