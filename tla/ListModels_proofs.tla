-------------------------- MODULE ListModels_proofs --------------------------
(***************************************************************************)
(* Theorems about the list models of the infrared viewer, for any number   *)
(* of remotes, frames and positions: one row for every point and for every *)
(* cursor, what is signalled is stored, and what is stored is shown.       *)
(***************************************************************************)
EXTENDS ListModels, FiniteSetTheorems, FunctionTheorems, SequenceTheorems, TLAPS

\* getState looks before it appends: no two rows are the same point.
UniquePoints(rows) ==
    \A r, q \in DOMAIN rows :
        rows[r].id = rows[q].id /\ rows[r].num = rows[q].num => r = q

UniqueCursors(rows) ==
    \A r, q \in DOMAIN rows : rows[r].id = rows[q].id => r = q

HasPoint(rows, i, n) == \E r \in DOMAIN rows : Matches(rows[r], i, n)

\* found is rows with, possibly, new rows behind.
Grown(rows, found) ==
    /\ Len(rows) <= Len(found)
    /\ \A r \in DOMAIN rows : found[r] = rows[r]

\* m_count trails the rows only before the first signal, when it is -1.
Counted(count, rows) == count = Len(rows) \/ (count = -1 /\ rows = <<>>)

\* A remote that was heard of has its four rows.
PointsKept ==
    \A i \in Remotes : frames[i] > 0 => \A n \in 0 .. 3 : HasPoint(points, i, n)

PointShape ==
    /\ points \in Seq(Point)
    /\ pview \in Seq(Point)
    /\ frame \in [Remotes -> [0 .. 3 -> Positions]]
    /\ frames \in [Remotes -> 0 .. 2]

CursorShape ==
    /\ cursors \in Seq(Cursor)
    /\ cview \in Seq(Cursor)

PointInv ==
    /\ PointShape
    /\ UniquePoints(points)
    /\ Counted(pcount, points)
    /\ PointsKept
    /\ SignalsAreStored
    /\ PointsAreShown

CursorInv ==
    /\ CursorShape
    /\ UniqueCursors(cursors)
    /\ Counted(ccount, cursors)
    /\ CursorsAreShown

IInv == PointInv /\ CursorInv

-----------------------------------------------------------------------------
(* Rows.                                                                   *)

LEMMA MaxOfTwo ==
    ASSUME NEW a \in Int, NEW b \in Int
    PROVE  Max({a, b}) = IF a >= b THEN a ELSE b
<1> DEFINE m == IF a >= b THEN a ELSE b
           Greatest(x) == x \in {a, b} /\ \A y \in {a, b} : x >= y
<1>1. Greatest(m)
  OBVIOUS
<1>2. \A x : Greatest(x) => x = m
  OBVIOUS
<1>3. Max({a, b}) = CHOOSE x : Greatest(x)
  BY DEF Max
<1> HIDE DEF m, Greatest
<1>4. Max({a, b}) = m
  BY <1>1, <1>2, <1>3
<1> QED  BY <1>4 DEF m

LEMMA MinOfTwo ==
    ASSUME NEW a \in Int, NEW b \in Int
    PROVE  Min({a, b}) = IF a <= b THEN a ELSE b
<1> DEFINE m == IF a <= b THEN a ELSE b
           Least(x) == x \in {a, b} /\ \A y \in {a, b} : x <= y
<1>1. Least(m)
  OBVIOUS
<1>2. \A x : Least(x) => x = m
  OBVIOUS
<1>3. Min({a, b}) = CHOOSE x : Least(x)
  BY DEF Min
<1> HIDE DEF m, Least
<1>4. Min({a, b}) = m
  BY <1>1, <1>2, <1>3
<1> QED  BY <1>4 DEF m

RoomMade(view, first, rows, inserted) ==
    /\ Len(inserted) = Len(rows) + Len(view) - first
    /\ \A r \in 1 .. Len(rows) :
         inserted[r] = IF r <= first THEN view[r] ELSE rows[r]

\* Every delegate shows its row of old or of new.
ShowsEither(view, old, new) == \A r \in DOMAIN new : view[r] \in {old[r], new[r]}
Shows(view, new) == \A r \in DOMAIN new : view[r] = new[r]

\* An inserted view has the old delegates before the first new row, the rows
\* themselves from there on, and what was behind after them.
LEMMA InsertedRows ==
    ASSUME NEW X, NEW view \in Seq(X), NEW rows \in Seq(X), NEW first \in Nat,
           first <= Len(view), first <= Len(rows)
    PROVE  /\ Inserted(view, first, rows) \in Seq(X)
           /\ RoomMade(view, first, rows, Inserted(view, first, rows))
<1> DEFINE before == SubSeq(view, 1, first)
           new == SubSeq(rows, first + 1, Len(rows))
           behind == SubSeq(view, first + 1, Len(view))
<1>1. /\ before \in Seq(X) /\ Len(before) = first
      /\ \A r \in 1 .. first : before[r] = view[r]
  OBVIOUS
<1>2. /\ new \in Seq(X) /\ Len(new) = Len(rows) - first
      /\ \A r \in 1 .. Len(rows) - first : new[r] = rows[first + r]
  OBVIOUS
<1>3. /\ behind \in Seq(X) /\ Len(behind) = Len(view) - first
  OBVIOUS
<1>4. Inserted(view, first, rows) = before \o new \o behind
  BY DEF Inserted
<1> HIDE DEF before, new, behind
<1>5. /\ before \o new \in Seq(X)
      /\ Len(before \o new) = Len(rows)
      /\ \A r \in 1 .. Len(rows) :
           (before \o new)[r] = IF r <= first THEN view[r] ELSE rows[r]
  <2>1. /\ before \o new \in Seq(X)
        /\ Len(before \o new) = Len(rows)
    <3>1. /\ before \o new \in Seq(X)
          /\ Len(before \o new) = Len(before) + Len(new)
      BY <1>1, <1>2, ConcatProperties, Zenon
    <3>2. first + (Len(rows) - first) = Len(rows)
      BY LenProperties
    <3> QED  BY <1>1, <1>2, <3>1, <3>2
  <2>2. ASSUME NEW r \in 1 .. Len(rows), r <= first
        PROVE  (before \o new)[r] = view[r]
    BY <1>1, <1>2, <2>2
  <2>3. ASSUME NEW r \in 1 .. Len(rows), ~ r <= first
        PROVE  (before \o new)[r] = rows[r]
    <3>1. (before \o new)[r] = new[r - first]
      BY <1>1, <1>2, <2>3
    <3>2. r - first \in 1 .. Len(rows) - first /\ first + (r - first) = r
      BY <2>3
    <3> QED  BY <1>2, <3>1, <3>2
  <2> QED  BY <2>1, <2>2, <2>3
<1> DEFINE both == before \o new
<1> HIDE DEF both
<1>6. /\ before \o new \o behind \in Seq(X)
      /\ Len(before \o new \o behind) = Len(rows) + Len(view) - first
      /\ \A r \in 1 .. Len(rows) :
           (before \o new \o behind)[r] = (before \o new)[r]
  <2>1. both \in Seq(X) /\ Len(both) = Len(rows)
    BY <1>5 DEF both
  <2>2. /\ both \o behind \in Seq(X)
        /\ Len(both \o behind) = Len(rows) + Len(view) - first
        /\ \A r \in 1 .. Len(rows) : (both \o behind)[r] = both[r]
    BY <1>3, <2>1
  <2> QED  BY <2>2 DEF both
<1> QED  BY <1>4, <1>5, <1>6 DEF RoomMade

\* dataChanged for every row that differs from its copy brings a view up to
\* date that showed the copies.
LEMMA RefreshedRows ==
    ASSUME NEW X, NEW view \in Seq(X), NEW old \in Seq(X), NEW new \in Seq(X),
           Len(old) = Len(new), Len(new) <= Len(view),
           ShowsEither(view, old, new)
    PROVE  /\ Refreshed(view, old, new) \in Seq(X)
           /\ Len(Refreshed(view, old, new)) = Len(view)
           /\ Shows(Refreshed(view, old, new), new)
BY DEF Refreshed, ShowsEither, Shows

LEMMA CountTo ==
    ASSUME NEW n \in Nat
    PROVE  Cardinality(1 .. n) = n
<1>1. 1 \in Int /\ n \in Int
  OBVIOUS
<1>2. Cardinality(1 .. n) = IF 1 > n THEN 0 ELSE n - 1 + 1
  BY <1>1, FS_Interval, Zenon
<1> QED  BY <1>2

\* As many rows as there are points: the pair of a row's id and number names it.
LEMMA PointsAreCounted ==
    ASSUME points \in Seq(Point), UniquePoints(points)
    PROVE  Len(points) <= 4 * Cardinality(Remotes)
<1> DEFINE Names == Remotes \X (0 .. 3)
           name == [r \in 1 .. Len(points) |-> <<points[r].id, points[r].num>>]
<1>1. name \in Injection(1 .. Len(points), Names)
  <2>1. \A r \in 1 .. Len(points) : points[r].id \in Remotes /\ points[r].num \in 0 .. 3
    <3>1. \A r \in 1 .. Len(points) : points[r] \in Point
      OBVIOUS
    <3> QED  BY <3>1 DEF Point
  <2>2. name \in [1 .. Len(points) -> Names]
    BY <2>1
  <2>3. ASSUME NEW r \in 1 .. Len(points), NEW q \in 1 .. Len(points), name[r] = name[q]
        PROVE  r = q
    BY <2>3 DEF UniquePoints
  <2> QED  BY <2>2, <2>3 DEF Injection, IsInjective
<1>2. IsFiniteSet(0 .. 3) /\ Cardinality(0 .. 3) = 4
  <2>1. 0 \in Int /\ 3 \in Int /\ ~ 0 > 3 /\ 3 - 0 + 1 = 4
    OBVIOUS
  <2> QED  BY <2>1, FS_Interval, Zenon
<1>3. /\ IsFiniteSet(Names)
      /\ Cardinality(Names) = Cardinality(Remotes) * Cardinality(0 .. 3)
  BY <1>2, FS_Product, RemotesAssumption
<1>4. Cardinality(1 .. Len(points)) = Len(points)
  BY CountTo, LenProperties
<1>5. Cardinality(1 .. Len(points)) <= Cardinality(Names)
  BY <1>1, <1>3, FS_Injection
<1>6. Cardinality(Remotes) \in Nat
  BY RemotesAssumption, FS_CardinalityType
<1> HIDE DEF Names
<1>7. Cardinality(Names) = 4 * Cardinality(Remotes)
  BY <1>2, <1>3, <1>6
<1> QED  BY <1>4, <1>5, <1>7

LEMMA CursorsAreCounted ==
    ASSUME cursors \in Seq(Cursor), UniqueCursors(cursors)
    PROVE  Len(cursors) <= Cardinality(Remotes)
<1> DEFINE name == [r \in 1 .. Len(cursors) |-> cursors[r].id]
<1>1. name \in Injection(1 .. Len(cursors), Remotes)
  <2>1. \A r \in 1 .. Len(cursors) : cursors[r].id \in Remotes
    <3>1. \A r \in 1 .. Len(cursors) : cursors[r] \in Cursor
      OBVIOUS
    <3> QED  BY <3>1 DEF Cursor
  <2>2. name \in [1 .. Len(cursors) -> Remotes]
    BY <2>1
  <2>3. ASSUME NEW r \in 1 .. Len(cursors), NEW q \in 1 .. Len(cursors), name[r] = name[q]
        PROVE  r = q
    BY <2>3 DEF UniqueCursors
  <2> QED  BY <2>2, <2>3 DEF Injection, IsInjective
<1>2. Cardinality(1 .. Len(cursors)) = Len(cursors)
  BY CountTo, LenProperties
<1> QED  BY <1>1, <1>2, FS_Injection, RemotesAssumption


-----------------------------------------------------------------------------
(* InfraredModel.                                                          *)

\* getState finds its row or makes one, and leaves the others alone.
LEMMA GetStateRows ==
    ASSUME NEW rows \in Seq(Point), UniquePoints(rows),
           NEW i \in Remotes, NEW n \in 0 .. 3
    PROVE  /\ GetState(rows, i, n) \in Seq(Point)
           /\ UniquePoints(GetState(rows, i, n))
           /\ Grown(rows, GetState(rows, i, n))
           /\ HasPoint(GetState(rows, i, n), i, n)
           /\ HasPoint(rows, i, n) => GetState(rows, i, n) = rows
<1>1. CASE HasPoint(rows, i, n)
  <2>1. GetState(rows, i, n) = rows
    BY <1>1 DEF GetState, HasPoint
  <2> QED  BY <1>1, <2>1 DEF Grown
<1>2. CASE ~ HasPoint(rows, i, n)
  <2> DEFINE row == [id |-> i, num |-> n, pos |-> "origin", visible |-> FALSE]
             found == Append(rows, row)
  <2>1. row \in Point /\ row.id = i /\ row.num = n
    BY PositionsAssumption DEF Point
  <2>2. GetState(rows, i, n) = found
    BY <1>2 DEF GetState, HasPoint
  <2> HIDE DEF row
  <2>3. /\ found \in Seq(Point)
        /\ Len(found) = Len(rows) + 1
        /\ \A r \in 1 .. Len(rows) : found[r] = rows[r]
        /\ found[Len(rows) + 1] = row
    BY <2>1
  <2> HIDE DEF found
  <2>4. DOMAIN found = 1 .. Len(rows) + 1 /\ DOMAIN rows = 1 .. Len(rows)
    BY <2>3
  <2>5. ASSUME NEW r \in DOMAIN found, NEW q \in DOMAIN found,
               found[r].id = found[q].id, found[r].num = found[q].num
        PROVE  r = q
    <3>1. \A p \in 1 .. Len(rows) : ~ (found[p].id = i /\ found[p].num = n)
      BY <1>2, <2>3, <2>4 DEF HasPoint, Matches
    <3>2. CASE r \in 1 .. Len(rows) /\ q \in 1 .. Len(rows)
      BY <2>3, <2>4, <2>5, <3>2 DEF UniquePoints
    <3>3. CASE r = Len(rows) + 1 \/ q = Len(rows) + 1
      BY <2>1, <2>3, <2>4, <2>5, <3>1, <3>3
    <3> QED  BY <2>4, <3>2, <3>3
  <2>6. UniquePoints(found)
    BY <2>5 DEF UniquePoints
  <2>7. Grown(rows, found)
    BY <2>3 DEF Grown
  <2>8. HasPoint(found, i, n)
    <3>1. Len(rows) + 1 \in DOMAIN found
      BY <2>4
    <3> QED  BY <2>1, <2>3, <3>1 DEF HasPoint, Matches
  <2> QED  BY <1>2, <2>2, <2>3, <2>6, <2>7, <2>8
<1> QED  BY <1>1, <1>2

LEMMA GrownAgain ==
    ASSUME NEW r \in Seq(Point), NEW s \in Seq(Point), NEW t \in Seq(Point),
           Grown(r, s), Grown(s, t)
    PROVE  Grown(r, t)
BY DEF Grown

LEMMA PointsStay ==
    ASSUME NEW rows \in Seq(Point), NEW found \in Seq(Point), Grown(rows, found),
           NEW i, NEW n, HasPoint(rows, i, n)
    PROVE  HasPoint(found, i, n)
<1>1. PICK r \in DOMAIN rows : Matches(rows[r], i, n)
  BY DEF HasPoint
<1>2. r \in DOMAIN found /\ found[r] = rows[r]
  BY DEF Grown
<1> QED  BY <1>1, <1>2 DEF HasPoint

\* The four searches of a signal: the four points are there afterwards.
LEMMA GetStatesRows ==
    ASSUME NEW rows \in Seq(Point), UniquePoints(rows), NEW i \in Remotes
    PROVE  /\ GetStates(rows, i) \in Seq(Point)
           /\ UniquePoints(GetStates(rows, i))
           /\ Grown(rows, GetStates(rows, i))
           /\ \A n \in 0 .. 3 : HasPoint(GetStates(rows, i), i, n)
           /\ (\A n \in 0 .. 3 : HasPoint(rows, i, n)) => GetStates(rows, i) = rows
<1> DEFINE first == GetState(rows, i, 0)
           second == GetState(first, i, 1)
           third == GetState(second, i, 2)
           found == GetState(third, i, 3)
<1>1. /\ first \in Seq(Point) /\ UniquePoints(first) /\ Grown(rows, first)
      /\ HasPoint(first, i, 0)
      /\ HasPoint(rows, i, 0) => first = rows
  BY GetStateRows
<1> HIDE DEF first
<1>2. /\ second \in Seq(Point) /\ UniquePoints(second) /\ Grown(first, second)
      /\ HasPoint(second, i, 1)
      /\ HasPoint(first, i, 1) => second = first
  BY <1>1, GetStateRows
<1> HIDE DEF second
<1>3. /\ third \in Seq(Point) /\ UniquePoints(third) /\ Grown(second, third)
      /\ HasPoint(third, i, 2)
      /\ HasPoint(second, i, 2) => third = second
  BY <1>2, GetStateRows
<1> HIDE DEF third
<1>4. /\ found \in Seq(Point) /\ UniquePoints(found) /\ Grown(third, found)
      /\ HasPoint(found, i, 3)
      /\ HasPoint(third, i, 3) => found = third
  BY <1>3, GetStateRows
<1> HIDE DEF found
<1>5. Grown(second, found) /\ Grown(first, found) /\ Grown(rows, found)
  BY <1>1, <1>2, <1>3, <1>4, GrownAgain
<1>6. \A n \in 0 .. 3 : HasPoint(found, i, n)
  <2>1. HasPoint(found, i, 0) /\ HasPoint(found, i, 1) /\ HasPoint(found, i, 2)
    BY <1>1, <1>2, <1>3, <1>4, <1>5, PointsStay
  <2> QED  BY <1>4, <2>1
<1>7. (\A n \in 0 .. 3 : HasPoint(rows, i, n)) => found = rows
  BY <1>1, <1>2, <1>3, <1>4
<1>8. GetStates(rows, i) = found
  BY DEF GetStates, found, third, second, first
<1> QED  BY <1>4, <1>5, <1>6, <1>7, <1>8


LEMMA ExceptPoint ==
    ASSUME NEW row \in Point, NEW p \in Positions, NEW v \in BOOLEAN
    PROVE  [row EXCEPT !.pos = p, !.visible = v] =
             [id |-> row.id, num |-> row.num, pos |-> p, visible |-> v]
<1> DEFINE changed == [row EXCEPT !.pos = p, !.visible = v]
           written == [id |-> row.id, num |-> row.num, pos |-> p, visible |-> v]
<1>1. /\ changed \in Point
      /\ changed.id = row.id /\ changed.num = row.num
      /\ changed.pos = p /\ changed.visible = v
  BY DEF Point
<1>2. /\ written \in Point
      /\ written.id = row.id /\ written.num = row.num
      /\ written.pos = p /\ written.visible = v
  BY DEF Point
<1> HIDE DEF changed, written
<1>3. changed = written
  BY <1>1, <1>2 DEF Point
<1> QED  BY <1>3 DEF changed, written

\* Rows of other remotes are as they were and, unless a pointer dangled, a row
\* of this remote holds its point of the frame.
HoldsFrame(rows, new, i, f, lost) ==
    \A r \in DOMAIN rows :
        /\ new[r].id = rows[r].id
        /\ new[r].num = rows[r].num
        /\ rows[r].id # i => new[r] = rows[r]
        /\ \A n \in 0 .. 3 : lost = {} /\ Matches(rows[r], i, n) =>
             new[r] = [id |-> i, num |-> n, pos |-> f[n], visible |-> f[n] # "lost"]

\* What a frame writes.
LEMMA StoredRows ==
    ASSUME NEW rows \in Seq(Point), NEW i \in Remotes,
           NEW f \in [0 .. 3 -> Positions], NEW lost \in SUBSET (0 .. 3)
    PROVE  /\ Stored(rows, i, f, lost) \in Seq(Point)
           /\ Len(Stored(rows, i, f, lost)) = Len(rows)
           /\ HoldsFrame(rows, Stored(rows, i, f, lost), i, f, lost)
<1> DEFINE new == Stored(rows, i, f, lost)
           Written(r) == \E n \in (0 .. 3) \ lost : Matches(rows[r], i, n)
           Row(r) == [id |-> rows[r].id, num |-> rows[r].num,
                      pos |-> f[rows[r].num], visible |-> f[rows[r].num] # "lost"]
<1>1. \A r \in DOMAIN rows : rows[r] \in Point
  OBVIOUS
<1>2. ASSUME NEW r \in DOMAIN rows
      PROVE  new[r] = IF Written(r) THEN Row(r) ELSE rows[r]
  <2>1. new[r] = IF Written(r)
                 THEN [rows[r] EXCEPT !.pos = f[rows[r].num],
                                      !.visible = f[rows[r].num] # "lost"]
                 ELSE rows[r]
    BY DEF Stored
  <2>2. [rows[r] EXCEPT !.pos = f[rows[r].num],
                        !.visible = f[rows[r].num] # "lost"] = Row(r)
    <3>1. f[rows[r].num] \in Positions /\ (f[rows[r].num] # "lost") \in BOOLEAN
      BY <1>1 DEF Point
    <3> QED  BY <1>1, <3>1, ExceptPoint
  <2> QED  BY <2>1, <2>2
<1>3. ASSUME NEW r \in DOMAIN rows
      PROVE  Row(r) \in Point /\ Row(r).id = rows[r].id /\ Row(r).num = rows[r].num
  BY <1>1 DEF Point
<1>4. new \in Seq(Point) /\ Len(new) = Len(rows)
  <2>1. DOMAIN new = 1 .. Len(rows)
    BY DEF Stored
  <2>2. ASSUME NEW r \in 1 .. Len(rows)  PROVE new[r] \in Point
    <3>1. r \in DOMAIN rows
      OBVIOUS
    <3> HIDE DEF new, Written, Row
    <3> QED  BY <1>1, <1>2, <1>3, <3>1
  <2>3. new = [r \in 1 .. Len(rows) |-> new[r]]
    BY <2>1 DEF Stored
  <2> HIDE DEF new
  <2> QED  BY <2>1, <2>2, <2>3
<1>5. ASSUME NEW r \in DOMAIN rows, rows[r].id # i
      PROVE  new[r] = rows[r]
  <2>1. ~ Written(r)
    BY <1>5 DEF Matches
  <2> QED  BY <1>2, <2>1
<1>6. ASSUME NEW r \in DOMAIN rows, NEW n \in 0 .. 3, lost = {}, Matches(rows[r], i, n)
      PROVE  new[r] = [id |-> i, num |-> n, pos |-> f[n], visible |-> f[n] # "lost"]
  <2>1. Written(r) /\ rows[r].id = i /\ rows[r].num = n
    BY <1>6 DEF Matches
  <2> QED  BY <1>2, <2>1
<1> HIDE DEF new, Written, Row
<1>7. \A r \in DOMAIN rows : new[r].id = rows[r].id /\ new[r].num = rows[r].num
  BY <1>2, <1>3
<1>8. HoldsFrame(rows, new, i, f, lost)
  BY <1>5, <1>6, <1>7 DEF HoldsFrame
<1> QED  BY <1>4, <1>8 DEF new

\* A signal keeps the rows, the count and the view together, wherever the
\* append has left its pointers.
LEMMA FrameStep ==
    ASSUME PointInv, NEW i \in Remotes, NEW f \in Frames, InfraredDataChanged(i, f)
    PROVE  PointInv'
<1> USE DEF PointInv, PointShape
<1>1. PICK lost \in Dangling(points, i) :
        LET found == GetStates(points, i)
            new == Stored(found, i, f, lost)
            view == IF Len(new) > pcount THEN Inserted(pview, FirstPointRow, new)
                                         ELSE pview
        IN  /\ points' = new
            /\ pcount' = Len(new)
            /\ pview' = Refreshed(view, found, new)
  BY DEF InfraredDataChanged
<1> DEFINE found == GetStates(points, i)
           new == Stored(found, i, f, lost)
           view == IF Len(new) > pcount THEN Inserted(pview, FirstPointRow, new)
                                        ELSE pview
<1>2. /\ points' = new
      /\ pcount' = Len(new)
      /\ pview' = Refreshed(view, found, new)
  BY <1>1
<1>3. /\ f \in [0 .. 3 -> Positions]
      /\ lost \in SUBSET (0 .. 3)
      /\ found = points => lost = {}
  BY <1>1, FramesAssumption DEF Dangling
<1>4. /\ found \in Seq(Point)
      /\ UniquePoints(found)
      /\ Grown(points, found)
      /\ \A n \in 0 .. 3 : HasPoint(found, i, n)
      /\ (\A n \in 0 .. 3 : HasPoint(points, i, n)) => found = points
  BY GetStatesRows
<1> HIDE DEF found
<1>5. /\ new \in Seq(Point)
      /\ Len(new) = Len(found)
      /\ HoldsFrame(found, new, i, f, lost)
  BY <1>3, <1>4, StoredRows
<1> HIDE DEF new
<1>6. DOMAIN new = DOMAIN found /\ DOMAIN new = 1 .. Len(new)
  BY <1>4, <1>5
<1>7. Len(points) \in Nat /\ Len(pview) \in Nat /\ Len(points) <= Len(pview)
  <2>1. CASE Len(points) = 0
    BY <2>1
  <2>2. CASE Len(points) > 0
    <3>1. Len(points) \in DOMAIN points
      BY <2>2
    <3> QED  BY <3>1 DEF PointsAreShown
  <2> QED  BY <2>1, <2>2
<1>8. \A r \in 1 .. Len(points) : pview[r] = points[r] /\ found[r] = points[r]
  BY <1>4 DEF PointsAreShown, Grown
<1>9. /\ view \in Seq(Point)
      /\ Len(new) <= Len(view)
      /\ ShowsEither(view, found, new)
  <2>1. CASE Len(new) > pcount
    <3>1. /\ FirstPointRow \in Nat
          /\ FirstPointRow <= Len(points)
          /\ FirstPointRow <= Len(new)
      <4>1. pcount - 1 \in Int /\ 0 \in Int
        BY DEF Counted
      <4>2. FirstPointRow = IF pcount - 1 >= 0 THEN pcount - 1 ELSE 0
        BY <4>1, MaxOfTwo DEF FirstPointRow
      <4> QED  BY <1>4, <1>5, <4>2 DEF Counted, Grown
    <3> DEFINE inserted == Inserted(pview, FirstPointRow, new)
    <3>2. /\ inserted \in Seq(Point)
          /\ RoomMade(pview, FirstPointRow, new, inserted)
      <4>1. FirstPointRow <= Len(pview)
        BY <1>7, <3>1
      <4>2. pview \in Seq(Point) /\ new \in Seq(Point)
        BY <1>5
      <4> HIDE DEF PointInv, PointShape
      <4> QED  BY <3>1, <4>1, <4>2, InsertedRows
    <3>3. view = inserted
      BY <2>1
    <3> HIDE DEF inserted, view
    <3>4. ASSUME NEW r \in DOMAIN new  PROVE view[r] \in {found[r], new[r]}
      BY <1>6, <1>8, <3>1, <3>2, <3>3 DEF RoomMade
    <3>5. Len(new) <= Len(view)
      BY <1>5, <1>7, <3>1, <3>2, <3>3 DEF RoomMade
    <3> QED  BY <3>2, <3>3, <3>4, <3>5 DEF ShowsEither
  <2>2. CASE ~ Len(new) > pcount
    <3>1. view = pview /\ Len(new) <= Len(points)
      BY <1>5, <2>2 DEF Counted
    <3> HIDE DEF view
    <3> QED  BY <1>6, <1>7, <1>8, <3>1 DEF ShowsEither
  <2> QED  BY <2>1, <2>2
<1> HIDE DEF view
<1>10. /\ pview' \in Seq(Point)
       /\ Len(pview') = Len(view)
       /\ Shows(pview', new)
  BY <1>2, <1>4, <1>5, <1>9, RefreshedRows
<1>11. PointsAreShown'
  BY <1>2, <1>6, <1>9, <1>10 DEF PointsAreShown, Shows
<1>12. Counted(pcount, points)'
  BY <1>2 DEF Counted
<1>13. UniquePoints(points)'
  BY <1>2, <1>4, <1>5, <1>6 DEF UniquePoints, HoldsFrame
<1>14. /\ frame' = [frame EXCEPT ![i] = f]
       /\ frames' = [frames EXCEPT ![i] = Min({frames[i] + 1, 2})]
  BY DEF InfraredDataChanged
<1>15. Min({frames[i] + 1, 2}) = IF frames[i] + 1 <= 2 THEN frames[i] + 1 ELSE 2
  BY MinOfTwo
<1>16. /\ frames' \in [Remotes -> 0 .. 2]
       /\ frames'[i] = 2 => frames[i] > 0
       /\ \A j \in Remotes \ {i} : frames'[j] = frames[j] /\ frame'[j] = frame[j]
       /\ frame' \in [Remotes -> [0 .. 3 -> Positions]]
       /\ frame'[i] = f
  BY <1>3, <1>14, <1>15
<1>17. PointsKept'
  <2> SUFFICES ASSUME NEW j \in Remotes, frames'[j] > 0, NEW n \in 0 .. 3
               PROVE  HasPoint(new, j, n)
    BY <1>2 DEF PointsKept, HasPoint
  <2>1. HasPoint(found, j, n)
    <3>1. CASE j = i
      BY <1>4, <3>1
    <3>2. CASE j # i
      <4>1. HasPoint(points, j, n)
        BY <1>16, <3>2 DEF PointsKept
      <4> QED  BY <1>4, <4>1, PointsStay
    <3> QED  BY <3>1, <3>2
  <2> QED  BY <1>5, <1>6, <2>1 DEF HasPoint, Matches, HoldsFrame
<1>18. SignalsAreStored'
  <2> SUFFICES ASSUME NEW j \in Remotes, frames'[j] = 2, NEW n \in 0 .. 3
               PROVE  \E r \in DOMAIN new :
                        new[r] = [id |-> j, num |-> n, pos |-> frame'[j][n],
                                  visible |-> frame'[j][n] # "lost"]
    BY <1>2 DEF SignalsAreStored
  <2>1. CASE j = i
    <3>1. found = points /\ lost = {}
      BY <1>3, <1>4, <1>16, <2>1 DEF PointsKept
    <3>2. PICK r \in DOMAIN found : Matches(found[r], i, n)
      BY <1>4 DEF HasPoint
    <3> QED  BY <1>5, <1>6, <1>16, <2>1, <3>1, <3>2 DEF HoldsFrame
  <2>2. CASE j # i
    <3>1. PICK r \in DOMAIN points :
            points[r] = [id |-> j, num |-> n, pos |-> frame[j][n],
                         visible |-> frame[j][n] # "lost"]
      BY <1>16, <2>2 DEF SignalsAreStored
    <3>2. r \in DOMAIN found /\ found[r] = points[r]
      BY <1>4 DEF Grown
    <3>3. new[r] = found[r]
      BY <1>5, <2>2, <3>1, <3>2 DEF HoldsFrame
    <3> QED  BY <1>6, <1>16, <2>2, <3>1, <3>2, <3>3
  <2> QED  BY <2>1, <2>2
<1> QED  BY <1>2, <1>5, <1>10, <1>11, <1>12, <1>13, <1>16, <1>17, <1>18


-----------------------------------------------------------------------------
(* VirtualCursorModel.                                                     *)

\* A delegate that shows a cursor, pressed or not.
Alike(v, c) == v.id = c.id /\ v.pos = c.pos /\ v.visible = c.visible

LEMMA AlikeButPressed ==
    ASSUME NEW v \in Cursor, NEW c \in Cursor
    PROVE  v = [c EXCEPT !.press = v.press] <=> Alike(v, c)
<1> DEFINE changed == [c EXCEPT !.press = v.press]
<1>1. /\ changed \in Cursor
      /\ changed.id = c.id /\ changed.pos = c.pos /\ changed.visible = c.visible
      /\ changed.press = v.press
  BY DEF Cursor
<1> HIDE DEF changed
<1>2. v = changed <=> Alike(v, c)
  BY <1>1 DEF Cursor, Alike
<1> QED  BY <1>2 DEF changed

AllAlike(view, rows) ==
    /\ Len(view) = Len(rows)
    /\ \A r \in 1 .. Len(rows) : Alike(view[r], rows[r])

LEMMA ShownIsAlike ==
    ASSUME NEW view \in Seq(Cursor), NEW rows \in Seq(Cursor)
    PROVE  AllAlike(view, rows) <=>
             /\ Len(view) = Len(rows)
             /\ \A r \in DOMAIN rows :
                  view[r] = [rows[r] EXCEPT !.press = view[r].press]
<1>1. ASSUME Len(view) = Len(rows), NEW r \in DOMAIN rows
      PROVE  view[r] \in Cursor /\ rows[r] \in Cursor
  BY <1>1
<1>2. ASSUME Len(view) = Len(rows), NEW r \in DOMAIN rows
      PROVE  view[r] = [rows[r] EXCEPT !.press = view[r].press]
               <=> Alike(view[r], rows[r])
  BY <1>1, <1>2, AlikeButPressed
<1>3. DOMAIN rows = 1 .. Len(rows)
  OBVIOUS
<1> QED  BY <1>2, <1>3, Zenon DEF AllAlike

\* getState finds the cursor or makes one, and leaves the others alone.
LEMMA GetCursorRows ==
    ASSUME CursorInv, NEW i \in Remotes
    PROVE  /\ GetCursor(i) \in Seq(Cursor)
           /\ UniqueCursors(GetCursor(i))
           /\ Grown(cursors, GetCursor(i))
<1> USE DEF CursorInv, CursorShape
<1>1. CASE \E r \in DOMAIN cursors : cursors[r].id = i
  <2>1. GetCursor(i) = cursors
    BY <1>1 DEF GetCursor
  <2> QED  BY <2>1 DEF Grown
<1>2. CASE ~ \E r \in DOMAIN cursors : cursors[r].id = i
  <2> DEFINE row == [id |-> i, pos |-> "origin", visible |-> FALSE, press |-> FALSE]
             found == Append(cursors, row)
  <2>1. row \in Cursor /\ row.id = i
    BY PositionsAssumption DEF Cursor
  <2>2. GetCursor(i) = found
    BY <1>2 DEF GetCursor
  <2> HIDE DEF row
  <2>3. /\ found \in Seq(Cursor)
        /\ Len(found) = Len(cursors) + 1
        /\ \A r \in 1 .. Len(cursors) : found[r] = cursors[r]
        /\ found[Len(cursors) + 1] = row
    BY <2>1
  <2> HIDE DEF found
  <2>4. DOMAIN found = 1 .. Len(cursors) + 1 /\ DOMAIN cursors = 1 .. Len(cursors)
    BY <2>3
  <2>5. ASSUME NEW r \in DOMAIN found, NEW q \in DOMAIN found, found[r].id = found[q].id
        PROVE  r = q
    <3>1. \A p \in 1 .. Len(cursors) : found[p].id # i
      BY <1>2, <2>3, <2>4
    <3>2. CASE r \in 1 .. Len(cursors) /\ q \in 1 .. Len(cursors)
      BY <2>3, <2>4, <2>5, <3>2 DEF UniqueCursors
    <3>3. CASE r = Len(cursors) + 1 \/ q = Len(cursors) + 1
      BY <2>1, <2>3, <2>4, <2>5, <3>1, <3>3
    <3> QED  BY <2>4, <3>2, <3>3
  <2>6. UniqueCursors(found)
    BY <2>5 DEF UniqueCursors
  <2>7. Grown(cursors, found)
    BY <2>3 DEF Grown
  <2> QED  BY <2>2, <2>3, <2>6, <2>7
<1> QED  BY <1>1, <1>2

\* Only the new rows are inserted, behind the others.
LEMMA CursorsInsertedRows ==
    ASSUME CursorInv, NEW new \in Seq(Cursor), Len(cursors) <= Len(new)
    PROVE  /\ CursorsInserted(new) \in Seq(Cursor)
           /\ Len(CursorsInserted(new)) = Len(new)
           /\ \A r \in 1 .. Len(new) :
                CursorsInserted(new)[r] = IF r <= Len(cursors) THEN cview[r] ELSE new[r]
<1> USE DEF CursorInv, CursorShape
<1>1. Len(cview) = Len(cursors) /\ Len(cursors) \in Nat
  BY DEF CursorsAreShown
<1>2. CASE Len(new) > ccount
  <2>1. FirstCursorRow = Len(cursors)
    <3>1. ccount \in Int /\ 0 \in Int
      BY <1>1 DEF Counted
    <3>2. FirstCursorRow = IF ccount >= 0 THEN ccount ELSE 0
      BY <3>1, MaxOfTwo DEF FirstCursorRow
    <3> QED  BY <1>1, <3>2 DEF Counted
  <2> DEFINE inserted == Inserted(cview, Len(cursors), new)
  <2>2. inserted \in Seq(Cursor) /\ RoomMade(cview, Len(cursors), new, inserted)
    <3>1. Len(cursors) <= Len(cview) /\ cview \in Seq(Cursor)
      BY <1>1
    <3> HIDE DEF CursorInv, CursorShape
    <3> QED  BY <1>1, <3>1, InsertedRows
  <2>3. CursorsInserted(new) = inserted
    BY <1>2, <2>1 DEF CursorsInserted
  <2> HIDE DEF inserted
  <2> QED  BY <1>1, <2>2, <2>3 DEF RoomMade
<1>3. CASE ~ Len(new) > ccount
  <2>1. CursorsInserted(new) = cview /\ Len(new) = Len(cursors)
    BY <1>1, <1>3 DEF CursorsInserted, Counted
  <2> QED  BY <1>1, <2>1
<1> QED  BY <1>2, <1>3

\* Rows that keep their ids, counted and shown, keep the invariant.
LEMMA CursorsKept ==
    ASSUME CursorInv, NEW found \in Seq(Cursor), UniqueCursors(found),
           NEW new \in Seq(Cursor), Len(new) = Len(found),
           \A r \in 1 .. Len(found) : new[r].id = found[r].id,
           CursorUpdate(new), cview' \in Seq(Cursor), AllAlike(cview', new)
    PROVE  CursorInv'
<1>1. cursors' = new /\ ccount' = Len(new)
  BY DEF CursorUpdate
<1>2. UniqueCursors(cursors')
  BY <1>1 DEF UniqueCursors
<1>3. Counted(ccount, cursors)'
  BY <1>1 DEF Counted
<1>4. CursorsAreShown'
  BY <1>1, ShownIsAlike DEF CursorsAreShown
<1> QED  BY <1>1, <1>2, <1>3, <1>4 DEF CursorInv, CursorShape


LEMMA CursorStep ==
    ASSUME CursorInv, NEW i \in Remotes, NEW position \in Targets, NEW visible \in BOOLEAN,
           VirtualCursorDataChanged(i, position, visible)
    PROVE  CursorInv'
<1> DEFINE found == GetCursor(i)
           new == [r \in DOMAIN found |->
                     IF found[r].id = i
                     THEN [found[r] EXCEPT !.pos = position, !.visible = visible]
                     ELSE found[r]]
           inserted == CursorsInserted(new)
           shown == Refreshed(inserted, found, new)
<1>1. CursorUpdate(new) /\ cview' = shown
  BY DEF VirtualCursorDataChanged
<1>2. found \in Seq(Cursor) /\ UniqueCursors(found) /\ Grown(cursors, found)
  BY GetCursorRows
<1> HIDE DEF found
<1>3. ASSUME NEW r \in DOMAIN found
      PROVE  new[r] \in Cursor /\ new[r].id = found[r].id
  <2>1. found[r] \in Cursor /\ position \in Positions
    BY <1>2, TargetsAssumption
  <2> QED  BY <2>1 DEF Cursor
<1>4. /\ new \in Seq(Cursor)
      /\ Len(new) = Len(found)
      /\ \A r \in 1 .. Len(found) : new[r].id = found[r].id
  <2>1. DOMAIN found = 1 .. Len(found) /\ DOMAIN new = DOMAIN found
    BY <1>2
  <2>2. new = [r \in 1 .. Len(found) |-> new[r]]
    BY <2>1
  <2> HIDE DEF new
  <2> QED  BY <1>2, <1>3, <2>1, <2>2
<1> HIDE DEF new
<1>5. Len(cursors) <= Len(new) /\ \A r \in 1 .. Len(cursors) : found[r] = cursors[r]
  BY <1>2, <1>4 DEF Grown, CursorInv, CursorShape
<1>6. /\ inserted \in Seq(Cursor)
      /\ Len(inserted) = Len(new)
      /\ \A r \in 1 .. Len(new) :
           inserted[r] = IF r <= Len(cursors) THEN cview[r] ELSE new[r]
  BY <1>4, <1>5, CursorsInsertedRows
<1> HIDE DEF inserted
<1>7. /\ DOMAIN shown = 1 .. Len(new)
      /\ \A r \in 1 .. Len(new) :
           shown[r] = IF new[r] # found[r] THEN new[r] ELSE inserted[r]
  BY <1>4, <1>6 DEF Refreshed
<1>8. AllAlike(cview, cursors)
  BY ShownIsAlike DEF CursorInv, CursorShape, CursorsAreShown
<1>9. shown = [r \in 1 .. Len(new) |-> shown[r]]
  BY <1>7 DEF Refreshed
<1> HIDE DEF shown
<1>10. ASSUME NEW r \in 1 .. Len(new)
       PROVE  shown[r] \in Cursor /\ Alike(shown[r], new[r])
  <2>1. CASE new[r] # found[r] \/ r > Len(cursors)
    <3>1. shown[r] = new[r]
      BY <1>6, <1>7, <2>1 DEF CursorInv, CursorShape
    <3> QED  BY <1>4, <3>1 DEF Alike
  <2>2. CASE new[r] = found[r] /\ r \in 1 .. Len(cursors)
    <3>1. shown[r] = cview[r] /\ new[r] = cursors[r]
      BY <1>5, <1>6, <1>7, <2>2
    <3>2. cview[r] \in Cursor
      BY <1>8, <2>2 DEF AllAlike, CursorInv, CursorShape
    <3> QED  BY <1>8, <2>2, <3>1, <3>2 DEF AllAlike
  <2> QED  BY <1>4, <2>1, <2>2 DEF CursorInv, CursorShape
<1>11. shown \in Seq(Cursor) /\ AllAlike(shown, new)
  BY <1>4, <1>7, <1>9, <1>10 DEF AllAlike
<1> QED  BY <1>1, <1>2, <1>4, <1>11, CursorsKept

LEMMA ButtonStep ==
    ASSUME CursorInv, NEW i \in Remotes, NEW pressed \in BOOLEAN,
           ButtonDataChanged(i, pressed)
    PROVE  CursorInv'
<1> DEFINE found == GetCursor(i)
           new == [r \in DOMAIN found |->
                     IF found[r].id = i THEN [found[r] EXCEPT !.press = pressed]
                                        ELSE found[r]]
           inserted == CursorsInserted(new)
<1>1. CursorUpdate(new) /\ cview' = inserted
  BY DEF ButtonDataChanged
<1>2. found \in Seq(Cursor) /\ UniqueCursors(found) /\ Grown(cursors, found)
  BY GetCursorRows
<1> HIDE DEF found
<1>3. ASSUME NEW r \in DOMAIN found
      PROVE  new[r] \in Cursor /\ Alike(new[r], found[r])
  <2>1. found[r] \in Cursor
    BY <1>2
  <2> QED  BY <2>1 DEF Cursor, Alike
<1>4. new \in Seq(Cursor) /\ Len(new) = Len(found)
  <2>1. DOMAIN found = 1 .. Len(found) /\ DOMAIN new = DOMAIN found
    BY <1>2
  <2>2. new = [r \in 1 .. Len(found) |-> new[r]]
    BY <2>1
  <2> HIDE DEF new
  <2> QED  BY <1>2, <1>3, <2>1, <2>2
<1> HIDE DEF new
<1>5. Len(cursors) <= Len(new) /\ \A r \in 1 .. Len(cursors) : found[r] = cursors[r]
  BY <1>2, <1>4 DEF Grown, CursorInv, CursorShape
<1>6. /\ inserted \in Seq(Cursor)
      /\ Len(inserted) = Len(new)
      /\ \A r \in 1 .. Len(new) :
           inserted[r] = IF r <= Len(cursors) THEN cview[r] ELSE new[r]
  BY <1>4, <1>5, CursorsInsertedRows
<1> HIDE DEF inserted
<1>7. AllAlike(cview, cursors)
  BY ShownIsAlike DEF CursorInv, CursorShape, CursorsAreShown
<1>8. ASSUME NEW r \in 1 .. Len(new)  PROVE Alike(inserted[r], new[r])
  <2>1. CASE r > Len(cursors)
    BY <1>6, <2>1 DEF Alike, CursorInv, CursorShape
  <2>2. CASE r \in 1 .. Len(cursors)
    <3>1. inserted[r] = cview[r] /\ Alike(new[r], cursors[r]) /\ Alike(cview[r], cursors[r])
      BY <1>2, <1>3, <1>4, <1>5, <1>6, <1>7, <2>2 DEF AllAlike
    <3> QED  BY <3>1 DEF Alike
  <2> QED  BY <1>4, <2>1, <2>2 DEF CursorInv, CursorShape
<1>9. AllAlike(inserted, new)
  BY <1>6, <1>8 DEF AllAlike
<1>10. \A r \in 1 .. Len(found) : new[r].id = found[r].id
  BY <1>2, <1>3 DEF Alike
<1> QED  BY <1>1, <1>2, <1>4, <1>6, <1>9, <1>10, CursorsKept

-----------------------------------------------------------------------------
LEMMA InvInit == Init => IInv
<1> SUFFICES ASSUME Init  PROVE IInv
  OBVIOUS
<1>1. PointShape
  <2>1. frame \in [Remotes -> [0 .. 3 -> Positions]]
    BY PositionsAssumption DEF Init
  <2> QED  BY <2>1 DEF Init, PointShape
<1>2. CursorShape
  BY DEF Init, CursorShape
<1>3. /\ points = <<>> /\ DOMAIN points = {} /\ pcount = -1
      /\ cursors = <<>> /\ DOMAIN cursors = {} /\ Len(cview) = 0 /\ Len(cursors) = 0
      /\ ccount = -1
  BY DEF Init
<1>4. \A i \in Remotes : frames[i] = 0
  BY DEF Init
<1>5. UniquePoints(points) /\ UniqueCursors(cursors) /\ PointsAreShown
  BY <1>3 DEF UniquePoints, UniqueCursors, PointsAreShown
<1>6. Counted(pcount, points) /\ Counted(ccount, cursors)
  BY <1>3 DEF Counted
<1>7. PointsKept /\ SignalsAreStored
  BY <1>4 DEF PointsKept, SignalsAreStored
<1>8. CursorsAreShown
  BY <1>3 DEF CursorsAreShown
<1> QED  BY <1>1, <1>2, <1>5, <1>6, <1>7, <1>8 DEF IInv, PointInv, CursorInv

LEMMA InvStep == IInv /\ [Next]_vars => IInv'
<1> SUFFICES ASSUME IInv, [Next]_vars  PROVE IInv'
  OBVIOUS
<1>1. PointInv /\ CursorInv
  BY DEF IInv
<1>2. ASSUME UNCHANGED pointvars  PROVE PointInv'
  BY <1>1, <1>2 DEF pointvars, PointInv, PointShape, UniquePoints, Counted, PointsKept,
                    HasPoint, Matches, SignalsAreStored, PointsAreShown
<1>3. ASSUME UNCHANGED cursorvars  PROVE CursorInv'
  BY <1>1, <1>3 DEF cursorvars, CursorInv, CursorShape, UniqueCursors, Counted,
                    CursorsAreShown
<1>4. ASSUME NEW i \in Remotes, NEW f \in Frames, InfraredDataChanged(i, f)
      PROVE  IInv'
  <2>1. UNCHANGED cursorvars
    BY <1>4 DEF InfraredDataChanged
  <2> QED  BY <1>1, <1>3, <1>4, <2>1, FrameStep DEF IInv
<1>5. ASSUME NEW i \in Remotes, NEW position \in Targets, NEW visible \in BOOLEAN,
             VirtualCursorDataChanged(i, position, visible)
      PROVE  IInv'
  <2>1. UNCHANGED pointvars
    BY <1>5 DEF VirtualCursorDataChanged
  <2> QED  BY <1>1, <1>2, <1>5, <2>1, CursorStep DEF IInv
<1>6. ASSUME NEW i \in Remotes, NEW pressed \in BOOLEAN, ButtonDataChanged(i, pressed)
      PROVE  IInv'
  <2>1. UNCHANGED pointvars
    BY <1>6 DEF ButtonDataChanged
  <2> QED  BY <1>1, <1>2, <1>6, <2>1, ButtonStep DEF IInv
<1>7. CASE UNCHANGED vars
  <2>1. UNCHANGED pointvars /\ UNCHANGED cursorvars
    BY <1>7 DEF vars
  <2> QED  BY <1>2, <1>3, <2>1 DEF IInv
<1> QED  BY <1>4, <1>5, <1>6, <1>7 DEF Next

\* One row for every point and every cursor, and what of them is stored and
\* shown, in every state.
THEOREM Invariance == Spec => []IInv
BY InvInit, InvStep, PTL DEF Spec

\* InfraredModel and VirtualCursorModel never have more rows than the remotes
\* have points and cursors, however many signals come, and their counts follow.
THEOREM TypeCorrect == Spec => []TypeOK
<1>1. IInv => TypeOK
  <2> SUFFICES ASSUME IInv  PROVE TypeOK
    OBVIOUS
  <2> USE DEF IInv, PointInv, PointShape, CursorInv, CursorShape
  <2>1. Len(points) <= 4 * Cardinality(Remotes)
    BY PointsAreCounted
  <2>2. Len(cursors) <= Cardinality(Remotes)
    BY CursorsAreCounted
  <2>3. pcount \in -1 .. Len(points) /\ ccount \in -1 .. Len(cursors)
    BY DEF Counted
  <2> QED  BY <2>1, <2>2, <2>3 DEF TypeOK
<1> QED  BY <1>1, Invariance, PTL

\* The rows hold the last frame of every remote that has sent two: what the
\* pointers into the grown vector have lost of the first is not missing for
\* longer, and no other remote's rows are written.
THEOREM FramesAreStored == Spec => []SignalsAreStored
<1>1. IInv => SignalsAreStored
  BY DEF IInv, PointInv
<1> QED  BY <1>1, Invariance, PTL

\* The delegates of InfraredModel's view show the rows, although new rows are
\* announced one row too early.
THEOREM RowsAreShown == Spec => []PointsAreShown
<1>1. IInv => PointsAreShown
  BY DEF IInv, PointInv
<1> QED  BY <1>1, Invariance, PTL

\* There is one delegate for every cursor, at its position.
THEOREM EveryCursorIsShown == Spec => []CursorsAreShown
<1>1. IInv => CursorsAreShown
  BY DEF IInv, CursorInv
<1> QED  BY <1>1, Invariance, PTL


-----------------------------------------------------------------------------
(* What a row may hold at all.                                             *)

Filled(i, n, f) == [id |-> i, num |-> n, pos |-> f[n], visible |-> f[n] # "lost"]

\* A row holds its remote's last frame, or, while the first one is the only
\* one, what it was made with: never anything else, of this or another remote.
RowsAreTrue ==
    \A r \in DOMAIN points :
        LET i == points[r].id
            n == points[r].num
        IN  /\ frames[i] > 0
            /\ \/ points[r] = Filled(i, n, frame[i])
               \/ frames[i] = 1 /\ points[r].pos = "origin" /\ ~points[r].visible

NewIsFresh(rows, found, i) ==
    \A r \in DOMAIN found \ DOMAIN rows :
        found[r].id = i /\ found[r].pos = "origin" /\ ~found[r].visible

LEMMA GetStateIsFresh ==
    ASSUME NEW rows \in Seq(Point), NEW i \in Remotes, NEW n \in 0 .. 3
    PROVE  NewIsFresh(rows, GetState(rows, i, n), i)
<1> DEFINE row == [id |-> i, num |-> n, pos |-> "origin", visible |-> FALSE]
<1>1. CASE HasPoint(rows, i, n)
  BY <1>1 DEF GetState, HasPoint, NewIsFresh
<1>2. CASE ~ HasPoint(rows, i, n)
  <2>1. GetState(rows, i, n) = Append(rows, row)
    BY <1>2 DEF GetState, HasPoint
  <2>2. row.id = i /\ row.pos = "origin" /\ ~row.visible
    OBVIOUS
  <2> HIDE DEF row
  <2>3. \A r \in DOMAIN Append(rows, row) \ DOMAIN rows : Append(rows, row)[r] = row
    OBVIOUS
  <2> QED  BY <2>1, <2>2, <2>3 DEF NewIsFresh
<1> QED  BY <1>1, <1>2

LEMMA FreshAgain ==
    ASSUME NEW r \in Seq(Point), NEW s \in Seq(Point), NEW t \in Seq(Point), NEW i,
           Grown(s, t), NewIsFresh(r, s, i), NewIsFresh(s, t, i)
    PROVE  NewIsFresh(r, t, i)
<1> SUFFICES ASSUME NEW q \in DOMAIN t \ DOMAIN r
             PROVE  t[q].id = i /\ t[q].pos = "origin" /\ ~t[q].visible
  BY DEF NewIsFresh
<1>1. CASE q \in DOMAIN s
  BY <1>1 DEF Grown, NewIsFresh
<1>2. CASE q \notin DOMAIN s
  BY <1>2 DEF NewIsFresh
<1> QED  BY <1>1, <1>2

LEMMA GetStatesAreFresh ==
    ASSUME NEW rows \in Seq(Point), UniquePoints(rows), NEW i \in Remotes
    PROVE  NewIsFresh(rows, GetStates(rows, i), i)
<1> DEFINE first == GetState(rows, i, 0)
           second == GetState(first, i, 1)
           third == GetState(second, i, 2)
           found == GetState(third, i, 3)
<1>1. /\ first \in Seq(Point) /\ UniquePoints(first)
      /\ NewIsFresh(rows, first, i)
  BY GetStateRows, GetStateIsFresh
<1> HIDE DEF first
<1>2. /\ second \in Seq(Point) /\ UniquePoints(second) /\ Grown(first, second)
      /\ NewIsFresh(first, second, i)
  BY <1>1, GetStateRows, GetStateIsFresh
<1> HIDE DEF second
<1>3. /\ third \in Seq(Point) /\ UniquePoints(third) /\ Grown(second, third)
      /\ NewIsFresh(second, third, i)
  BY <1>2, GetStateRows, GetStateIsFresh
<1> HIDE DEF third
<1>4. /\ found \in Seq(Point) /\ Grown(third, found)
      /\ NewIsFresh(third, found, i)
  BY <1>3, GetStateRows, GetStateIsFresh
<1> HIDE DEF found
<1>5. NewIsFresh(rows, second, i)
  BY <1>1, <1>2, FreshAgain
<1>6. NewIsFresh(rows, third, i)
  BY <1>1, <1>2, <1>3, <1>5, FreshAgain
<1>7. NewIsFresh(rows, found, i)
  BY <1>3, <1>4, <1>6, FreshAgain
<1> QED  BY <1>7 DEF GetStates, found, third, second, first

LEMMA StoredOrKept ==
    ASSUME NEW rows \in Seq(Point), NEW i \in Remotes,
           NEW f \in [0 .. 3 -> Positions], NEW lost \in SUBSET (0 .. 3),
           NEW r \in DOMAIN rows
    PROVE  Stored(rows, i, f, lost)[r] \in {rows[r], Filled(i, rows[r].num, f)}
<1>1. rows[r] \in Point
  OBVIOUS
<1>2. CASE \E n \in (0 .. 3) \ lost : Matches(rows[r], i, n)
  <2>1. rows[r].id = i /\ f[rows[r].num] \in Positions
    BY <1>1, <1>2 DEF Matches, Point
  <2>2. [rows[r] EXCEPT !.pos = f[rows[r].num], !.visible = f[rows[r].num] # "lost"]
          = Filled(i, rows[r].num, f)
    BY <1>1, <2>1, ExceptPoint DEF Filled
  <2> QED  BY <1>2, <2>2 DEF Stored
<1>3. CASE ~ \E n \in (0 .. 3) \ lost : Matches(rows[r], i, n)
  BY <1>3 DEF Stored
<1> QED  BY <1>2, <1>3

LEMMA TrueStep ==
    ASSUME PointInv, RowsAreTrue, NEW i \in Remotes, NEW f \in Frames,
           InfraredDataChanged(i, f)
    PROVE  RowsAreTrue'
<1> USE DEF PointInv, PointShape
<1>1. PICK lost \in Dangling(points, i) :
        points' = Stored(GetStates(points, i), i, f, lost)
  BY DEF InfraredDataChanged
<1> DEFINE found == GetStates(points, i)
           new == Stored(found, i, f, lost)
<1>2. /\ f \in [0 .. 3 -> Positions]
      /\ lost \in SUBSET (0 .. 3)
      /\ found = points => lost = {}
  BY <1>1, FramesAssumption DEF Dangling
<1>3. /\ found \in Seq(Point) /\ Grown(points, found)
      /\ (\A n \in 0 .. 3 : HasPoint(points, i, n)) => found = points
      /\ NewIsFresh(points, found, i)
  BY GetStatesRows, GetStatesAreFresh
<1> HIDE DEF found
<1>4. /\ new \in Seq(Point)
      /\ Len(new) = Len(found)
      /\ HoldsFrame(found, new, i, f, lost)
  BY <1>2, <1>3, StoredRows
<1>5. \A r \in DOMAIN found : new[r] \in {found[r], Filled(i, found[r].num, f)}
  BY <1>2, <1>3, StoredOrKept
<1> HIDE DEF new
<1>6. DOMAIN new = DOMAIN found /\ points' = new
  BY <1>1, <1>3, <1>4 DEF new, found
<1>7. /\ frame' = [frame EXCEPT ![i] = f]
      /\ frames' = [frames EXCEPT ![i] = IF frames[i] + 1 <= 2 THEN frames[i] + 1 ELSE 2]
  <2>1. Min({frames[i] + 1, 2}) = IF frames[i] + 1 <= 2 THEN frames[i] + 1 ELSE 2
    BY MinOfTwo
  <2> QED  BY <2>1 DEF InfraredDataChanged
<1>8. /\ frame'[i] = f /\ frames'[i] > 0
      /\ frames[i] = 0 => frames'[i] = 1
      /\ \A j \in Remotes \ {i} : frame'[j] = frame[j] /\ frames'[j] = frames[j]
  BY <1>7
<1> SUFFICES ASSUME NEW r \in DOMAIN new
             PROVE  /\ frames'[new[r].id] > 0
                    /\ \/ new[r] = Filled(new[r].id, new[r].num, frame'[new[r].id])
                       \/ frames'[new[r].id] = 1 /\ new[r].pos = "origin" /\ ~new[r].visible
  BY <1>6 DEF RowsAreTrue
<1>9. /\ r \in DOMAIN found /\ found[r] \in Point
      /\ new[r].id = found[r].id /\ new[r].num = found[r].num
      /\ found[r].id # i => new[r] = found[r]
  BY <1>3, <1>4, <1>6 DEF HoldsFrame
<1>10. CASE found[r].id # i
  <2>1. r \in DOMAIN points /\ found[r] = points[r] /\ points[r].id \in Remotes
    BY <1>3, <1>9, <1>10 DEF Grown, NewIsFresh, Point
  <2> QED  BY <1>8, <1>9, <1>10, <2>1 DEF RowsAreTrue
<1>11. CASE found[r].id = i /\ frames[i] > 0
  <2>1. found = points /\ lost = {}
    BY <1>2, <1>3, <1>11 DEF PointsKept
  <2>2. Matches(found[r], i, found[r].num) /\ found[r].num \in 0 .. 3
    BY <1>9, <1>11 DEF Matches, Point
  <2>3. new[r] = Filled(i, found[r].num, f)
    BY <1>4, <1>9, <2>1, <2>2 DEF HoldsFrame, Filled
  <2> QED  BY <1>8, <1>9, <1>11, <2>3
<1>12. CASE found[r].id = i /\ frames[i] = 0
  <2>1. r \notin DOMAIN points
    BY <1>3, <1>12 DEF Grown, RowsAreTrue
  <2>2. found[r].pos = "origin" /\ ~found[r].visible
    BY <1>3, <1>9, <2>1 DEF NewIsFresh
  <2>3. new[r] = found[r] \/ new[r] = Filled(i, found[r].num, f)
    BY <1>5, <1>9
  <2> QED  BY <1>8, <1>9, <1>12, <2>2, <2>3
<1> QED  BY <1>10, <1>11, <1>12

\* Whatever a vector that grows loses of a frame, it never puts anything in a
\* row that was not signalled for it.
THEOREM RowsHoldFrames == Spec => []RowsAreTrue
<1>1. Init => RowsAreTrue
  BY DEF Init, RowsAreTrue
<1>2. IInv /\ RowsAreTrue /\ [Next]_vars => RowsAreTrue'
  <2> SUFFICES ASSUME IInv, RowsAreTrue, [Next]_vars  PROVE RowsAreTrue'
    OBVIOUS
  <2>1. CASE UNCHANGED pointvars
    BY <2>1 DEF pointvars, RowsAreTrue
  <2>2. ASSUME NEW i \in Remotes, NEW f \in Frames, InfraredDataChanged(i, f)
        PROVE  RowsAreTrue'
    BY <2>2, TrueStep DEF IInv
  <2> QED
    BY <2>1, <2>2 DEF Next, VirtualCursorDataChanged, ButtonDataChanged, vars
<1> QED  BY <1>1, <1>2, Invariance, PTL DEF Spec
=============================================================================
