----------------------------- MODULE ListModels -----------------------------
(***************************************************************************)
(* The two list models of the infrared viewer (tools/ir): InfraredModel    *)
(* with four rows for every remote it has heard of, VirtualCursorModel     *)
(* with one.  Both append rows, announce them afterwards with              *)
(* beginInsertRows .. endInsertRows, and announce a changed row with       *)
(* dataChanged.  The D-Bus signals of the daemon come in any order and     *)
(* from any remote.                                                        *)
(*                                                                         *)
(* The view is Qt's and modelled by what the models rely on: it keeps one  *)
(* delegate per row that was announced, which reads its row when it is     *)
(* inserted and when dataChanged names it, and moves along when rows are   *)
(* inserted before it.  Rows are never removed (rows < m_count is dead     *)
(* code).  Positions are "lost" (1023, 1023) or another member of          *)
(* Positions; a new row is at "origin" and invisible.                      *)
(***************************************************************************)
EXTENDS Integers, Sequences, FiniteSets, FiniteSetsExt

CONSTANTS Remotes,      \* the ids of the remotes
          Positions,    \* where a point can be reported, "lost" included
          Frames,       \* the quadruples of positions of this run
          Targets       \* where the cursors of this run are reported

ASSUME RemotesAssumption == IsFiniteSet(Remotes)
ASSUME PositionsAssumption == {"lost", "origin"} \subseteq Positions
ASSUME FramesAssumption == Frames \subseteq [0 .. 3 -> Positions]
ASSUME TargetsAssumption == Targets \subseteq Positions

VARIABLES
    points,       \* InfraredModel::m_points
    pcount,       \* InfraredModel::m_count
    pview,        \* the delegates of its view
    frame,        \* history: by remote, the last frame signalled, if any
    frames,       \* history: by remote, how many frames, up to two
    cursors,      \* VirtualCursorModel::m_virtual_cursor_state
    ccount,       \* VirtualCursorModel::m_count
    cview         \* the delegates of its view

pointvars == <<points, pcount, pview, frame, frames>>
cursorvars == <<cursors, ccount, cview>>
vars == <<pointvars, cursorvars>>

Point == [id : Remotes, num : 0 .. 3, pos : Positions, visible : BOOLEAN]
Cursor == [id : Remotes, pos : Positions, visible : BOOLEAN, press : BOOLEAN]

Init ==
    /\ points = <<>>
    /\ pcount = -1
    /\ pview = <<>>
    /\ frame = [i \in Remotes |-> [n \in 0 .. 3 |-> "origin"]]
    /\ frames = [i \in Remotes |-> 0]
    /\ cursors = <<>>
    /\ ccount = -1
    /\ cview = <<>>

\* beginInsertRows(first, Len(rows) - 1), rows counted from 0: delegates
\* from `first' on make room for new ones, which read their rows.
Inserted(view, first, rows) ==
    SubSeq(view, 1, first) \o SubSeq(rows, first + 1, Len(rows))
        \o SubSeq(view, first + 1, Len(view))

-----------------------------------------------------------------------------
(* InfraredModel.                                                          *)

\* A search that looks at the number of the point only.
MatchesNumber(row, i, n) == row.num = n

Matches(row, i, n) == row.id = i /\ row.num = n

\* A getState that never finds what is there.
AlwaysAppend(rows, i, n) ==
    Append(rows, [id |-> i, num |-> n, pos |-> "origin", visible |-> FALSE])

\* getState: the row, appended if it is not there.
GetState(rows, i, n) ==
    IF \E r \in DOMAIN rows : Matches(rows[r], i, n) THEN rows
    ELSE Append(rows, [id |-> i, num |-> n, pos |-> "origin", visible |-> FALSE])

\* The four points of a remote, one after another.
GetStates(rows, i) ==
    LET first == GetState(rows, i, 0)
        second == GetState(first, i, 1)
        third == GetState(second, i, 2)
    IN  GetState(third, i, 3)

\* The numbers of the points whose pointer may be used after the vector has
\* moved its elements to make room for a later point; what is written there
\* is lost.  The standard leaves open which appends move them, so any first
\* ones may be affected; none is when nothing was appended.
Dangling(rows, i) ==
    IF GetStates(rows, i) = rows THEN {{}} ELSE {{}, {0}, {0, 1}, {0, 1, 2}}

Stored(rows, i, f, lost) ==
    [r \in DOMAIN rows |->
        IF \E n \in (0 .. 3) \ lost : Matches(rows[r], i, n)
        THEN [rows[r] EXCEPT !.pos = f[rows[r].num],
                             !.visible = f[rows[r].num] # "lost"]
        ELSE rows[r]]

\* update(): the first new row is taken to be m_count - 1.
FirstPointRow == Max({pcount - 1, 0})

\* An infraredDataChanged without dataChanged.
RefreshNothing(view, old, new) == view

\* dataChanged for every row that differs from its copy.  Rows whose pointer
\* dangles may be announced too; they are new and have just been read.
Refreshed(view, old, new) ==
    [r \in DOMAIN view |->
        IF r \in DOMAIN new /\ new[r] # old[r] THEN new[r] ELSE view[r]]

InfraredDataChanged(i, f) ==
    /\ \E lost \in Dangling(points, i) :
         LET found == GetStates(points, i)
             new == Stored(found, i, f, lost)
             view == IF Len(new) > pcount THEN Inserted(pview, FirstPointRow, new)
                                          ELSE pview
         IN  /\ points' = new
             /\ pcount' = Len(new)
             /\ pview' = Refreshed(view, found, new)
    /\ frame' = [frame EXCEPT ![i] = f]
    /\ frames' = [frames EXCEPT ![i] = Min({@ + 1, 2})]
    /\ UNCHANGED cursorvars

-----------------------------------------------------------------------------
(* VirtualCursorModel.                                                     *)

GetCursor(i) ==
    IF \E r \in DOMAIN cursors : cursors[r].id = i THEN cursors
    ELSE Append(cursors,
                [id |-> i, pos |-> "origin", visible |-> FALSE, press |-> FALSE])

\* The same slip as in InfraredModel.
FirstRowTooEarly == Max({ccount - 1, 0})

FirstCursorRow == Max({ccount, 0})

\* update(id)
CursorUpdate(new) ==
    /\ cursors' = new
    /\ ccount' = Len(new)

CursorsInserted(new) ==
    IF Len(new) > ccount THEN Inserted(cview, FirstCursorRow, new) ELSE cview

VirtualCursorDataChanged(i, position, visible) ==
    /\ LET found == GetCursor(i)
           new == [r \in DOMAIN found |->
                     IF found[r].id = i
                     THEN [found[r] EXCEPT !.pos = position, !.visible = visible]
                     ELSE found[r]]
       IN  /\ CursorUpdate(new)
           /\ cview' = Refreshed(CursorsInserted(new), found, new)
    /\ UNCHANGED pointvars

\* buttonDataChanged: no dataChanged; `pressed' is A and B together.
ButtonDataChanged(i, pressed) ==
    /\ LET found == GetCursor(i)
           new == [r \in DOMAIN found |->
                     IF found[r].id = i THEN [found[r] EXCEPT !.press = pressed]
                                        ELSE found[r]]
       IN  /\ CursorUpdate(new)
           /\ cview' = CursorsInserted(new)
    /\ UNCHANGED pointvars

Next ==
    \E i \in Remotes :
        \/ \E f \in Frames : InfraredDataChanged(i, f)
        \/ \E position \in Targets, visible \in BOOLEAN :
              VirtualCursorDataChanged(i, position, visible)
        \/ \E pressed \in BOOLEAN : ButtonDataChanged(i, pressed)

Spec == Init /\ [][Next]_vars

-----------------------------------------------------------------------------
\* Rows are well formed, and there are never more of them than remotes have
\* points, however many signals come.
TypeOK ==
    /\ points \in Seq(Point)
    /\ Len(points) <= 4 * Cardinality(Remotes)
    /\ pcount \in -1 .. Len(points)
    /\ pview \in Seq(Point)
    /\ frame \in [Remotes -> [0 .. 3 -> Positions]]
    /\ frames \in [Remotes -> 0 .. 2]
    /\ cursors \in Seq(Cursor)
    /\ Len(cursors) <= Cardinality(Remotes)
    /\ ccount \in -1 .. Len(cursors)
    /\ cview \in Seq(Cursor)

\* From a remote's second frame on the model holds its last frame, and only
\* that one: the first frame is written in part through pointers into a
\* vector that has grown since, and this must not outlast the next signal or
\* reach the rows of another remote.
SignalsAreStored ==
    \A i \in Remotes : frames[i] = 2 =>
        \A n \in 0 .. 3 : \E r \in DOMAIN points :
            points[r] = [id |-> i, num |-> n, pos |-> frame[i][n],
                         visible |-> frame[i][n] # "lost"]

\* The delegate of every row shows what the row holds: InfraredModel announces
\* new rows one row too early, and the row it announces twice must not leave a
\* stale delegate in front of the others.
PointsAreShown ==
    \A r \in DOMAIN points : r \in DOMAIN pview /\ pview[r] = points[r]

\* The view of the cursors has as many delegates as there are remotes, each at
\* its remote's position.  Whether it is pressed is shown late, as
\* buttonDataChanged announces nothing.
CursorsAreShown ==
    /\ Len(cview) = Len(cursors)
    /\ \A r \in DOMAIN cursors :
         cview[r] = [cursors[r] EXCEPT !.press = cview[r].press]
=============================================================================
