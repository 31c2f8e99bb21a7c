---------------------------- MODULE VirtualCursor ----------------------------
(***************************************************************************)
(* VirtualCursorDispatcher, fed by the events of one controller: it keeps  *)
(* a cursor processor per id, created on demand and erased when the        *)
(* wiimote is reconfigured or disconnected, and turns every infrared       *)
(* sample into dataChanged and the edges into visibilityChanged.           *)
(* announced and shown are what a client has received last.                *)
(***************************************************************************)
EXTENDS Dispatchers, CursorProcessor

VARIABLES
    exists,       \* m_processors.contains(id)
    announced,    \* the last visibilityChanged of the id
    shown         \* `visible' of its last dataChanged

cursorvars == <<procvars, exists, announced, shown>>
allvars == <<vars, cursorvars>>

CursorTypeOK ==
    /\ TypeOK
    /\ ProcessorTypeOK
    /\ exists \in BOOLEAN
    /\ announced \in BOOLEAN
    /\ shown \in BOOLEAN

CursorInit ==
    /\ Init
    /\ ProcessorInit
    /\ exists = FALSE
    /\ announced = FALSE
    /\ shown = FALSE

\* What one infrared frame can hold: no point to four, in camera order.
\* More than two points are not looked at.
Frames == (UNION {[1 .. n -> 0 .. Pixels] : n \in 0 .. 2})
          \cup {<<0, 0, 0>>, <<0, 0, 0, 0>>}

\* updateStatus: `last' is read before calculate, which does not renew
\* m_previous when the cursor is hidden.
Signals(visible) ==
    /\ shown' = visible
    /\ announced' = IF previous /\ ~visible THEN FALSE
                    ELSE IF ~previous /\ visible THEN TRUE
                    ELSE announced

\* status: connected.
StatusConnected(ev) ==
    /\ ev.kind = "status"
    /\ ev.on
    /\ UNCHANGED cursorvars

\* A handler that hides the cursor and keeps the processor.
HideOnly(ev) ==
    /\ ev.kind = "status"
    /\ ~ev.on
    /\ Signals(FALSE)
    /\ Calculate(<<>>)
    /\ exists' = TRUE

\* status: disconnected.  An empty frame is processed, then erase(id).
StatusDisconnected(ev) ==
    /\ ev.kind = "status"
    /\ ~ev.on
    /\ Signals(FALSE)
    /\ Fresh
    /\ exists' = FALSE

\* reconfigure: erase(id), and no signal.
Reconfigured(ev) ==
    /\ ev.kind = "reconfigure"
    /\ Fresh
    /\ exists' = FALSE
    /\ UNCHANGED <<announced, shown>>

\* accdata and gyro: the processor is created when it is not there.
MotionData(ev) ==
    /\ \/ ev.kind = "data" /\ \E roll \in {0, 180} : InputAcc(roll)
       \/ ev.kind = "gyro" /\ InputGyro
    /\ exists' = TRUE
    /\ UNCHANGED <<announced, shown>>

\* ir_points: updateStatus.
InfraredData(ev) ==
    /\ ev.kind = "data"
    /\ \E ir \in Frames : Signals(Visible(ir)) /\ Calculate(ir)
    /\ exists' = TRUE

\* Keys, and samples that are still being calibrated.
OtherData(ev) ==
    /\ ev.kind \in {"data", "gyro"}
    /\ UNCHANGED cursorvars

CursorProcess(ev) ==
    \/ /\ ev.dev # "wiimote"
       /\ UNCHANGED cursorvars
    \/ /\ ev.dev = "wiimote"
       /\ \/ StatusConnected(ev)
          \/ StatusDisconnected(ev)
          \/ Reconfigured(ev)
          \/ MotionData(ev)
          \/ InfraredData(ev)
          \/ OtherData(ev)

CursorDispatch == Dispatch /\ CursorProcess(Head(ret))

\* The other steps of the tick and of the remote.
Elsewhere ==
    /\ Remove \/ StartProcess \/ ProcessTurn \/ ProcessReturns \/ TickEnds
       \/ Appear \/ Remote
    /\ UNCHANGED cursorvars

CursorNext == CursorDispatch \/ Elsewhere

CursorSpec == CursorInit /\ [][CursorNext]_allvars

-----------------------------------------------------------------------------
\* A remote never inherits what was tracked for the one that had its id
\* before: when a controller is destroyed its id has no processor.  process()
\* of the dispatcher creates one on demand for any sample, and erases it only
\* on statuses of device::wiimote, which process_gone sends for every device.
DestroyedHasNoCursor == ~alive => ~exists

\* The last a client hears of the cursor of a remote that is gone is that it
\* is not visible.
GoneCursorIsHidden == ~alive => ~shown

\* However often the pair is carried on by frames with one point, from a
\* moment long ago and by jumps, it keeps one point in the frame and never
\* gets longer than the frame is wide: the cursor's distance is computed from
\* its length, its centre from both points.
PairFitsFrame ==
    last_points # <<>> =>
        /\ \E i \in {1, 2} : last_points[i] \in 0 .. Pixels
        /\ Span(last_points) <= Pixels

-----------------------------------------------------------------------------
(* What the repository says and the code does not do.                      *)

\* A cursor that clients are shown as visible has been announced as found
\* (CHANGELOG v1.4.1: "Fixed dbusVirtualCursorFound, dbusVirtualCursorLost
\* signal").  calculate() hides a copy of m_previous and leaves m_previous
\* visible, so a cursor that was lost and found again is not announced.
FoundIsAnnounced == shown => announced
=============================================================================
