----------------------------- MODULE Controller -----------------------------
(***************************************************************************)
(* XWiimoteController: one remote with its extensions, as the daemon's     *)
(* main thread sees it through libxwiimote.  The controller keeps a table  *)
(* of the devices (core, extensions) it has reported as connected, queues  *)
(* a status event for every difference, and hands all events of a tick to  *)
(* the core in one batch.                                                  *)
(*                                                                         *)
(* The library is external and modelled by what the code relies on:        *)
(* xwii_iface_available is renewed by xwii_iface_dispatch only, which      *)
(* reports the change as XWII_EVENT_WATCH; it may or may not have closed   *)
(* an interface that vanished by then; opening may fail for any interface; *)
(* after XWII_EVENT_GONE nothing more comes.  Data (keys, sticks, sensors) *)
(* is one kind of event per device.  A device stands for all nodes of it:  *)
(* the wiimote for its keys, accelerometer and camera, which the kernel    *)
(* driver adds and removes together.                                       *)
(***************************************************************************)
EXTENDS Naturals, Sequences

CONSTANTS Attachable,     \* devices that remotes of this run can have
          MaxEvents,      \* bound: data events of one process() call
          MaxWatches      \* bound: XWII_EVENT_WATCH events of one call

Devices == {"balance_board", "classic_controller", "motion_plus",
            "nunchuk", "pro_controller", "wiimote"}

ASSUME AttachableAssumption == Attachable \subseteq Devices
ASSUME BoundsAssumption == MaxEvents \in Nat /\ MaxWatches \in Nat

VARIABLES
    present,      \* the remote is there
    hw,           \* the devices the remote has at the moment
    watchPending, \* libxwiimote has a node change to report
    goneSent,     \* libxwiimote has reported XWII_EVENT_GONE
    opened,       \* xwii_iface_opened(m_interface)
    alive,        \* the controller object exists
    connected,    \* m_connected
    table,        \* lastExtensionTable, equal to currentExtensionTable
    queue,        \* queue: status events not yet returned
    ret           \* process(): events, then what the core has left of them

libvars == <<present, hw, watchPending, goneSent, opened>>
objvars == <<alive, connected, table, queue, ret>>
ctrlvars == <<libvars, objvars>>

Event == [dev : Devices, kind : {"status"}, on : BOOLEAN]
         \cup [dev : Devices, kind : {"data", "gyro", "reconfigure"}]

Status(d, v) == [dev |-> d, kind |-> "status", on |-> v]
\* The gyroscope of a MotionPlus is reported under device::wiimote.
Data(d) ==
    IF d = "motion_plus" THEN [dev |-> "wiimote", kind |-> "gyro"]
                         ELSE [dev |-> d, kind |-> "data"]
Reconfigure == [dev |-> "wiimote", kind |-> "reconfigure"]

ControllerTypeOK ==
    /\ present \in BOOLEAN
    /\ hw \subseteq Attachable
    /\ watchPending \in BOOLEAN
    /\ goneSent \in BOOLEAN
    /\ opened \subseteq Attachable
    /\ alive \in BOOLEAN
    /\ connected \in BOOLEAN
    /\ table \subseteq Attachable
    /\ queue \in Seq(Event)
    /\ ret \in Seq(Event)

ControllerInit ==
    /\ present = FALSE
    /\ hw = {}
    /\ watchPending = FALSE
    /\ goneSent = FALSE
    /\ opened = {}
    /\ alive = FALSE
    /\ connected = FALSE
    /\ table = {}
    /\ queue = <<>>
    /\ ret = <<>>

-----------------------------------------------------------------------------
(* The remote.                                                             *)

\* How many events of these kinds process() has collected.
Collected(kinds) == Len(SelectSeq(ret, LAMBDA e : e.kind \in kinds))

Attach(d) ==
    /\ present
    /\ Collected({"reconfigure"}) < MaxWatches
    /\ d \notin hw
    /\ hw' = hw \cup {d}
    /\ watchPending' = TRUE
    /\ UNCHANGED <<present, goneSent, opened, objvars>>

Detach(d) ==
    /\ present
    /\ Collected({"reconfigure"}) < MaxWatches
    /\ d \in hw
    /\ hw' = hw \ {d}
    /\ watchPending' = TRUE
    /\ UNCHANGED <<present, goneSent, opened, objvars>>

Leave ==
    /\ present
    /\ alive
    /\ present' = FALSE
    /\ hw' = {}
    /\ watchPending' = TRUE
    /\ UNCHANGED <<goneSent, opened, objvars>>

-----------------------------------------------------------------------------
\* One device of the loop over all: it counts if its entry differs.
Entry(d, from, to) == IF (d \in from) = (d \in to) THEN <<>> ELSE <<d>>

\* The devices whose entry differs, in the order of the enumeration.
Changed(from, to) ==
    Entry("balance_board", from, to) \o Entry("classic_controller", from, to)
    \o Entry("motion_plus", from, to) \o Entry("nunchuk", from, to)
    \o Entry("pro_controller", from, to) \o Entry("wiimote", from, to)

StatusChanges(from, to) ==
    LET s == Changed(from, to)
    IN  [i \in DOMAIN s |-> Status(s[i], s[i] \in to)]

\* Only what could be opened is reported, although the table keeps what is
\* available.
ReportOpenedOnly(flags, open) ==
    IF open = flags
    THEN /\ opened' = open
         /\ queue' = <<>>
         /\ UNCHANGED table
    ELSE /\ opened' \in SUBSET flags
         /\ queue' = StatusChanges(table, opened')
         /\ table' = flags

\* reconfigureXWiimoteInterface with `flags' available and `open' opened:
\* nothing to do when they agree; otherwise everything is closed, the
\* session opened again (its retries cannot succeed) and the table renewed.
ReconfigureInterface(flags, open) ==
    IF open = flags
    THEN /\ opened' = open
         /\ queue' = <<>>
         /\ UNCHANGED table
    ELSE /\ opened' \in SUBSET flags
         /\ queue' = StatusChanges(table, flags)
         /\ table' = flags

\* A remote with the devices D appears and the scanner constructs its
\* controller; open and watch succeed or not.
Construct(D) ==
    /\ ~alive
    /\ ~present
    /\ present' = TRUE
    /\ hw' = D
    /\ watchPending' = FALSE
    /\ goneSent' = FALSE
    /\ alive' = TRUE
    /\ ret' = <<>>
    /\ \E ok \in BOOLEAN :
         /\ connected' = ok
         /\ IF ok
            THEN ReconfigureInterface(D, {})
            ELSE opened' = {} /\ table' = {} /\ queue' = <<>>

\* ~XWiimoteController.  A remote that never was watched is simply dropped.
DestroyController ==
    /\ alive
    /\ ~connected
    /\ alive' = FALSE
    /\ present' = FALSE
    /\ hw' = {}
    /\ watchPending' = FALSE
    /\ goneSent' = FALSE
    /\ opened' = {}
    /\ table' = {}
    /\ queue' = <<>>
    /\ UNCHANGED <<connected, ret>>

-----------------------------------------------------------------------------
(* One turn of the loop of process(): the queue is drained, one library    *)
(* event is taken, and what it produces is appended.                       *)

Drained == ret \o queue

\* A loop that drains the queue after the event it has just taken.
DataBeforeDrain(d) ==
    /\ d \in opened
    /\ ~goneSent
    /\ Collected({"data", "gyro"}) < MaxEvents
    /\ ret' = ret \o <<Data(d)>> \o queue
    /\ queue' = <<>>
    /\ UNCHANGED <<libvars, alive, connected, table>>

\* Keys, sticks and sensors of an open interface.
TakeData(d) ==
    /\ d \in opened
    /\ ~goneSent
    /\ Collected({"data", "gyro"}) < MaxEvents
    /\ ret' = Append(Drained, Data(d))
    /\ queue' = <<>>
    /\ UNCHANGED <<libvars, alive, connected, table>>

\* XWII_EVENT_WATCH, process_watch: the statuses it queues come after the
\* reconfigure event, in the next turn.
TakeWatch ==
    /\ watchPending
    /\ ~goneSent
    /\ watchPending' = FALSE
    /\ \E open \in {opened, opened \cap hw} : ReconfigureInterface(hw, open)
    /\ ret' = Append(Drained, Reconfigure)
    /\ UNCHANGED <<present, hw, goneSent, alive, connected>>

\* process_gone that leaves the clients to find out.
GoneSilently ==
    /\ ~present
    /\ ~goneSent
    /\ goneSent' = TRUE
    /\ ret' = Drained
    /\ queue' = <<>>
    /\ table' = {}
    /\ connected' = FALSE
    /\ UNCHANGED <<present, hw, watchPending, opened, alive>>

\* process_gone that leaves m_connected set.
GoneStaysValid ==
    /\ ~present
    /\ ~goneSent
    /\ goneSent' = TRUE
    /\ ret' = LET s == Changed(table, {})
              IN  Drained \o [i \in DOMAIN s |-> Status("wiimote", FALSE)]
    /\ queue' = <<>>
    /\ table' = {}
    /\ UNCHANGED <<present, hw, watchPending, opened, alive, connected>>

\* XWII_EVENT_GONE, process_gone: one event for every device of the table,
\* each of them a status of device::wiimote.
TakeGone ==
    /\ ~present
    /\ ~goneSent
    /\ goneSent' = TRUE
    /\ ret' = LET s == Changed(table, {})
              IN  Drained \o [i \in DOMAIN s |-> Status("wiimote", FALSE)]
    /\ queue' = <<>>
    /\ table' = {}
    /\ connected' = FALSE
    /\ UNCHANGED <<present, hw, watchPending, opened, alive>>

\* The loop ends before the queue is drained a last time.
EndUndrained ==
    /\ goneSent \/ (present /\ ~watchPending)
    /\ UNCHANGED <<libvars, objvars>>

\* xwii_iface_dispatch has nothing more: the loop ends.
NothingMore ==
    /\ goneSent \/ (present /\ ~watchPending)
    /\ ret' = Drained
    /\ queue' = <<>>
    /\ UNCHANGED <<libvars, alive, connected, table>>
=============================================================================
