------------------------ MODULE DispatcherProperties ------------------------
(***************************************************************************)
(* What D-Bus clients may rely on in the events of one id.                 *)
(***************************************************************************)
EXTENDS Dispatchers

\* Devices with a listing of their own that is not disturbed by another
\* device's events.
Separate == {"balance_board", "classic_controller", "pro_controller"}

\* When a tick ends, whatever the controller's table says is connected is in
\* the adaptor's list() and no status waits: the queue is filled after it was
\* drained, and still nothing is lost between the table, the queue and the
\* batch, also across partial opens and several WATCH events in one batch.
TickDeliversTable ==
    pc = "dispatch" /\ ret = <<>> =>
        /\ queue = <<>>
        /\ \A d \in table \cap Separate : StatusAdaptor(d) \subseteq listed

\* Clients are told of a device before they get its data: process() drains
\* the queue of statuses before it takes the next event of the library.
DataFollowsConnection ==
    pc = "dispatch" /\ ret # <<>> =>
        LET ev == Head(ret)
        IN  ev.kind = "data" /\ ev.dev \in Separate
                => StatusAdaptor(ev.dev) \subseteq listed

\* When the controller object is destroyed and its id may be given to the
\* next remote, the wiimote adaptor no longer lists the id: XWII_EVENT_GONE
\* reaches it in the tick before remove_if sees the invalid controller.
DestroyedIsNotAWiimote == ~alive => "wiimote" \notin listed

\* An extension that was attached and stays is listed in the end, however
\* often others come and go meanwhile.
AttachedIsListed ==
    \A d \in Attachable \cap Separate :
        (alive /\ connected /\ d \in hw)
            ~> (d \notin hw \/ StatusAdaptor(d) \subseteq listed)

\* A remote that left is dropped by the core.
LeftIsDropped == (alive /\ ~present) ~> ~alive

-----------------------------------------------------------------------------
(* What the repository says and the code does not do.                      *)

\* No adaptor lists the id of a remote that is gone: process_gone logs
\* "report <device>: disconnected" for every connected device
\* (xwiimote-controller.cpp:402), but emits device::wiimote each time.
GoneIsListedNowhere == ~alive => listed = {}

\* A nunchuk that was connected with the remote is reported (CHANGELOG
\* v1.4.2: "fixed bug that don't report nunchuk/classic signals when wiiremote
\* is connected with equiped nunchuk/classic extension").
ConnectedNunchukIsListed ==
    pc = "dispatch" /\ ret = <<>> /\ "nunchuk" \in table => "nunchuk" \in listed
=============================================================================
