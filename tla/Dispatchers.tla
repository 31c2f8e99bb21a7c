---------------------------- MODULE Dispatchers ----------------------------
(***************************************************************************)
(* The tick of WiimotedevCore::process for one id, and the D-Bus adaptors  *)
(* that receive the controller's events.  Every adaptor keeps the set of   *)
(* ids it lists (IContainerProcessor::ids); D-Bus calls and signals are    *)
(* served by the same thread, so clients call list() between ticks.        *)
(* Successive controllers get the same id, as reserve() offers the lowest  *)
(* free one.                                                               *)
(***************************************************************************)
EXTENDS Controller

VARIABLES
    pc,           \* idle, process (the loop of process()), dispatch
    listed        \* the adaptors whose list() contains the id

vars == <<ctrlvars, pc, listed>>

Adaptors == {"balanceboard", "classic", "nunchuk", "procontroller", "wiimote"}

TypeOK ==
    /\ ControllerTypeOK
    /\ pc \in {"idle", "process", "dispatch"}
    /\ listed \subseteq Adaptors

Init ==
    /\ ControllerInit
    /\ pc = "idle"
    /\ listed = {}

\* The adaptor whose process() accepts status events of a device.  The
\* handlers of NunchukDispatcher take their argument by non-const reference,
\* so std::visit never selects them.
StatusAdaptor(d) ==
    CASE d = "balance_board" -> {"balanceboard"}
      [] d = "classic_controller" -> {"classic"}
      [] d = "pro_controller" -> {"procontroller"}
      [] d \in {"wiimote", "motion_plus"} -> {"wiimote"}
      [] OTHER -> {}

\* ids.set(id, v.is_connected)
SetIds(d, on) ==
    listed' = IF on THEN listed \cup StatusAdaptor(d)
                    ELSE listed \ StatusAdaptor(d)

-----------------------------------------------------------------------------
Appear ==
    /\ pc = "idle"
    /\ \E D \in SUBSET Attachable : Construct(D)
    /\ UNCHANGED <<pc, listed>>

Remove ==
    /\ pc = "idle"
    /\ DestroyController
    /\ UNCHANGED <<pc, listed>>

StartProcess ==
    /\ pc = "idle"
    /\ alive
    /\ connected
    /\ pc' = "process"
    /\ UNCHANGED <<ctrlvars, listed>>

ProcessTurn ==
    /\ pc = "process"
    /\ \/ \E d \in Attachable : TakeData(d)
       \/ TakeWatch
       \/ TakeGone
    /\ UNCHANGED <<pc, listed>>

ProcessReturns ==
    /\ pc = "process"
    /\ NothingMore
    /\ pc' = "dispatch"
    /\ UNCHANGED listed

\* for (auto &&event : device->process()) for (adaptor) adaptor->process()
Dispatch ==
    /\ pc = "dispatch"
    /\ ret # <<>>
    /\ ret' = Tail(ret)
    /\ LET ev == Head(ret)
       IN  IF ev.kind = "status" THEN SetIds(ev.dev, ev.on) ELSE UNCHANGED listed
    /\ UNCHANGED <<libvars, alive, connected, table, queue, pc>>

TickEnds ==
    /\ pc = "dispatch"
    /\ ret = <<>>
    /\ pc' = "idle"
    /\ UNCHANGED <<ctrlvars, listed>>

MainThread ==
    Remove \/ StartProcess \/ ProcessTurn \/ ProcessReturns \/ Dispatch \/ TickEnds

Remote ==
    /\ \/ \E d \in Attachable : Attach(d) \/ Detach(d)
       \/ Leave
    /\ UNCHANGED <<pc, listed>>

Next == MainThread \/ Appear \/ Remote

Spec == Init /\ [][Next]_vars

\* The timer keeps firing.  One call of process() takes microseconds, so a
\* remote that is plugged and unplugged all the time cannot keep it in its
\* loop for ever; MaxEvents bounds the data it drains.
FairSpec ==
    /\ Spec
    /\ WF_vars(MainThread)
    /\ SF_vars(ProcessReturns)
=============================================================================
