------------------------------ MODULE Commands ------------------------------
(***************************************************************************)
(* The D-Bus commands of the wiimote adaptor (WiimoteDispatcher,           *)
(* IContainerProcessor::generateEvent, WiimotedevCore::event) on top of    *)
(* the two threads of Core.  A command names an id; the main thread looks  *)
(* for a controller with that id between two ticks, whether it is still    *)
(* valid or not.  The daemon itself remembers the rumble only; the LEDs    *)
(* are kept by the kernel, and their commands find a controller in the     *)
(* same way.                                                               *)
(***************************************************************************)
EXTENDS CoreProperties

VARIABLES
    rumble,       \* XWiimoteController::m_rumbleStatus
    believed      \* history: by id, what a client must hold of the rumble

cmdvars == <<rumble, believed>>

CommandsTypeOK ==
    /\ rumble \in [Controllers -> BOOLEAN]
    /\ believed \in [Indices -> BOOLEAN]

CommandInit ==
    /\ Init
    /\ rumble = [c \in Controllers |-> FALSE]
    /\ believed = [i \in Indices |-> FALSE]

-----------------------------------------------------------------------------
\* for (device : m_devices) if (id == event.id()): the first in the list,
\* whose order follows the addresses of the controllers.
Addressed(i) == {c \in devices : id[c] = i}

\* rumbleStatus(i): value_or(false) without a controller.
Answers(i) ==
    IF Addressed(i) = {} THEN {FALSE} ELSE {rumble[c] : c \in Addressed(i)}

\* A setRumbleStatus that remembers what was asked for, not what was done.
RumbleUnchecked(c, on, ok) == rumble' = [rumble EXCEPT ![c] = on]

\* setRumbleStatus: m_rumbleStatus changes only if the library succeeded.
RumbleIf(c, on, ok) == rumble' = [rumble EXCEPT ![c] = IF ok THEN on ELSE @]

\* setRumbleStatus(i, on) answers ok; an interface whose remote is gone
\* cannot be written to.
SetRumbleStatus(i, on) ==
    /\ cpc = "idle"
    /\ \E c \in Addressed(i) : \E ok \in {FALSE, link[c] = "watched"} :
         /\ RumbleIf(c, on, ok)
         /\ believed' = [believed EXCEPT ![i] = IF ok THEN on ELSE @]
    /\ UNCHANGED vars

\* A step of the daemon: the flag lives and dies with its controller, and
\* clients forget what they knew of an id when they are told that its remote
\* was disconnected.
Proceed ==
    /\ Next
    /\ rumble' = [c \in Controllers |-> c \in Constructed' /\ rumble[c]]
    /\ believed' = [i \in Indices |->
                      believed[i] /\ ~\E c \in devices :
                                        id[c] = i /\ connected[c] /\ ~connected'[c]]

CommandNext ==
    \/ Proceed
    \/ \E i \in Indices, on \in BOOLEAN : SetRumbleStatus(i, on)

CommandSpec == CommandInit /\ [][CommandNext]_<<vars, cmdvars>>

\* Commands may come at any time or never; the threads run as in Core.
FairCommandSpec == CommandSpec /\ Fairness

-----------------------------------------------------------------------------
\* Between ticks rumbleStatus(i) answers what the last successful
\* setRumbleStatus(i, ...) asked of the remote that has the id now, and never
\* what was asked of an earlier remote with the same id; ids are given out
\* again on another thread than the one that serves commands.  Only a remote
\* that clients know to be gone may still answer, until the next tick drops it.
RumbleIsAsAnswered ==
    cpc = "idle" =>
        \A i \in Indices :
            \/ Answers(i) = {believed[i]}
            \/ \E c \in Addressed(i) : ~connected[c] /\ ~believed[i]
=============================================================================
