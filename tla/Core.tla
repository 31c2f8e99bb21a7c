-------------------------------- MODULE Core --------------------------------
(***************************************************************************)
(* The daemon's main thread (WiimotedevCore driven by the 1 ms timer of    *)
(* main.cpp) composed with the scanner thread: the tick that merges new    *)
(* controllers, drops the invalid ones and polls the others; SIGTERM; and  *)
(* the destructors that run when the event loop ends.  The environment     *)
(* plugs and unplugs remotes at any moment.                                *)
(***************************************************************************)
EXTENDS ScannerThread

CONSTANT MonitorValid     \* xwii_monitor_new succeeded

ASSUME MonitorAssumption == MonitorValid \in BOOLEAN

VARIABLES
    plugged,      \* remotes that are physically there
    cpc,          \* where the main thread is
    devices,      \* WiimotedevCore::m_devices
    todo,         \* devices the range-for of process() has yet to reach
    sigterm,      \* main.cpp: interrupted
    quitting      \* application.quit() was called

corevars == <<plugged, cpc, devices, todo, sigterm, quitting>>
vars == <<scanvars, corevars>>

CoreTypeOK ==
    /\ plugged \subseteq Controllers
    /\ cpc \in {"idle", "lock", "merge", "zero", "sweep", "process",
                "destroyDevices", "destroyFound", "join", "exited"}
    /\ devices \subseteq Controllers
    /\ todo \subseteq Controllers
    /\ sigterm \in BOOLEAN
    /\ quitting \in BOOLEAN

TypeOK == ScannerTypeOK /\ CoreTypeOK

Init ==
    /\ ScannerInit
    /\ plugged = {}
    /\ cpc = "idle"
    /\ devices = {}
    /\ todo = {}
    /\ sigterm = FALSE
    /\ quitting = FALSE

Queued == {monitor[i] : i \in 1 .. Len(monitor)}

\* Controllers whose object exists and has its id.
Constructed == found \cup devices \cup leaked \cup UnderConstruction

-----------------------------------------------------------------------------
(* Environment.                                                            *)

\* A remote appears (or is enumerated at start): udev queues its path.
Plug(c) ==
    /\ cpc # "exited"
    /\ c \notin plugged \cup Queued \cup Constructed \cup {sdev}
    /\ plugged' = plugged \cup {c}
    /\ monitor' = Append(monitor, c)
    /\ UNCHANGED <<spc, sdev, sidx, taken, id, link, connected, mutex, found,
                   count, listAlive, leaked, interrupted, cpc, devices, todo,
                   sigterm, quitting>>

\* A remote disappears.  Only an interface that is being watched will
\* report XWII_EVENT_GONE.
Unplug(c) ==
    /\ cpc # "exited"
    /\ c \in plugged
    /\ plugged' = plugged \ {c}
    /\ link' = [link EXCEPT ![c] = IF @ = "watched" THEN "gone" ELSE @]
    /\ UNCHANGED <<monitor, spc, sdev, sidx, taken, id, connected, mutex,
                   found, count, listAlive, leaked, interrupted, cpc, devices,
                   todo, sigterm, quitting>>

Sigterm ==
    /\ ~sigterm
    /\ sigterm' = TRUE
    /\ UNCHANGED <<scanvars, plugged, cpc, devices, todo, quitting>>

-----------------------------------------------------------------------------
(* The timer callback of main.cpp and WiimotedevCore::process.             *)

\* if (interrupted) application.quit(); then merge(): m_count is read
\* before the lock is taken.
Tick ==
    /\ cpc = "idle"
    /\ quitting' = sigterm
    /\ cpc' = IF count = 0 THEN "sweep" ELSE "lock"
    /\ UNCHANGED <<scanvars, plugged, devices, todo, sigterm>>

LockMerge ==
    /\ cpc = "lock"
    /\ mutex = "free"
    /\ mutex' = "core"
    /\ cpc' = "merge"
    /\ UNCHANGED <<monitor, spc, sdev, sidx, taken, id, link, connected, found,
                   count, listAlive, leaked, interrupted, plugged, devices,
                   todo, sigterm, quitting>>

\* A merge that copies the list and leaves it filled.
MergeCopy ==
    /\ cpc = "merge"
    /\ devices' = devices \cup found
    /\ cpc' = "zero"
    /\ UNCHANGED <<monitor, spc, sdev, sidx, taken, id, link, connected, mutex,
                   found, count, listAlive, leaked, interrupted, plugged, todo,
                   sigterm, quitting>>

\* list.merge(m_devices): every element moves, m_devices is left empty.
MergeFound ==
    /\ cpc = "merge"
    /\ devices' = devices \cup found
    /\ found' = {}
    /\ cpc' = "zero"
    /\ UNCHANGED <<monitor, spc, sdev, sidx, taken, id, link, connected, mutex,
                   count, listAlive, leaked, interrupted, plugged, todo,
                   sigterm, quitting>>

\* A merge that unlocks first and clears m_count afterwards.
UnlockThenZero ==
    \/ /\ cpc = "zero"
       /\ mutex = "core"
       /\ mutex' = "free"
       /\ UNCHANGED <<cpc, count>>
       /\ UNCHANGED <<monitor, spc, sdev, sidx, taken, id, link, connected,
                      found, listAlive, leaked, interrupted, plugged, devices,
                      todo, sigterm, quitting>>
    \/ /\ cpc = "zero"
       /\ mutex # "core"
       /\ count' = 0
       /\ cpc' = "sweep"
       /\ UNCHANGED <<monitor, spc, sdev, sidx, taken, id, link, connected,
                      mutex, found, listAlive, leaked, interrupted, plugged,
                      devices, todo, sigterm, quitting>>

\* m_count = 0 and the end of the scope of the lock.
ZeroCount ==
    /\ cpc = "zero"
    /\ count' = 0
    /\ mutex' = "free"
    /\ cpc' = "sweep"
    /\ UNCHANGED <<monitor, spc, sdev, sidx, taken, id, link, connected, found,
                   listAlive, leaked, interrupted, plugged, devices, todo,
                   sigterm, quitting>>

\* m_devices.remove_if(!isValid()), one destructor at a time.
SweepInvalid(c) ==
    /\ cpc = "sweep"
    /\ c \in devices
    /\ ~connected[c]
    /\ Destroy(c)
    /\ devices' = devices \ {c}
    /\ UNCHANGED <<monitor, spc, sdev, sidx, mutex, found, count, listAlive,
                   leaked, interrupted, plugged, cpc, todo, sigterm, quitting>>

SweepDone ==
    /\ cpc = "sweep"
    /\ \A c \in devices : connected[c]
    /\ todo' = devices
    /\ cpc' = "process"
    /\ UNCHANGED <<scanvars, plugged, devices, sigterm, quitting>>

\* A controller that stays valid after XWII_EVENT_GONE.
ProcessIgnoringGone(c) ==
    /\ cpc = "process"
    /\ c \in todo
    /\ todo' = todo \ {c}
    /\ UNCHANGED <<scanvars, plugged, cpc, devices, sigterm, quitting>>

\* XWiimoteController::process drains the library's events; after
\* XWII_EVENT_GONE the controller is no longer valid.
ProcessDevice(c) ==
    /\ cpc = "process"
    /\ c \in todo
    /\ connected' = [connected EXCEPT ![c] = @ /\ link[c] # "gone"]
    /\ todo' = todo \ {c}
    /\ UNCHANGED <<monitor, spc, sdev, sidx, taken, id, link, mutex, found,
                   count, listAlive, leaked, interrupted, plugged, cpc,
                   devices, sigterm, quitting>>

\* The callback returns; after quit() so does exec().
EndTick ==
    /\ cpc = "process"
    /\ todo = {}
    /\ cpc' = IF quitting THEN "destroyDevices" ELSE "idle"
    /\ UNCHANGED <<scanvars, plugged, devices, todo, sigterm, quitting>>

-----------------------------------------------------------------------------
(* ~WiimotedevCore: members go in reverse order, m_devices before          *)
(* m_scanner; in ~WiimoteScannerThread m_devices goes before m_thread is   *)
(* interrupted and joined, and no lock is taken.                           *)

DestroyDevice(c) ==
    /\ cpc = "destroyDevices"
    /\ c \in devices
    /\ Destroy(c)
    /\ devices' = devices \ {c}
    /\ UNCHANGED <<monitor, spc, sdev, sidx, mutex, found, count, listAlive,
                   leaked, interrupted, plugged, cpc, todo, sigterm, quitting>>

\* m_scanner declared after m_devices: the thread is joined first.
ScannerDestroyedFirst ==
    /\ cpc = "destroyDevices"
    /\ cpc' = "destroyFound"
    /\ todo' = found
    /\ interrupted' = TRUE
    /\ UNCHANGED <<monitor, spc, sdev, sidx, taken, id, link, connected, mutex,
                   found, count, listAlive, leaked, plugged, devices, sigterm,
                   quitting>>

DevicesDestroyed ==
    /\ cpc = "destroyDevices"
    /\ devices = {}
    /\ todo' = found
    /\ cpc' = "destroyFound"
    /\ UNCHANGED <<scanvars, plugged, devices, sigterm, quitting>>

\* ~list of the scanner's m_devices walks the nodes it finds there.
DestroyFound(c) ==
    /\ cpc = "destroyFound"
    /\ c \in todo
    /\ Destroy(c)
    /\ found' = found \ {c}
    /\ todo' = todo \ {c}
    /\ UNCHANGED <<monitor, spc, sdev, sidx, mutex, count, listAlive, leaked,
                   interrupted, plugged, cpc, devices, sigterm, quitting>>

\* A destructor that joins the thread without raising the flag first.
FlagNotRaised ==
    /\ cpc = "destroyFound"
    /\ todo = {}
    /\ found' = {}
    /\ leaked' = leaked \cup found
    /\ listAlive' = FALSE
    /\ cpc' = "join"
    /\ UNCHANGED <<monitor, spc, sdev, sidx, taken, id, link, connected, mutex,
                   count, interrupted, plugged, devices, todo, sigterm,
                   quitting>>

\* ~list ends: what scan() has linked behind the walk's back is never
\* destroyed.  Then ~raii_thread raises the flag scan() polls.
FoundDestroyed ==
    /\ cpc = "destroyFound"
    /\ todo = {}
    /\ found' = {}
    /\ leaked' = leaked \cup found
    /\ listAlive' = FALSE
    /\ interrupted' = TRUE
    /\ cpc' = "join"
    /\ UNCHANGED <<monitor, spc, sdev, sidx, taken, id, link, connected, mutex,
                   count, plugged, devices, todo, sigterm, quitting>>

Join ==
    /\ cpc = "join"
    /\ spc = "ended"
    /\ cpc' = "exited"
    /\ UNCHANGED <<scanvars, plugged, devices, todo, sigterm, quitting>>

-----------------------------------------------------------------------------
Scanner ==
    /\ \/ Interrupted
       \/ MonitorValid /\ Dequeue
       \/ SkipTaken
       \/ TakeFree
       \/ NoneFree
       \/ OpenInterface(sdev \in plugged)
       \/ WatchEvents
       \/ LockFound
       \/ PushFound
       \/ CountFound
    /\ UNCHANGED corevars

MainThread ==
    \/ Tick
    \/ LockMerge
    \/ MergeFound
    \/ ZeroCount
    \/ \E c \in Controllers : SweepInvalid(c)
    \/ SweepDone
    \/ \E c \in Controllers : ProcessDevice(c)
    \/ EndTick
    \/ \E c \in Controllers : DestroyDevice(c)
    \/ DevicesDestroyed
    \/ \E c \in Controllers : DestroyFound(c)
    \/ FoundDestroyed
    \/ Join

Environment ==
    \/ \E c \in Controllers : Plug(c)
    \/ \E c \in Controllers : Unplug(c)
    \/ Sigterm

\* The process is gone; nothing is left to happen.
Exited == cpc = "exited" /\ UNCHANGED vars

Next == Scanner \/ MainThread \/ Environment \/ Exited

Spec == Init /\ [][Next]_vars

\* Both threads are scheduled.  scan() sleeps 250 ms between two holds of
\* the mutex, so a main thread that waits for it does get it.
Fairness ==
    /\ WF_vars(Scanner)
    /\ WF_vars(MainThread)
    /\ SF_vars(LockMerge)
=============================================================================
