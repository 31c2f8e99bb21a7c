--------------------------- MODULE ScannerThread ---------------------------
(***************************************************************************)
(* The daemon's scanner thread (WiimoteScannerThread::scan), what it calls *)
(* in program order (WiimoteScanner::process, XWiimoteManager::connect,    *)
(* the constructor of XWiimoteController, WiimoteIdManager::reserve) and   *)
(* the state it shares with the main thread: the id tables, the list of    *)
(* new controllers with its mutex, and the atomic m_count.                 *)
(*                                                                         *)
(* A member of Controllers is one connection of one remote, from the udev  *)
(* event to the destruction of its controller object; it may be used again *)
(* once the object is gone.  The 250 ms, 200 ms and 30 ms sleeps are       *)
(* stuttering.  The id tables are modelled as the sets of indices that are *)
(* marked; only indices 1 .. Size - 1 are ever offered.                    *)
(***************************************************************************)
EXTENDS Naturals, Sequences, FiniteSets

CONSTANTS Controllers,    \* connections of remotes
          NoController,   \* the null unique_ptr
          Size,           \* size of a UniqueId table (128 in the code)
          PlugKinds       \* what type() may report of a connected remote

Kinds == {"wiimote", "balance_board", "pro_controller"}

ASSUME SizeAssumption == Size \in Nat \ {0}
ASSUME NoControllerAssumption == NoController \notin Controllers
ASSUME KindsAssumption == PlugKinds \subseteq Kinds

VARIABLES
    monitor,      \* udev: paths xwii_monitor_poll has yet to return
    spc,          \* where the scanner thread is
    sdev,         \* the controller under construction in the scanner thread
    sidx,         \* UniqueId::reserve: index, 1 outside a call
    taken,        \* UniqueId::m_table of every device type, as marked indices
    id,           \* IWiimote::m_id
    link,         \* m_interface: closed (nullptr), open, watched, gone
    connected,    \* XWiimoteController::m_connected
    mutex,        \* WiimoteScannerThread::m_mutex: who holds it
    found,        \* WiimoteScannerThread::m_devices
    count,        \* WiimoteScannerThread::m_count
    listAlive,    \* m_devices of the scanner has not been destroyed
    leaked,       \* controllers pushed into the destroyed list
    interrupted   \* the flag raii_thread hands to scan()

scanvars == <<monitor, spc, sdev, sidx, taken, id, link, connected, mutex,
              found, count, listAlive, leaked, interrupted>>

Indices == 1 .. Size - 1
Ids == 0 .. Size - 1

ScannerTypeOK ==
    /\ monitor \in Seq(Controllers)
    /\ spc \in {"loop", "reserve", "open", "watch", "led", "push", "count", "ended"}
    /\ sdev \in Controllers \cup {NoController}
    /\ sidx \in 1 .. Size
    /\ taken \in [Kinds -> SUBSET Indices]
    /\ id \in [Controllers -> Ids]
    /\ link \in [Controllers -> {"closed", "open", "watched", "gone"}]
    /\ connected \in [Controllers -> BOOLEAN]
    /\ mutex \in {"free", "scanner", "core"}
    /\ found \subseteq Controllers
    /\ count \in Nat
    /\ listAlive \in BOOLEAN
    /\ leaked \subseteq Controllers
    /\ interrupted \in BOOLEAN

ScannerInit ==
    /\ monitor = <<>>
    /\ spc = "loop"
    /\ sdev = NoController
    /\ sidx = 1
    /\ taken = [k \in Kinds |-> {}]
    /\ id = [c \in Controllers |-> 0]
    /\ link = [c \in Controllers |-> "closed"]
    /\ connected = [c \in Controllers |-> FALSE]
    /\ mutex = "free"
    /\ found = {}
    /\ count = 0
    /\ listAlive = TRUE
    /\ leaked = {}
    /\ interrupted = FALSE

\* The controller the scanner thread owns and that already has its id.
UnderConstruction ==
    IF sdev # NoController /\ spc # "reserve" THEN {sdev} ELSE {}

-----------------------------------------------------------------------------
(* UniqueId and WiimoteIdManager.  XWiimoteController reserves its id      *)
(* before m_interface is opened, when type() can only answer wiimote.      *)

\* A slip of the lock: the mark is not set.
MarkForgotten(i) == UNCHANGED taken

Mark(i) == taken' = [taken EXCEPT !["wiimote"] = @ \cup {i}]

\* The table entry a destructor clears: type() asks the library again.
ReleaseKinds(c) ==
    IF link[c] = "closed" THEN {"wiimote"} ELSE {"wiimote"} \cup PlugKinds

\* A destructor that clears the entry after the one it holds.
ReleaseNext(c) == \E k \in ReleaseKinds(c) :
    taken' = [taken EXCEPT ![k] = @ \ {id[c] + 1}]

\* A destructor that returns early when the interface never opened.
ReleaseIfOpened(c) == \E k \in ReleaseKinds(c) :
    taken' = [taken EXCEPT ![k] = IF link[c] = "closed" THEN @ ELSE @ \ {id[c]}]

Release(c) == \E k \in ReleaseKinds(c) :
    taken' = [taken EXCEPT ![k] = @ \ {id[c]}]

\* ~XWiimoteController: the id goes back, the object ceases to exist.
Destroy(c) ==
    /\ Release(c)
    /\ id' = [id EXCEPT ![c] = 0]
    /\ link' = [link EXCEPT ![c] = "closed"]
    /\ connected' = [connected EXCEPT ![c] = FALSE]

-----------------------------------------------------------------------------
(* One iteration of scan().                                                *)

\* while (!interrupted): the WiimoteScanner, its manager and the id tables
\* are destroyed when the loop ends.
Interrupted ==
    /\ spc = "loop"
    /\ interrupted
    /\ spc' = "ended"
    /\ UNCHANGED <<monitor, sdev, sidx, taken, id, link, connected, mutex,
                   found, count, listAlive, leaked, interrupted>>

\* XWiimoteManager::connect: a path is there; without one the loop sleeps.
Dequeue ==
    /\ spc = "loop"
    /\ ~interrupted
    /\ monitor # <<>>
    /\ sdev' = Head(monitor)
    /\ monitor' = Tail(monitor)
    /\ spc' = "reserve"
    /\ UNCHANGED <<sidx, taken, id, link, connected, mutex, found, count, listAlive,
                   leaked, interrupted>>

\* UniqueId::reserve: while (size > index && m_table[index]) ++index.
SkipTaken ==
    /\ spc = "reserve"
    /\ sidx < Size
    /\ sidx \in taken["wiimote"]
    /\ sidx' = sidx + 1
    /\ UNCHANGED <<monitor, spc, sdev, taken, id, link, connected, mutex,
                   found, count, listAlive, leaked, interrupted>>

TakeFree ==
    /\ spc = "reserve"
    /\ sidx < Size
    /\ sidx \notin taken["wiimote"]
    /\ Mark(sidx)
    /\ id' = [id EXCEPT ![sdev] = sidx]
    /\ sidx' = 1
    /\ spc' = "open"
    /\ UNCHANGED <<monitor, sdev, link, connected, mutex, found, count,
                   listAlive, leaked, interrupted>>

\* A loop bound that never offers the last index.
NoneFreeBeforeLast ==
    /\ spc = "reserve"
    /\ sidx = Size - 1
    /\ id' = [id EXCEPT ![sdev] = 0]
    /\ sidx' = 1
    /\ spc' = "open"
    /\ UNCHANGED <<monitor, sdev, taken, link, connected, mutex, found,
                   count, listAlive, leaked, interrupted>>

NoneFree ==
    /\ spc = "reserve"
    /\ sidx = Size
    /\ id' = [id EXCEPT ![sdev] = 0]
    /\ sidx' = 1
    /\ spc' = "open"
    /\ UNCHANGED <<monitor, sdev, taken, link, connected, mutex, found,
                   count, listAlive, leaked, interrupted>>

\* openXWiimoteInterface.  It returns true even when xwii_iface_new failed
\* (the helper tests its parameter); m_interface then stays nullptr.
OpenInterface(present) ==
    /\ spc = "open"
    /\ \E ok \in {FALSE, present} :
         link' = [link EXCEPT ![sdev] = IF ok THEN "open" ELSE "closed"]
    /\ spc' = "watch"
    /\ UNCHANGED <<monitor, sdev, sidx, taken, id, connected, mutex, found,
                   count, listAlive, leaked, interrupted>>

\* watchXWiimoteEvents, which fails on nullptr, and then
\* reconfigureXWiimoteInterface, whose failure branch cannot be reached.
WatchEvents ==
    /\ spc = "watch"
    /\ \E ok \in {FALSE, link[sdev] = "open"} :
         /\ link' = [link EXCEPT ![sdev] = IF ok THEN "watched" ELSE @]
         /\ connected' = [connected EXCEPT ![sdev] = ok]
    /\ spc' = "led"
    /\ UNCHANGED <<monitor, sdev, sidx, taken, id, mutex, found, count,
                   listAlive, leaked, interrupted>>

\* The LEDs have been set; std::lock_guard of scan().
LockFound ==
    /\ spc = "led"
    /\ mutex = "free"
    /\ mutex' = "scanner"
    /\ spc' = "push"
    /\ UNCHANGED <<monitor, sdev, sidx, taken, id, link, connected, found,
                   count, listAlive, leaked, interrupted>>

\* m_devices.emplace_back(std::move(device)).  Once ~WiimoteScannerThread
\* has destroyed the list, nobody will ever see what is linked into it.
PushFound ==
    /\ spc = "push"
    /\ IF listAlive
       THEN found' = found \cup {sdev} /\ UNCHANGED leaked
       ELSE leaked' = leaked \cup {sdev} /\ UNCHANGED found
    /\ sdev' = NoController
    /\ spc' = "count"
    /\ UNCHANGED <<monitor, sidx, taken, id, link, connected, mutex, count,
                   listAlive, interrupted>>

\* m_count++ and the end of the scope of the lock.
CountFound ==
    /\ spc = "count"
    /\ count' = count + 1
    /\ mutex' = "free"
    /\ spc' = "loop"
    /\ UNCHANGED <<monitor, sdev, sidx, taken, id, link, connected, found,
                   listAlive, leaked, interrupted>>
=============================================================================
