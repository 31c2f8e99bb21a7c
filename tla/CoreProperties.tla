--------------------------- MODULE CoreProperties ---------------------------
(***************************************************************************)
(* What the scanner thread and the main thread must get right together.    *)
(***************************************************************************)
EXTENDS Core

\* A controller object is in one place at a time: still a path in udev's
\* queue, in the hands of the scanner thread, in its list of new
\* controllers, in the core's list, or lost with a destroyed list.  The
\* unique_ptr moves of scan() and list.merge in merge() must neither copy
\* nor drop one, whatever the other thread does meanwhile.
OnePlace ==
    /\ \A i, j \in 1 .. Len(monitor) : monitor[i] = monitor[j] => i = j
    /\ Queued \cap (Constructed \cup {sdev}) = {}
    /\ sdev \notin found \cup devices \cup leaked
    /\ found \cap devices = {}
    /\ leaked \cap (found \cup devices) = {}

\* Two controller objects never carry the same non-zero id, although the
\* scanner reserves ids without a lock while the main thread gives them back
\* (UniqueId::reserve against ~XWiimoteController), in whatever table
\* type() makes the destructor look.
UniqueIds ==
    \A c, d \in Constructed : c # d /\ id[c] = id[d] => id[c] = 0

\* Whenever nobody holds the mutex, m_count says exactly how many
\* controllers wait in the list: merge() decides by an unlocked look at
\* m_count, and one that is too small would strand a controller for good.
HandoffCounted ==
    mutex = "free" /\ cpc \notin {"destroyFound", "join", "exited"}
        => count = Cardinality(found)

\* The id tables live on the scanner thread's stack, and every controller
\* keeps a reference to them for its destructor: when scan() has returned,
\* no controller that will still be destroyed may exist.
NoControllerOutlivesTables == spc = "ended" => found \cup devices = {}

-----------------------------------------------------------------------------
(* The parts of the inductive invariant that are not properties above.     *)

\* scan() owns a controller between connect() and emplace_back().
SdevShape == sdev = NoController <=> spc \in {"loop", "count", "ended"}

\* Each holder of m_mutex is inside its lock_guard's scope.
MutexHolders ==
    /\ mutex = "scanner" <=> spc \in {"push", "count"}
    /\ mutex = "core" <=> cpc \in {"merge", "zero"}

\* The order in which the destructors run.
Lifetimes ==
    /\ interrupted <=> cpc \in {"join", "exited"}
    /\ listAlive <=> cpc \notin {"join", "exited"}
    /\ spc = "ended" => interrupted
    /\ cpc \in {"destroyFound", "join", "exited"} => devices = {}
    /\ cpc \in {"join", "exited"} => found = {}
    /\ cpc = "destroyFound" => todo \subseteq found

\* The id a controller carries is marked in the table reserve() scans.
HeldIdsTaken == \A c \in Constructed : id[c] \in taken["wiimote"] \cup {0}

\* m_count and the list at every point, also between push and count.
HandoffExact ==
    /\ IsFiniteSet(found)
    /\ cpc = "zero" => found = {}
    /\ cpc \notin {"zero", "destroyFound", "join", "exited"} =>
         Cardinality(found) = IF spc = "count" THEN count + 1 ELSE count

IInv ==
    /\ TypeOK
    /\ SdevShape
    /\ MutexHolders
    /\ Lifetimes
    /\ OnePlace
    /\ HeldIdsTaken
    /\ UniqueIds
    /\ HandoffExact

-----------------------------------------------------------------------------
(* Properties of runs in which type() answers the same at both ends.       *)

\* An index stays marked exactly as long as some controller carries it:
\* no id is lost over any number of connections, failed ones included.
NoIdLost == taken["wiimote"] = {id[c] : c \in Constructed} \ {0}

\* With no more remotes than ids nobody is left without one, even when ids
\* are given back behind the scanning index of reserve().
EveryoneGetsAnId == \A c \in Constructed : id[c] # 0

\* A remote that udev announced reaches the core's list, unless the daemon
\* is told to stop: m_count, the mutex and the queue lose nobody.
AnnouncedIsServed ==
    \A c \in Controllers : c \in Queued ~> (c \in devices \/ sigterm)

\* A remote that went away while it was watched is dropped by a later tick
\* and its object destroyed, wherever it was on its way to the core's list.
GoneIsRetired ==
    \A c \in Controllers : link[c] = "gone" ~> (c \notin Constructed \/ sigterm)

\* SIGTERM ends the daemon from every state: the tick that saw the flag
\* completes, the destructors run, and the scanner thread is joined.
TermEnds == sigterm ~> cpc = "exited"

-----------------------------------------------------------------------------
(* Every connected remote has an id of its own as long as there are fewer  *)
(* remotes than ids (CHANGELOG v1.4.1: "Fixed bug that assign same id to   *)
(* every wiiremote device").  ~XWiimoteController releases into the table  *)
(* type() names at that moment, which is not the one it reserved from when *)
(* the remote is a balance board or a pro controller.                      *)
EveryRemoteHasItsOwnId ==
    \A c, d \in {e \in devices : connected[e]} : c # d => id[c] # id[d]

-----------------------------------------------------------------------------
(* The scanner and the core implement the registry.                        *)

Abs == INSTANCE Registry WITH
    ident  <- [c \in Controllers |-> IF c \in Constructed THEN id[c] ELSE Size],
    served <- devices

\* Admission under an unused id, service after admission, one retirement:
\* the steps of both threads, in every interleaving, are steps of Registry.
ImplementsRegistry == Abs!RegistrySpec
=============================================================================
