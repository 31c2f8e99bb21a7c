--------------------------- MODULE InfraredMouse ---------------------------
(***************************************************************************)
(* The infrared mice of UInputProfileManager.  Each EIOInfraredMouse is a  *)
(* thread that turns the cursor of a remote into motion of the one event   *)
(* device; the main thread tells it of the cursor, and starts and joins it *)
(* when a profile is loaded or unloaded and when the manager is destroyed. *)
(*                                                                         *)
(* Positions are integers in units of 1 / Scale pixel; the two axes are    *)
(* alike.  m_cursor is copied under m_mutex, so reading it is one step,    *)
(* and what a thread computes from it before it writes is its own.  The    *)
(* mode is always Relative: nothing sets another.  m_timeout is looked at  *)
(* only to see if it is above accTimeout, and is not counted further.      *)
(***************************************************************************)
EXTENDS Integers, Sequences

CONSTANTS MouseGroups, \* the groups of a profile that are mice, in order
          Ids,         \* numbers of remotes
          IdOf,        \* the remote of a mouse
          Accelerated, \* the mice with "acc"
          AccTimeout,  \* "acc.timeout"
          Scale,       \* units of a pixel
          Deadzone,    \* "deadzone.x" and "deadzone.y"
          Points,      \* positions of a cursor, [Axes -> Int]
          Boost,       \* what acceleration adds, at a place on an axis
          Garbage,     \* what an uninitialized m_acc can be, [Axes -> Int]
          Counts       \* what an uninitialized m_timeout can be

Mice == {MouseGroups[n] : n \in DOMAIN MouseGroups}

Axes == {"x", "y"}
Vectors == [Axes -> Int]
Zero == [a \in Axes |-> 0]
Places == {p[a] : p \in Points \cup {Zero}, a \in Axes}

ASSUME MouseGroupsAssumption ==
    /\ MouseGroups \in Seq(Mice)
    /\ \A n, o \in DOMAIN MouseGroups : n # o => MouseGroups[n] # MouseGroups[o]
ASSUME IdsAssumption == IdOf \in [Mice -> Ids]
ASSUME AcceleratedAssumption == Accelerated \subseteq Mice
ASSUME NumbersAssumption ==
    /\ AccTimeout \in Nat
    /\ Scale \in Nat \ {0}
    /\ Deadzone \in Nat
    /\ Boost \in [Places -> Nat]
ASSUME ValuesAssumption ==
    /\ Points \subseteq Vectors
    /\ Garbage \subseteq Vectors
    /\ Counts \subseteq Int /\ \A n \in Counts : n <= AccTimeout + 1

\* InfraredCursor, as the default constructor makes it.
NoCursor == [at |-> Zero, valid |-> FALSE]

VARIABLES
    main,         \* what the main thread does
    then,         \* why it clears m_mouses
    mice,         \* m_mouses
    created,      \* m_isCreated of m_eventDevice
    thread,       \* where the thread of a mouse is
    interrupted,  \* m_interrupted
    cursor,       \* m_cursor
    last,         \* last, in run()
    timeout,      \* m_timeout
    acc,          \* m_acc
    motion,       \* the motion that is being written, in pixels
    loose,        \* history: axes that are accelerated, or on which the cursor
                  \*    was right of the centre; on the others,
    error         \*    how far the pointer is from where the cursor led it,
                  \*    as long as the device works

mainvars == <<main, then, mice>>
threadvars == <<thread, last, timeout, acc, motion>>
historyvars == <<loose, error>>
vars == <<mainvars, created, interrupted, cursor, threadvars, historyvars>>

Cursors == [at : Vectors, valid : BOOLEAN]

TypeOK ==
    /\ main \in {"idle", "clear", "wait", "start", "gone"}
    /\ then \in {"load", "unload", "destroy"}
    /\ mice \in Seq(Mice)
    /\ created \in BOOLEAN
    /\ thread \in [Mice -> {"none", "tick", "x", "y", "sync", "ended"}]
    /\ interrupted \in [Mice -> BOOLEAN]
    /\ cursor \in [Mice -> Cursors]
    /\ last \in [Mice -> Cursors]
    /\ timeout \in [Mice -> Int]
    /\ acc \in [Mice -> Vectors]
    /\ motion \in [Mice -> Vectors]
    /\ loose \in [Mice -> SUBSET Axes]
    /\ error \in [Mice -> Vectors]

Init ==
    /\ main = "idle"
    /\ then = "load"
    /\ mice = <<>>
    /\ created \in BOOLEAN
    /\ thread = [m \in Mice |-> "none"]
    /\ interrupted = [m \in Mice |-> FALSE]
    /\ cursor = [m \in Mice |-> NoCursor]
    /\ last = [m \in Mice |-> NoCursor]
    /\ timeout = [m \in Mice |-> 0]
    /\ acc = [m \in Mice |-> Zero]
    /\ motion = [m \in Mice |-> Zero]
    /\ loose = [m \in Mice |-> {}]
    /\ error = [m \in Mice |-> Zero]

Loaded == {mice[n] : n \in DOMAIN mice}

-----------------------------------------------------------------------------
(* The main thread.                                                        *)

\* dbusVirtualCursorPosition of every mouse; those of other remotes return.
CursorPosition(id, p) ==
    /\ main = "idle"
    /\ cursor' = [m \in Mice |-> IF m \in Loaded /\ IdOf[m] = id
                                 THEN [at |-> p, valid |-> TRUE] ELSE cursor[m]]
    /\ UNCHANGED <<mainvars, created, interrupted, threadvars, historyvars>>

\* dbusVirtualCursorLost: the place stays.  It is read and written back under
\* the lock, and nobody else writes it.
CursorLost(id) ==
    /\ main = "idle"
    /\ cursor' = [m \in Mice |-> IF m \in Loaded /\ IdOf[m] = id
                                 THEN [cursor[m] EXCEPT !.valid = FALSE] ELSE cursor[m]]
    /\ UNCHANGED <<mainvars, created, interrupted, threadvars, historyvars>>

\* loadInfraredEvents, unloadProfile and the destructor all clear m_mouses.
Clear(why) ==
    /\ main = "idle"
    /\ main' = "clear"
    /\ then' = why
    /\ UNCHANGED <<mice, created, interrupted, cursor, threadvars, historyvars>>

\* A destructor that only waits.
WaitOnly ==
    /\ main = "clear"
    /\ mice # <<>>
    /\ main' = "wait"
    /\ UNCHANGED <<then, mice, created, interrupted, cursor, threadvars, historyvars>>

\* ~EIOInfraredMouse: interrupt()
Interrupt ==
    /\ main = "clear"
    /\ mice # <<>>
    /\ interrupted' = [interrupted EXCEPT ![mice[1]] = TRUE]
    /\ main' = "wait"
    /\ UNCHANGED <<then, mice, created, cursor, threadvars, historyvars>>

\* A destructor that does not join its thread.
JoinNothing ==
    /\ main = "wait"
    /\ mice' = Tail(mice)
    /\ main' = "clear"
    /\ UNCHANGED <<then, created, interrupted, cursor, threadvars, historyvars>>

\* ~EIOInfraredMouse: wait() returns when run() has, and the mouse is gone.
Join ==
    /\ main = "wait"
    /\ thread[mice[1]] = "ended"
    /\ thread' = [thread EXCEPT ![mice[1]] = "none"]
    /\ interrupted' = [interrupted EXCEPT ![mice[1]] = FALSE]
    /\ cursor' = [cursor EXCEPT ![mice[1]] = NoCursor]
    /\ last' = [last EXCEPT ![mice[1]] = NoCursor]
    /\ timeout' = [timeout EXCEPT ![mice[1]] = 0]
    /\ acc' = [acc EXCEPT ![mice[1]] = Zero]
    /\ loose' = [loose EXCEPT ![mice[1]] = {}]
    /\ error' = [error EXCEPT ![mice[1]] = Zero]
    /\ mice' = Tail(mice)
    /\ main' = "clear"
    /\ UNCHANGED <<then, created, motion>>

\* m_mouses is empty.  When the manager goes, m_eventDevice goes next.
Cleared ==
    /\ main = "clear"
    /\ mice = <<>>
    /\ main' = CASE then = "load" -> "start"
                 [] then = "unload" -> "idle"
                 [] then = "destroy" -> "gone"
    /\ UNCHANGED <<then, mice, created, interrupted, cursor, threadvars, historyvars>>

\* loadInfraredEvents: the next mouse is made, configured and started.
\* Nothing initializes m_acc and m_timeout.
Start ==
    /\ main = "start"
    /\ Len(mice) < Len(MouseGroups)
    /\ \E g \in Garbage, n \in Counts :
         LET m == MouseGroups[Len(mice) + 1]
         IN  /\ mice' = Append(mice, m)
             /\ thread' = [thread EXCEPT ![m] = "tick"]
             /\ acc' = [acc EXCEPT ![m] = g]
             /\ timeout' = [timeout EXCEPT ![m] = n]
             /\ loose' = [loose EXCEPT ![m] = IF m \in Accelerated THEN Axes ELSE {}]
             /\ error' = [error EXCEPT ![m] =
                            [a \in Axes |-> IF m \in Accelerated THEN 0 ELSE -g[a]]]
    /\ UNCHANGED <<main, then, created, interrupted, cursor, last, motion>>

Started ==
    /\ main = "start"
    /\ Len(mice) = Len(MouseGroups)
    /\ main' = "idle"
    /\ UNCHANGED <<then, mice, created, interrupted, cursor, threadvars, historyvars>>

-----------------------------------------------------------------------------
(* The thread of a mouse.                                                  *)

\* static_cast<i32>, which truncates: whole pixels of v.
Pixels(v) == IF v >= 0 THEN v \div Scale ELSE -((-v) \div Scale)

\* m_timeout that every round sets to zero.
CountNothing(m, valid) == 0

\* m_timeout
Count(m, valid) ==
    IF valid THEN 0
    ELSE IF timeout[m] > AccTimeout THEN timeout[m] ELSE timeout[m] + 1

\* m_acc after a tick, before whole pixels are taken out: the fractions of
\* the motion, and acceleration outside the dead zone.
Accumulated(m, a, x, at) ==
    acc[m][a] + (x - Scale * Pixels(x))
      + IF m \in Accelerated /\ (at > Deadzone \/ at < -Deadzone) THEN Boost[at] ELSE 0

\* calc: what is left in m_acc.
Left(m, a, x, at) ==
    LET v == Accumulated(m, a, x, at) IN v - Scale * Pixels(v)

\* calc: the whole pixels of m_acc go to the motion; right of the centre
\* with the other sign.
Shifted(m, a, x, at) ==
    LET shift == Pixels(Accumulated(m, a, x, at))
    IN  x - Scale * (IF at > 0 THEN shift ELSE -shift)

\* A first cursor that is compared with the centre.
BeforeOrCentre(m, current) == last[m]

\* The first valid cursor is compared with itself.
Before(m, current) == IF last[m].valid THEN last[m] ELSE current

\* Where the cursor leads the pointer; its first place leads nowhere.
Led(m, a, current) == IF last[m].valid THEN last[m].at[a] - current.at[a] ELSE 0

\* One round of run() up to what it writes; delta is -m_delta, which the
\* pointer moves by.  last = current at its end is
\* taken in, as nothing reads last before.
Tick(m) ==
    /\ thread[m] = "tick"
    /\ ~interrupted[m]
    /\ LET current == IF cursor[m].valid THEN cursor[m] ELSE last[m]
           delta   == [a \in Axes |-> Before(m, current).at[a] - current.at[a]]
           x       == [a \in Axes |-> Shifted(m, a, delta[a], current.at[a])]
       IN  /\ timeout' = [timeout EXCEPT ![m] = Count(m, cursor[m].valid)]
           /\ last' = [last EXCEPT ![m] = current]
           /\ IF timeout'[m] > AccTimeout THEN UNCHANGED <<acc, motion, thread>>
              ELSE /\ acc' = [acc EXCEPT ![m] =
                                [a \in Axes |-> Left(m, a, delta[a], current.at[a])]]
                   /\ IF x = Zero THEN UNCHANGED <<motion, thread>>
                      ELSE /\ motion' = [motion EXCEPT ![m] = [a \in Axes |-> Pixels(x[a])]]
                           /\ thread' = [thread EXCEPT ![m] = "x"]
           /\ loose' = [loose EXCEPT ![m] = @ \cup {a \in Axes : current.at[a] > 0}]
           /\ error' = [error EXCEPT ![m] =
                          [a \in Axes |-> IF a \in loose'[m] \/ ~created THEN 0
                                          ELSE @[a] - Led(m, a, current)]]
    /\ UNCHANGED <<mainvars, created, interrupted, cursor>>

\* run() returns.
End(m) ==
    /\ thread[m] = "tick"
    /\ interrupted[m]
    /\ thread' = [thread EXCEPT ![m] = "ended"]
    /\ UNCHANGED <<mainvars, created, interrupted, cursor, last, timeout, acc, motion,
                   historyvars>>

\* moveMousePointer: one report, of an axis or SYN_REPORT.  Without a device
\* nothing is written; a write that fails makes it one that is not created.
Write(m, a) ==
    \/ created' = FALSE /\ error' = [n \in Mice |-> Zero]
    \/ /\ created
       /\ error' = IF a \in loose[m] THEN error
                   ELSE [error EXCEPT ![m][a] = @ + Scale * motion[m][a]]
       /\ UNCHANGED created

WriteX(m) ==
    /\ thread[m] = "x"
    /\ Write(m, "x")
    /\ thread' = [thread EXCEPT ![m] = "y"]
    /\ UNCHANGED <<mainvars, interrupted, cursor, last, timeout, acc, motion, loose>>

WriteY(m) ==
    /\ thread[m] = "y"
    /\ Write(m, "y")
    /\ thread' = [thread EXCEPT ![m] = "sync"]
    /\ UNCHANGED <<mainvars, interrupted, cursor, last, timeout, acc, motion, loose>>

WriteSync(m) ==
    /\ thread[m] = "sync"
    /\ \/ UNCHANGED <<created, error>>
       \/ created' = FALSE /\ error' = [n \in Mice |-> Zero]
    /\ thread' = [thread EXCEPT ![m] = "tick"]
    /\ motion' = [motion EXCEPT ![m] = Zero]
    /\ UNCHANGED <<mainvars, interrupted, cursor, last, timeout, acc, loose>>

Signal == \E id \in Ids : CursorLost(id) \/ \E p \in Points : CursorPosition(id, p)

Main ==
    \/ Interrupt \/ Join \/ Cleared
    \/ Start \/ Started

Thread(m) == Tick(m) \/ End(m) \/ WriteX(m) \/ WriteY(m) \/ WriteSync(m)

Next ==
    \/ Signal
    \/ \E why \in {"load", "unload", "destroy"} : Clear(why)
    \/ Main
    \/ \E m \in Mice : Thread(m)

\* The threads of the mice are scheduled, and the main thread is: only a
\* join makes it wait.
Fairness == WF_vars(Main) /\ \A m \in Mice : WF_vars(Thread(m))

Spec == Init /\ [][Next]_vars /\ Fairness

-----------------------------------------------------------------------------
\* A thread runs only as long as its mouse is in the list and the event
\* device exists, whenever profiles are replaced and the manager destroyed.
DeviceOutlivesThreads ==
    \A m \in Mice : thread[m] # "none" => m \in Loaded /\ main # "gone"

Distance(v) == IF v < 0 THEN -v ELSE v

\* The pointer follows the cursor, of which the axes are mirrored, to within
\* a pixel, however the motion is split into ticks, when the cursor is lost
\* and found elsewhere, and apart from the jump m_acc may begin with.  The
\* code keeps this only where the cursor was never right of the centre: there
\* the fractions are taken out with the wrong sign.
PointerFollowsCursor ==
    created =>
        \A m \in Mice :
            thread[m] = "tick" /\ last[m].valid =>
                \A a \in Axes \ loose[m] : Distance(error[m][a]) < Scale

Writing(m) == thread[m] \in {"x", "y", "sync"}

\* A cursor that is lost for good leaves the pointer alone for good, with
\* acceleration also.
LostPointerRests ==
    \A m \in Mice :
        <>[](m \in Loaded /\ ~cursor[m].valid) => <>[]~Writing(m)

\* Replacing or unloading a profile and ending the program come to an end:
\* wait() returns whatever the threads are at.
UnloadEnds == main \in {"clear", "wait"} ~> main \in {"idle", "start", "gone"}
=============================================================================
