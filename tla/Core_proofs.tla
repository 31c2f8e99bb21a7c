----------------------------- MODULE Core_proofs -----------------------------
(***************************************************************************)
(* Theorems about the scanner thread and the main thread, for every set of *)
(* controllers and every size of the id tables, about the registry they    *)
(* implement, and about the D-Bus commands that the main thread executes.  *)
(***************************************************************************)
EXTENDS Commands, FiniteSetTheorems, FunctionTheorems, SequenceTheorems, TLAPS

\* Every step keeps the variables within their types.
LEMMA TypeStep == ASSUME TypeOK, SdevShape, [Next]_vars PROVE TypeOK'
<1> USE SizeAssumption, NoControllerAssumption, KindsAssumption
    DEF TypeOK, ScannerTypeOK, CoreTypeOK, Indices, Ids, Kinds
<1>1. CASE Scanner
  <2> USE <1>1 DEF Scanner, corevars
  <2>1. CASE Interrupted  BY <2>1 DEF Interrupted
  <2>2. CASE Dequeue
    <3>1. monitor' \in Seq(Controllers) /\ sdev' \in Controllers
      BY <2>2, HeadTailProperties DEF Dequeue
    <3> QED  BY <2>2, <3>1 DEF Dequeue
  <2>3. CASE SkipTaken  BY <2>3 DEF SkipTaken
  <2>4. CASE TakeFree
    <3>1. taken' \in [Kinds -> SUBSET Indices]  BY <2>4 DEF TakeFree, Mark
    <3>a. sidx \in Ids  BY <2>4 DEF TakeFree
    <3>2. id' \in [Controllers -> Ids]  BY <2>4, <3>a DEF TakeFree
    <3> QED  BY <2>4, <3>1, <3>2 DEF TakeFree
  <2>5. CASE NoneFree
    <3>a. 0 \in Ids OBVIOUS
    <3>1. id' \in [Controllers -> Ids]  BY <2>5, <3>a DEF NoneFree
    <3> QED  BY <2>5, <3>1 DEF NoneFree
  <2>6. CASE OpenInterface(sdev \in plugged)  BY <2>6 DEF OpenInterface
  <2>7. CASE WatchEvents
    <3>1. link' \in [Controllers -> {"closed", "open", "watched", "gone"}]
      BY <2>7 DEF WatchEvents
    <3>2. PICK ok \in BOOLEAN : connected' = [connected EXCEPT ![sdev] = ok]
      BY <2>7 DEF WatchEvents
    <3>3. connected' \in [Controllers -> BOOLEAN]  BY <3>2
    <3> QED  BY <2>7, <3>1, <3>3 DEF WatchEvents
  <2>8. CASE LockFound  BY <2>8 DEF LockFound
  <2>9. CASE PushFound  BY <2>9 DEF PushFound, SdevShape
  <2>10. CASE CountFound  BY <2>10 DEF CountFound
  <2> QED  BY <2>1, <2>2, <2>3, <2>4, <2>5, <2>6, <2>7, <2>8, <2>9, <2>10
<1>2. CASE MainThread
  <2>1. CASE Tick
    BY <2>1 DEF Tick, scanvars
  <2>2. CASE LockMerge
    BY <2>2 DEF LockMerge
  <2>3. CASE MergeFound
    BY <2>3 DEF MergeFound
  <2>4. CASE ZeroCount
    BY <2>4 DEF ZeroCount
  <2>5. ASSUME NEW c \in Controllers, SweepInvalid(c) PROVE TypeOK'
    BY <2>5 DEF SweepInvalid, Destroy, Release, ReleaseKinds
  <2>6. CASE SweepDone
    BY <2>6 DEF SweepDone, scanvars
  <2>7. ASSUME NEW c \in Controllers, ProcessDevice(c) PROVE TypeOK'
    BY <2>7 DEF ProcessDevice
  <2>8. CASE EndTick
    BY <2>8 DEF EndTick, scanvars
  <2>9. ASSUME NEW c \in Controllers, DestroyDevice(c) PROVE TypeOK'
    BY <2>9 DEF DestroyDevice, Destroy, Release, ReleaseKinds
  <2>10. CASE DevicesDestroyed
    BY <2>10 DEF DevicesDestroyed, scanvars
  <2>11. ASSUME NEW c \in Controllers, DestroyFound(c) PROVE TypeOK'
    BY <2>11 DEF DestroyFound, Destroy, Release, ReleaseKinds
  <2>12. CASE FoundDestroyed
    BY <2>12 DEF FoundDestroyed
  <2>13. CASE Join
    BY <2>13 DEF Join, scanvars
  <2> QED
    BY <1>2, <2>1, <2>2, <2>3, <2>4, <2>5, <2>6, <2>7, <2>8, <2>9, <2>10, <2>11, <2>12, <2>13 DEF MainThread
<1>3. CASE Environment
  <2>1. ASSUME NEW c \in Controllers, Plug(c) PROVE TypeOK'
    BY <2>1 DEF Plug
  <2>2. ASSUME NEW c \in Controllers, Unplug(c) PROVE TypeOK'
    BY <2>2 DEF Unplug
  <2>3. CASE Sigterm
    BY <2>3 DEF Sigterm, scanvars
  <2> QED
    BY <1>3, <2>1, <2>2, <2>3 DEF Environment
<1>4. CASE UNCHANGED vars  BY <1>4 DEF vars, scanvars, corevars
<1> QED  BY <1>1, <1>2, <1>3, <1>4 DEF Next, Exited

\* Who owns the controller under construction, who holds the mutex, and how
\* far the destructors have come, after every step.
LEMMA ControlStep ==
    ASSUME TypeOK, SdevShape, MutexHolders, Lifetimes, [Next]_vars
    PROVE  SdevShape' /\ MutexHolders' /\ Lifetimes'
<1> USE NoControllerAssumption
    DEF TypeOK, ScannerTypeOK, CoreTypeOK, SdevShape, MutexHolders, Lifetimes
<1>1. CASE Scanner
  <2>1. CASE Interrupted  BY <2>1, <1>1 DEF Interrupted, corevars, Scanner
  <2>2. CASE Dequeue
    <3>1. sdev' \in Controllers  BY <2>2, HeadTailProperties DEF Dequeue
    <3> QED  BY <1>1, <2>2, <3>1 DEF Dequeue, Scanner, corevars
  <2>3. CASE SkipTaken  BY <2>3, <1>1 DEF SkipTaken, corevars, Scanner
  <2>4. CASE TakeFree  BY <2>4, <1>1 DEF TakeFree, corevars, Scanner
  <2>5. CASE NoneFree  BY <2>5, <1>1 DEF NoneFree, corevars, Scanner
  <2>6. CASE OpenInterface(sdev \in plugged)
    BY <2>6, <1>1 DEF OpenInterface, corevars, Scanner
  <2>7. CASE WatchEvents  BY <2>7, <1>1 DEF WatchEvents, corevars, Scanner
  <2>8. CASE LockFound  BY <2>8, <1>1 DEF LockFound, corevars, Scanner
  <2>9. CASE PushFound  BY <2>9, <1>1 DEF PushFound, corevars, Scanner
  <2>10. CASE CountFound  BY <2>10, <1>1 DEF CountFound, corevars, Scanner
  <2> QED
    BY <1>1, <2>1, <2>2, <2>3, <2>4, <2>5, <2>6,
        <2>7, <2>8, <2>9, <2>10 DEF Scanner
<1>2. CASE MainThread
  <2>1. CASE Tick  BY <2>1 DEF Tick, scanvars
  <2>2. CASE LockMerge  BY <2>2 DEF LockMerge
  <2>3. CASE MergeFound  BY <2>3 DEF MergeFound
  <2>4. CASE ZeroCount  BY <2>4 DEF ZeroCount
  <2>5. ASSUME NEW c \in Controllers, SweepInvalid(c) PROVE SdevShape' /\ MutexHolders' /\ Lifetimes'
    BY <2>5 DEF SweepInvalid, Destroy
  <2>6. CASE SweepDone  BY <2>6 DEF SweepDone, scanvars
  <2>7. ASSUME NEW c \in Controllers, ProcessDevice(c) PROVE SdevShape' /\ MutexHolders' /\ Lifetimes'
    BY <2>7 DEF ProcessDevice
  <2>8. CASE EndTick  BY <2>8 DEF EndTick, scanvars
  <2>9. ASSUME NEW c \in Controllers, DestroyDevice(c) PROVE SdevShape' /\ MutexHolders' /\ Lifetimes'
    BY <2>9 DEF DestroyDevice, Destroy
  <2>10. CASE DevicesDestroyed  BY <2>10 DEF DevicesDestroyed, scanvars
  <2>11. ASSUME NEW c \in Controllers, DestroyFound(c) PROVE SdevShape' /\ MutexHolders' /\ Lifetimes'
    BY <2>11 DEF DestroyFound, Destroy
  <2>12. CASE FoundDestroyed  BY <2>12 DEF FoundDestroyed
  <2>13. CASE Join  BY <2>13 DEF Join, scanvars
  <2> QED
    BY <1>2, <2>1, <2>2, <2>3, <2>4, <2>5, <2>6,
        <2>7, <2>8, <2>9, <2>10, <2>11, <2>12, <2>13 DEF MainThread
<1>3. CASE Environment
  <2>1. ASSUME NEW c \in Controllers, Plug(c) PROVE SdevShape' /\ MutexHolders' /\ Lifetimes'
    BY <2>1 DEF Plug
  <2>2. ASSUME NEW c \in Controllers, Unplug(c) PROVE SdevShape' /\ MutexHolders' /\ Lifetimes'
    BY <2>2 DEF Unplug
  <2>3. CASE Sigterm  BY <2>3 DEF Sigterm, scanvars
  <2> QED  BY <1>3, <2>1, <2>2, <2>3 DEF Environment
<1>4. CASE UNCHANGED vars  BY <1>4 DEF vars, scanvars, corevars
<1> QED  BY <1>1, <1>2, <1>3, <1>4 DEF Next, Exited

Paths(q) == {q[i] : i \in 1 .. Len(q)}
Distinct(q) == \A i, j \in 1 .. Len(q) : q[i] = q[j] => i = j

\* What dequeuing a path does to the set of queued remotes.
LEMMA DequeuePath ==
    ASSUME NEW S, NEW q \in Seq(S), q # <<>>, Distinct(q)
    PROVE  /\ Distinct(Tail(q))
           /\ Paths(Tail(q)) = Paths(q) \ {Head(q)}
           /\ Head(q) \in Paths(q)
<1> DEFINE t == Tail(q)
<1>1. /\ Len(q) \in Nat /\ Len(q) >= 1
      /\ Len(t) = Len(q) - 1
      /\ \A i \in 1 .. Len(t) : t[i] = q[i + 1]
      /\ Head(q) = q[1]
  BY HeadTailProperties
<1> HIDE DEF t
<1>2. Distinct(t)
  BY <1>1 DEF Distinct
<1>3. Paths(t) \subseteq Paths(q) \ {Head(q)}
  BY <1>1 DEF Distinct, Paths
<1>4. ASSUME NEW k \in 1 .. Len(q), q[k] # Head(q)  PROVE q[k] \in Paths(t)
  <2>1. k - 1 \in 1 .. Len(t) /\ t[k - 1] = q[k]
    BY <1>1, <1>4
  <2> QED  BY <2>1 DEF Paths
<1>5. Paths(t) = Paths(q) \ {Head(q)}
  BY <1>3, <1>4 DEF Paths
<1>6. Head(q) \in Paths(q)
  BY <1>1 DEF Paths
<1> QED  BY <1>2, <1>5, <1>6 DEF t

\* What queuing a path does to it.
LEMMA QueuePath ==
    ASSUME NEW S, NEW q \in Seq(S), NEW c \in S, Distinct(q), c \notin Paths(q)
    PROVE  /\ Distinct(Append(q, c))
           /\ Paths(Append(q, c)) = Paths(q) \cup {c}
<1> DEFINE t == Append(q, c)
<1>1. /\ Len(q) \in Nat
      /\ Len(t) = Len(q) + 1
      /\ \A i \in 1 .. Len(q) : t[i] = q[i]
      /\ t[Len(q) + 1] = c
  BY AppendProperties
<1> HIDE DEF t
<1>2. Distinct(t)
  BY <1>1 DEF Distinct, Paths
<1>3. Paths(t) \subseteq Paths(q) \cup {c}
  BY <1>1 DEF Paths
<1>4. Paths(q) \subseteq Paths(t)
  BY <1>1 DEF Paths
<1>5. c \in Paths(t)
  BY <1>1 DEF Paths
<1> QED  BY <1>2, <1>3, <1>4, <1>5 DEF t

\* No step puts a controller in two places or in the queue twice.
LEMMA PlaceStep ==
    ASSUME TypeOK, SdevShape, Lifetimes, OnePlace, [Next]_vars
    PROVE  OnePlace'
<1> USE NoControllerAssumption
    DEF TypeOK, ScannerTypeOK, CoreTypeOK, SdevShape
<1>1. CASE Scanner
  <2>1. CASE Interrupted
    BY <2>1, <1>1 DEF Interrupted, OnePlace, Queued, Constructed, UnderConstruction, corevars, Scanner
  <2>2. CASE Dequeue
    <3>1. monitor # <<>> /\ monitor' = Tail(monitor) /\ sdev' = Head(monitor)
      BY <2>2 DEF Dequeue
    <3>2. Distinct(monitor)  BY DEF OnePlace, Distinct
    <3>3. Distinct(monitor') /\ Paths(monitor') = Paths(monitor) \ {sdev'}
         /\ sdev' \in Paths(monitor)
      BY <3>1, <3>2, DequeuePath
    <3>4. sdev' \in Controllers  BY <3>1, HeadTailProperties
    <3>5. Queued = Paths(monitor) /\ Queued' = Paths(monitor')  BY DEF Paths, Queued
    <3>6. sdev' \notin found \cup devices \cup leaked  BY <3>3, <3>5 DEF OnePlace, Constructed
    <3>7. Queued' \cap (Constructed' \cup {sdev'}) = {}
      BY <1>1, <2>2, <3>3, <3>5 DEF OnePlace, Constructed, UnderConstruction, Dequeue, Scanner, corevars
    <3> QED  BY <1>1, <2>2, <3>3, <3>6, <3>7 DEF OnePlace, Distinct, Dequeue, Scanner, corevars
  <2>3. CASE SkipTaken
    BY <2>3, <1>1 DEF SkipTaken, OnePlace, Queued, Constructed, UnderConstruction, corevars, Scanner
  <2>4. CASE TakeFree
    BY <2>4, <1>1 DEF TakeFree, OnePlace, Queued, Constructed, UnderConstruction, corevars, Scanner
  <2>5. CASE NoneFree
    BY <2>5, <1>1 DEF NoneFree, OnePlace, Queued, Constructed, UnderConstruction, corevars, Scanner
  <2>6. CASE OpenInterface(sdev \in plugged)
    BY <2>6, <1>1 DEF OpenInterface, OnePlace, Queued, Constructed, UnderConstruction, corevars, Scanner
  <2>7. CASE WatchEvents
    BY <2>7, <1>1 DEF WatchEvents, OnePlace, Queued, Constructed, UnderConstruction, corevars, Scanner
  <2>8. CASE LockFound
    BY <2>8, <1>1 DEF LockFound, OnePlace, Queued, Constructed, UnderConstruction, corevars, Scanner
  <2>9. CASE PushFound
    BY <2>9, <1>1 DEF PushFound, OnePlace, Queued, Constructed, UnderConstruction, Lifetimes, corevars, Scanner
  <2>10. CASE CountFound
    BY <2>10, <1>1 DEF CountFound, OnePlace, Queued, Constructed, UnderConstruction, corevars, Scanner
  <2> QED
    BY <1>1, <2>1, <2>2, <2>3, <2>4, <2>5, <2>6,
        <2>7, <2>8, <2>9, <2>10 DEF Scanner
<1>2. CASE MainThread
  <2>1. CASE Tick
    BY <2>1 DEF Tick, scanvars, OnePlace, Queued, Constructed, UnderConstruction
  <2>2. CASE LockMerge
    BY <2>2 DEF LockMerge, OnePlace, Queued, Constructed, UnderConstruction
  <2>3. CASE MergeFound
    BY <2>3 DEF MergeFound, OnePlace, Queued, Constructed, UnderConstruction, Lifetimes
  <2>4. CASE ZeroCount
    BY <2>4 DEF ZeroCount, OnePlace, Queued, Constructed, UnderConstruction
  <2>5. ASSUME NEW c \in Controllers, SweepInvalid(c) PROVE OnePlace'
    BY <2>5 DEF SweepInvalid, Destroy, OnePlace, Queued, Constructed, UnderConstruction
  <2>6. CASE SweepDone
    BY <2>6 DEF SweepDone, scanvars, OnePlace, Queued, Constructed, UnderConstruction
  <2>7. ASSUME NEW c \in Controllers, ProcessDevice(c) PROVE OnePlace'
    BY <2>7 DEF ProcessDevice, OnePlace, Queued, Constructed, UnderConstruction
  <2>8. CASE EndTick
    BY <2>8 DEF EndTick, scanvars, OnePlace, Queued, Constructed, UnderConstruction
  <2>9. ASSUME NEW c \in Controllers, DestroyDevice(c) PROVE OnePlace'
    BY <2>9 DEF DestroyDevice, Destroy, OnePlace, Queued, Constructed, UnderConstruction
  <2>10. CASE DevicesDestroyed
    BY <2>10 DEF DevicesDestroyed, scanvars, OnePlace, Queued, Constructed, UnderConstruction
  <2>11. ASSUME NEW c \in Controllers, DestroyFound(c) PROVE OnePlace'
    BY <2>11 DEF DestroyFound, Destroy, OnePlace, Queued, Constructed, UnderConstruction, Lifetimes
  <2>12. CASE FoundDestroyed
    BY <2>12 DEF FoundDestroyed, OnePlace, Queued, Constructed, UnderConstruction, Lifetimes
  <2>13. CASE Join
    BY <2>13 DEF Join, scanvars, OnePlace, Queued, Constructed, UnderConstruction
  <2> QED
    BY <1>2, <2>1, <2>2, <2>3, <2>4, <2>5, <2>6,
        <2>7, <2>8, <2>9, <2>10, <2>11, <2>12, <2>13 DEF MainThread
<1>3. CASE Environment
  <2>1. ASSUME NEW c \in Controllers, Plug(c) PROVE OnePlace'
    <3>1. monitor' = Append(monitor, c)  BY <2>1 DEF Plug
    <3>2. Distinct(monitor) /\ Queued = Paths(monitor)  BY DEF OnePlace, Distinct, Paths, Queued
    <3>3. c \notin Paths(monitor)  BY <2>1, <3>2 DEF Plug
    <3>4. Distinct(monitor') /\ Paths(monitor') = Paths(monitor) \cup {c}
      BY <3>1, <3>2, <3>3, QueuePath
    <3>5. Queued' = Paths(monitor')  BY DEF Paths, Queued
    <3>6. Queued' \cap (Constructed' \cup {sdev'}) = {}
      BY <2>1, <3>2, <3>4, <3>5 DEF OnePlace, Plug, Constructed, UnderConstruction
    <3> QED  BY <2>1, <3>4, <3>6 DEF OnePlace, Distinct, Plug
  <2>2. ASSUME NEW c \in Controllers, Unplug(c) PROVE OnePlace'
    BY <2>2 DEF Unplug, OnePlace, Queued, Constructed, UnderConstruction
  <2>3. CASE Sigterm
    BY <2>3 DEF Sigterm, scanvars, OnePlace, Queued, Constructed, UnderConstruction
  <2> QED  BY <1>3, <2>1, <2>2, <2>3 DEF Environment
<1>4. CASE UNCHANGED vars  BY <1>4 DEF vars, scanvars, corevars, OnePlace,
       Queued, Constructed, UnderConstruction
<1> QED  BY <1>1, <1>2, <1>3, <1>4 DEF Next, Exited

\* What a step does to the controllers that exist: nothing (they may move
\* to the core's list), one more, or one less.
Moves ==
    /\ Constructed' = Constructed /\ id' = id /\ taken' = taken
    /\ devices' = devices \/ devices' = devices \cup found

Admits(c, i) ==
    /\ c \in Controllers \ Constructed
    /\ Constructed' = Constructed \cup {c}
    /\ id' = [id EXCEPT ![c] = i]
    /\ \/ i = 0 /\ NoneFree /\ taken' = taken
       \/ i \in Indices \ taken["wiimote"] /\ Mark(i)
    /\ devices' = devices

Destroys(c) ==
    /\ c \in Constructed
    /\ Constructed' = Constructed \ {c}
    /\ Destroy(c)
    /\ devices' = devices \ {c}

LifeStep == \/ Moves
            \/ \E c \in Controllers, i \in Ids : Admits(c, i)
            \/ \E c \in Controllers : Destroys(c)

\* Every step of the system is one of the three.
LEMMA EveryLifeStep ==
    ASSUME TypeOK, SdevShape, Lifetimes, OnePlace, [Next]_vars
    PROVE  LifeStep
<1> USE NoControllerAssumption, SizeAssumption DEF TypeOK, ScannerTypeOK, CoreTypeOK
<1>1. CASE Scanner
  <2>1. CASE Interrupted
    BY <2>1, <1>1 DEF Interrupted, LifeStep, Moves, Constructed, UnderConstruction, SdevShape, corevars, Scanner
  <2>2. CASE Dequeue
    BY <2>2, <1>1 DEF Dequeue, LifeStep, Moves, Constructed, UnderConstruction, SdevShape, corevars, Scanner
  <2>3. CASE SkipTaken
    BY <2>3, <1>1 DEF SkipTaken, LifeStep, Moves, Constructed, UnderConstruction, corevars, Scanner
  <2>4. CASE TakeFree
    <3>1. Admits(sdev, sidx) /\ sidx \in Ids
      BY <1>1, <2>4 DEF TakeFree, Admits, SdevShape, OnePlace, Constructed,
         UnderConstruction, Indices, Ids, Scanner, corevars
    <3> QED  BY <3>1 DEF LifeStep, Admits
  <2>5. CASE NoneFree
    <3>1. Admits(sdev, 0) /\ 0 \in Ids
      BY <1>1, <2>5 DEF NoneFree, Admits, SdevShape, OnePlace, Constructed,
         UnderConstruction, Indices, Ids, Scanner, corevars
    <3> QED  BY <3>1 DEF LifeStep, Admits
  <2>6. CASE OpenInterface(sdev \in plugged)
    BY <2>6, <1>1 DEF OpenInterface, LifeStep, Moves, Constructed, UnderConstruction, corevars, Scanner
  <2>7. CASE WatchEvents
    BY <2>7, <1>1 DEF WatchEvents, LifeStep, Moves, Constructed, UnderConstruction, corevars, Scanner
  <2>8. CASE LockFound
    BY <2>8, <1>1 DEF LockFound, LifeStep, Moves, Constructed, UnderConstruction, corevars, Scanner
  <2>9. CASE PushFound
    BY <2>9, <1>1 DEF PushFound, LifeStep, Moves, Constructed, UnderConstruction, SdevShape, corevars, Scanner
  <2>10. CASE CountFound
    BY <2>10, <1>1 DEF CountFound, LifeStep, Moves, Constructed, UnderConstruction, SdevShape, corevars, Scanner
  <2> QED
    BY <1>1, <2>1, <2>2, <2>3, <2>4, <2>5, <2>6,
        <2>7, <2>8, <2>9, <2>10 DEF Scanner
<1>2. CASE MainThread
  <2>1. CASE Tick
    BY <2>1 DEF Tick, scanvars, LifeStep, Moves, Constructed, UnderConstruction
  <2>2. CASE LockMerge
    BY <2>2 DEF LockMerge, LifeStep, Moves, Constructed, UnderConstruction
  <2>3. CASE MergeFound
    BY <2>3 DEF MergeFound, LifeStep, Moves, Constructed, UnderConstruction
  <2>4. CASE ZeroCount
    BY <2>4 DEF ZeroCount, LifeStep, Moves, Constructed, UnderConstruction
  <2>5. ASSUME NEW c \in Controllers, SweepInvalid(c) PROVE LifeStep
    <3>1. Destroys(c)
      BY <2>5 DEF SweepInvalid, Destroys, OnePlace, Constructed, UnderConstruction
    <3> QED  BY <3>1 DEF LifeStep
  <2>6. CASE SweepDone
    BY <2>6 DEF SweepDone, scanvars, LifeStep, Moves, Constructed, UnderConstruction
  <2>7. ASSUME NEW c \in Controllers, ProcessDevice(c) PROVE LifeStep
    BY <2>7 DEF ProcessDevice, LifeStep, Moves, Constructed, UnderConstruction
  <2>8. CASE EndTick
    BY <2>8 DEF EndTick, scanvars, LifeStep, Moves, Constructed, UnderConstruction
  <2>9. ASSUME NEW c \in Controllers, DestroyDevice(c) PROVE LifeStep
    <3>1. Destroys(c)
      BY <2>9 DEF DestroyDevice, Destroys, OnePlace, Constructed, UnderConstruction
    <3> QED  BY <3>1 DEF LifeStep
  <2>10. CASE DevicesDestroyed
    BY <2>10 DEF DevicesDestroyed, scanvars, LifeStep, Moves, Constructed, UnderConstruction
  <2>11. ASSUME NEW c \in Controllers, DestroyFound(c) PROVE LifeStep
    <3>1. Destroys(c)
      BY <2>11 DEF DestroyFound, Destroys, OnePlace, Constructed, UnderConstruction, Lifetimes
    <3> QED  BY <3>1 DEF LifeStep
  <2>12. CASE FoundDestroyed
    BY <2>12 DEF FoundDestroyed, LifeStep, Moves, Constructed, UnderConstruction
  <2>13. CASE Join
    BY <2>13 DEF Join, scanvars, LifeStep, Moves, Constructed, UnderConstruction
  <2> QED
    BY <1>2, <2>1, <2>2, <2>3, <2>4, <2>5, <2>6,
        <2>7, <2>8, <2>9, <2>10, <2>11, <2>12, <2>13 DEF MainThread
<1>3. CASE Environment
  <2>1. ASSUME NEW c \in Controllers, Plug(c) PROVE LifeStep
    BY <2>1 DEF Plug, LifeStep, Moves, Constructed, UnderConstruction
  <2>2. ASSUME NEW c \in Controllers, Unplug(c) PROVE LifeStep
    BY <2>2 DEF Unplug, LifeStep, Moves, Constructed, UnderConstruction
  <2>3. CASE Sigterm
    BY <2>3 DEF Sigterm, scanvars, LifeStep, Moves, Constructed, UnderConstruction
  <2> QED  BY <1>3, <2>1, <2>2, <2>3 DEF Environment
<1>4. CASE UNCHANGED vars  BY <1>4 DEF vars, scanvars, corevars, LifeStep, Moves,
       Constructed, UnderConstruction
<1> QED  BY <1>1, <1>2, <1>3, <1>4 DEF Next, Exited

\* No step gives an id away twice or unmarks one that is carried.
LEMMA IdStep ==
    ASSUME TypeOK, SdevShape, Lifetimes, OnePlace, HeldIdsTaken, UniqueIds,
           [Next]_vars
    PROVE  HeldIdsTaken' /\ UniqueIds'
<1> USE DEF TypeOK, ScannerTypeOK, CoreTypeOK, Kinds
<1>1. Constructed \subseteq Controllers
  BY NoControllerAssumption DEF Constructed, UnderConstruction
<1>2. CASE Moves
  BY <1>2 DEF Moves, HeldIdsTaken, UniqueIds
<1>3. ASSUME NEW c \in Controllers, NEW i \in Ids, Admits(c, i)
      PROVE  HeldIdsTaken' /\ UniqueIds'
  <2>1. id'[c] = i /\ \A d \in Constructed : id'[d] = id[d]
    BY <1>1, <1>3 DEF Admits
  <2>2. /\ taken["wiimote"] \subseteq taken'["wiimote"]
        /\ i = 0 \/ (i \in taken'["wiimote"] /\ i \notin taken["wiimote"])
    BY <1>3 DEF Admits, Mark
  <2> QED  BY <1>1, <1>3, <2>1, <2>2 DEF Admits, HeldIdsTaken, UniqueIds
<1>4. ASSUME NEW c \in Controllers, Destroys(c)
      PROVE  HeldIdsTaken' /\ UniqueIds'
  <2>1. \A d \in Constructed' : id'[d] = id[d]
    BY <1>1, <1>4 DEF Destroys, Destroy
  <2>2. taken["wiimote"] \ {id[c]} \subseteq taken'["wiimote"]
    BY <1>4 DEF Destroys, Destroy, Release
  <2> QED  BY <1>1, <1>4, <2>1, <2>2 DEF Destroys, HeldIdsTaken, UniqueIds
<1> QED  BY <1>2, <1>3, <1>4, EveryLifeStep DEF LifeStep

\* m_count and the list move together, whoever holds the mutex.
LEMMA HandoffStep ==
    ASSUME TypeOK, SdevShape, MutexHolders, Lifetimes, OnePlace, HandoffExact, [Next]_vars
    PROVE  HandoffExact'
<1> USE DEF TypeOK, ScannerTypeOK, CoreTypeOK
<1>1. CASE Scanner
  <2>1. CASE Interrupted
    BY <2>1, <1>1 DEF Interrupted, HandoffExact, corevars, Scanner
  <2>2. CASE Dequeue
    BY <2>2, <1>1 DEF Dequeue, HandoffExact, corevars, Scanner
  <2>3. CASE SkipTaken
    BY <2>3, <1>1 DEF SkipTaken, HandoffExact, corevars, Scanner
  <2>4. CASE TakeFree
    BY <2>4, <1>1 DEF TakeFree, HandoffExact, corevars, Scanner
  <2>5. CASE NoneFree
    BY <2>5, <1>1 DEF NoneFree, HandoffExact, corevars, Scanner
  <2>6. CASE OpenInterface(sdev \in plugged)
    BY <2>6, <1>1 DEF OpenInterface, HandoffExact, corevars, Scanner
  <2>7. CASE WatchEvents
    BY <2>7, <1>1 DEF WatchEvents, HandoffExact, corevars, Scanner
  <2>8. CASE LockFound
    BY <2>8, <1>1 DEF LockFound, HandoffExact, corevars, Scanner
  <2>9. CASE PushFound
    <3>1. sdev \in Controllers /\ sdev \notin found
      BY <2>9 DEF PushFound, SdevShape, OnePlace
    <3>2. IsFiniteSet(found \cup {sdev})
         /\ Cardinality(found \cup {sdev}) = Cardinality(found) + 1
      BY <3>1, FS_AddElement DEF HandoffExact
    <3>3. cpc \notin {"merge", "zero"} /\ (cpc \in {"join", "exited"} \/ listAlive)
      BY <2>9 DEF PushFound, MutexHolders, Lifetimes
    <3> QED
      BY <1>1, <2>9, <3>2, <3>3 DEF PushFound, HandoffExact, Scanner, corevars
  <2>10. CASE CountFound
    <3>1. cpc \notin {"merge", "zero"}
      BY <2>10 DEF CountFound, MutexHolders
    <3> QED  BY <1>1, <2>10, <3>1 DEF CountFound, HandoffExact, Scanner, corevars
  <2> QED
    BY <1>1, <2>1, <2>2, <2>3, <2>4, <2>5, <2>6,
        <2>7, <2>8, <2>9, <2>10 DEF Scanner
<1>2. CASE MainThread
  <2>1. CASE Tick  BY <2>1 DEF Tick, scanvars, HandoffExact
  <2>2. CASE LockMerge  BY <2>2 DEF LockMerge, HandoffExact
  <2>3. CASE MergeFound
    <3>1. found' = {} /\ IsFiniteSet({})  BY <2>3, FS_EmptySet DEF MergeFound
    <3> QED  BY <2>3, <3>1 DEF MergeFound, HandoffExact
  <2>4. CASE ZeroCount
    <3>1. found' = {} /\ Cardinality({}) = 0 /\ IsFiniteSet(found')
      BY <2>4, FS_EmptySet DEF ZeroCount, HandoffExact
    <3>2. spc' # "count"  BY <2>4 DEF ZeroCount, MutexHolders
    <3> QED  BY <2>4, <3>1, <3>2 DEF ZeroCount, HandoffExact
  <2>5. ASSUME NEW c \in Controllers, SweepInvalid(c) PROVE HandoffExact'
    BY <2>5 DEF SweepInvalid, HandoffExact
  <2>6. CASE SweepDone  BY <2>6 DEF SweepDone, scanvars, HandoffExact
  <2>7. ASSUME NEW c \in Controllers, ProcessDevice(c) PROVE HandoffExact'
    BY <2>7 DEF ProcessDevice, HandoffExact
  <2>8. CASE EndTick  BY <2>8 DEF EndTick, scanvars, HandoffExact
  <2>9. ASSUME NEW c \in Controllers, DestroyDevice(c) PROVE HandoffExact'
    BY <2>9 DEF DestroyDevice, HandoffExact
  <2>10. CASE DevicesDestroyed
    BY <2>10 DEF DevicesDestroyed, scanvars, HandoffExact
  <2>11. ASSUME NEW c \in Controllers, DestroyFound(c) PROVE HandoffExact'
    <3>1. IsFiniteSet(found')
      BY <2>11, FS_RemoveElement DEF DestroyFound, HandoffExact
    <3> QED  BY <2>11, <3>1 DEF DestroyFound, HandoffExact
  <2>12. CASE FoundDestroyed
    <3>1. IsFiniteSet(found')  BY <2>12, FS_EmptySet DEF FoundDestroyed
    <3> QED  BY <2>12, <3>1 DEF FoundDestroyed, HandoffExact
  <2>13. CASE Join  BY <2>13 DEF Join, scanvars, HandoffExact
  <2> QED
    BY <1>2, <2>1, <2>2, <2>3, <2>4, <2>5, <2>6,
        <2>7, <2>8, <2>9, <2>10, <2>11, <2>12, <2>13 DEF MainThread
<1>3. CASE Environment
  <2>1. ASSUME NEW c \in Controllers, Plug(c) PROVE HandoffExact'
    BY <2>1 DEF Plug, HandoffExact
  <2>2. ASSUME NEW c \in Controllers, Unplug(c) PROVE HandoffExact'
    BY <2>2 DEF Unplug, HandoffExact
  <2>3. CASE Sigterm  BY <2>3 DEF Sigterm, scanvars, HandoffExact
  <2> QED  BY <1>3, <2>1, <2>2, <2>3 DEF Environment
<1>4. CASE UNCHANGED vars  BY <1>4 DEF vars, scanvars, corevars, HandoffExact
<1> QED  BY <1>1, <1>2, <1>3, <1>4 DEF Next, Exited

-----------------------------------------------------------------------------
LEMMA InitInvariant == Init => IInv
<1> SUFFICES ASSUME Init PROVE IInv
  OBVIOUS
<1> USE SizeAssumption, NoControllerAssumption DEF Init, ScannerInit
<1>1. TypeOK
  <2>1. monitor \in Seq(Controllers)  BY EmptySeq
  <2>2. sidx \in 1 .. Size /\ id \in [Controllers -> Ids]  BY DEF Ids
  <2> QED  BY <2>1, <2>2 DEF TypeOK, ScannerTypeOK, CoreTypeOK
<1>2. Constructed = {} /\ Queued = {}
  BY DEF Constructed, UnderConstruction, Queued
<1>3. SdevShape /\ MutexHolders /\ Lifetimes
  BY DEF SdevShape, MutexHolders, Lifetimes
<1>4. OnePlace /\ HeldIdsTaken /\ UniqueIds
  BY <1>2 DEF OnePlace, HeldIdsTaken, UniqueIds
<1>5. HandoffExact
  BY FS_EmptySet DEF HandoffExact
<1> QED  BY <1>1, <1>3, <1>4, <1>5 DEF IInv

LEMMA NextInvariant == IInv /\ [Next]_vars => IInv'
BY TypeStep, ControlStep, PlaceStep, IdStep, HandoffStep DEF IInv

\* The inductive invariant: every part needs the others.  UniqueIds rests on
\* HeldIdsTaken (reserve() offers unmarked indices only), both on OnePlace (a
\* controller destroyed in one place is held in no other), and HandoffExact
\* on MutexHolders (push and count exclude merge and zero).
THEOREM Invariance == Spec => []IInv
<1>1. Init => IInv  BY InitInvariant
<1>2. IInv /\ [Next]_vars => IInv'  BY NextInvariant
<1> QED  BY <1>1, <1>2, PTL DEF Spec

\* The variables of both threads keep their types.
THEOREM TypeCorrect == Spec => []TypeOK
<1>1. IInv => TypeOK  BY DEF IInv
<1> QED  BY <1>1, Invariance, PTL

\* No two controllers ever carry the same non-zero id, for every number of
\* remotes, every table size and whatever type() answers in destructors.
THEOREM IdsAreUnique == Spec => []UniqueIds
<1>1. IInv => UniqueIds  BY DEF IInv
<1> QED  BY <1>1, Invariance, PTL

\* scan() and merge() neither copy nor drop a controller.
THEOREM ControllersAreInOnePlace == Spec => []OnePlace
<1>1. IInv => OnePlace  BY DEF IInv
<1> QED  BY <1>1, Invariance, PTL

\* merge()'s unlocked look at m_count is never left with a stale answer.
THEOREM HandoffIsCounted == Spec => []HandoffCounted
<1>1. IInv => HandoffCounted
  BY DEF IInv, HandoffExact, HandoffCounted, MutexHolders
<1> QED  BY <1>1, Invariance, PTL

\* Destructors find the id tables alive.
THEOREM TablesOutliveControllers == Spec => []NoControllerOutlivesTables
<1>1. IInv => NoControllerOutlivesTables
  BY DEF IInv, Lifetimes, NoControllerOutlivesTables
<1> QED  BY <1>1, Invariance, PTL

-----------------------------------------------------------------------------
(* Why the daemon ends.                                                    *)

\* The places of the main thread in the order it passes them once quit() was
\* called, and what it has to get through at one of them.
Stage ==
    CASE cpc = "lock" -> 1
      [] cpc = "merge" -> 2
      [] cpc = "zero" -> 3
      [] cpc = "sweep" -> 4
      [] cpc = "process" -> 5
      [] cpc = "destroyDevices" -> 6
      [] cpc = "destroyFound" -> 7
      [] cpc = "join" -> 8
      [] cpc = "exited" -> 9
      [] OTHER -> 0
ToVisit == Cardinality(devices) + Cardinality(todo)

\* What is left of an iteration of scan(): the indices reserve() has not
\* passed, the calls of connect(), and the list.
ScanToGo ==
    CASE spc = "reserve" -> 7 + Size - sidx
      [] spc = "open" -> 6
      [] spc = "watch" -> 5
      [] spc = "led" -> 4
      [] spc = "push" -> 3
      [] spc = "count" -> 2
      [] spc = "loop" -> 1
      [] OTHER -> 0

\* The tick that called quit() is the last one, and ~WiimotedevCore goes from
\* member to member: no place is come back to, and a step that stays where it
\* is has one controller less to visit.
EndAdvances ==
    [][quitting => /\ quitting'
                   /\ Stage' > Stage \/ (Stage' = Stage /\ ToVisit' <= ToVisit)
                   /\ MainThread => Stage' > Stage \/ ToVisit' < ToVisit]_vars

\* Once ~raii_thread raised the flag, scan() takes no further path: each of
\* its steps brings it nearer to its return, and the other thread sets it
\* back in nothing, whatever it gives back to the table reserve() scans.
ScanReturns ==
    [][interrupted => /\ interrupted'
                      /\ ScanToGo' <= ScanToGo
                      /\ Scanner => ScanToGo' < ScanToGo]_vars

\* Nobody waits for the mutex while it is his own, or for a thread that waits
\* for him: what the main thread joins, or waits to unlock, can go on.
NobodyWaitsForHimself ==
    /\ cpc \in {"lock", "join"} => mutex = "free" \/ spc \in {"push", "count"}
    /\ spc = "led" => mutex = "free" \/ cpc \in {"merge", "zero"}

\* What EndAdvances needs beside the invariant: a tick that called quit() does
\* not go back to the event loop, and the lists are finite.
EndInv ==
    /\ quitting => cpc # "idle"
    /\ IsFiniteSet(devices)
    /\ IsFiniteSet(todo)

Ends == /\ quitting'
        /\ Stage' > Stage \/ (Stage' = Stage /\ ToVisit' <= ToVisit)
        /\ MainThread => Stage' > Stage \/ ToVisit' < ToVisit

LEMMA StageIsNat == Stage \in Nat /\ Stage' \in Nat
BY DEF Stage

\* What a step of the main thread does, seen from the end.
LEMMA MainThreadAdvances ==
    ASSUME IInv, EndInv, MainThread
    PROVE  EndInv' /\ (quitting => quitting' /\ (Stage' > Stage \/ (Stage' = Stage /\ ToVisit' < ToVisit)))
<1> DEFINE Goal == EndInv' /\ (quitting => quitting' /\ (Stage' > Stage \/ (Stage' = Stage /\ ToVisit' < ToVisit)))
<1> USE DEF EndInv, Stage
<1>0. /\ IsFiniteSet(devices) /\ IsFiniteSet(todo) /\ IsFiniteSet(found)
      /\ Cardinality(devices) \in Nat /\ Cardinality(todo) \in Nat
  BY FS_CardinalityType DEF IInv, HandoffExact
<1>1. CASE Tick
  BY <1>1 DEF Tick
<1>2. CASE LockMerge
  BY <1>2 DEF LockMerge
<1>3. CASE MergeFound
  <2>1. IsFiniteSet(devices')
    BY <1>0, <1>3, FS_Union DEF MergeFound
  <2> QED  BY <1>3, <2>1 DEF MergeFound
<1>4. CASE ZeroCount
  BY <1>4 DEF ZeroCount
<1>5. ASSUME NEW c \in Controllers, SweepInvalid(c) \/ DestroyDevice(c) PROVE Goal
  <2>1. c \in devices /\ devices' = devices \ {c} /\ UNCHANGED <<cpc, todo, quitting>>
    BY <1>5 DEF SweepInvalid, DestroyDevice
  <2>2. IsFiniteSet(devices') /\ Cardinality(devices') = Cardinality(devices) - 1
    BY <1>0, <2>1, FS_RemoveElement
  <2>3. ToVisit' < ToVisit
    BY <1>0, <2>1, <2>2 DEF ToVisit
  <2> QED  BY <2>1, <2>2, <2>3
<1>6. CASE SweepDone
  BY <1>6 DEF SweepDone, scanvars
<1>7. ASSUME NEW c \in Controllers, ProcessDevice(c) \/ DestroyFound(c) PROVE Goal
  <2>1. c \in todo /\ todo' = todo \ {c} /\ UNCHANGED <<cpc, devices, quitting>>
    BY <1>7 DEF ProcessDevice, DestroyFound
  <2>2. IsFiniteSet(todo') /\ Cardinality(todo') = Cardinality(todo) - 1
    BY <1>0, <2>1, FS_RemoveElement
  <2>3. ToVisit' < ToVisit
    BY <1>0, <2>1, <2>2 DEF ToVisit
  <2> QED  BY <2>1, <2>2, <2>3
<1>8. CASE EndTick
  BY <1>8 DEF EndTick, scanvars
<1>9. CASE DevicesDestroyed
  BY <1>0, <1>9 DEF DevicesDestroyed, scanvars
<1>10. CASE FoundDestroyed
  BY <1>10 DEF FoundDestroyed
<1>11. CASE Join
  BY <1>11 DEF Join, scanvars
<1> HIDE DEF EndInv, Stage
<1> QED  BY <1>1, <1>2, <1>3, <1>4, <1>5, <1>6, <1>7, <1>8, <1>9, <1>10, <1>11 DEF MainThread

\* The scanner thread and the environment leave the main thread's variables.
LEMMA OthersLeaveIt ==
    ASSUME [Next]_vars
    PROVE  MainThread \/ UNCHANGED <<cpc, devices, todo, quitting>>
BY DEF Next, Scanner, Environment, Exited, Plug, Unplug, Sigterm, vars, corevars

\* What stays where it is in MainThreadAdvances has fewer to visit.
LEMMA MainThreadLowers ==
    ASSUME IInv, EndInv, MainThread, quitting
    PROVE  Ends
<1>1. quitting' /\ (Stage' > Stage \/ (Stage' = Stage /\ ToVisit' < ToVisit))
  BY MainThreadAdvances
<1>2. ToVisit \in Int /\ ToVisit' \in Int
  <2>1. EndInv'
    BY MainThreadAdvances
  <2> QED  BY <2>1, FS_CardinalityType DEF EndInv, ToVisit
<1> QED  BY <1>1, <1>2 DEF Ends

LEMMA EndStep ==
    ASSUME IInv, EndInv, [Next]_vars
    PROVE  EndInv' /\ (quitting => Ends)
<1>1. CASE MainThread
  BY <1>1, MainThreadAdvances, MainThreadLowers DEF Ends
<1>2. CASE ~MainThread
  <2>1. UNCHANGED <<cpc, devices, todo, quitting>>
    BY <1>2, OthersLeaveIt
  <2>2. EndInv'
    BY <2>1 DEF EndInv
  <2>3. Stage' = Stage /\ ToVisit' = ToVisit /\ ToVisit \in Int
    BY <2>1, FS_CardinalityType DEF Stage, ToVisit, EndInv
  <2> QED  BY <1>2, <2>1, <2>2, <2>3, StageIsNat DEF Ends
<1> QED  BY <1>1, <1>2

\* A tick that saw SIGTERM is the last: main.cpp's quit() and the destructors
\* of WiimotedevCore end after a number of steps that the controllers bound.
THEOREM TheEndAdvances == Spec => EndAdvances
<1>1. Init => EndInv
  BY FS_EmptySet DEF Init, EndInv
<1>2. IInv /\ EndInv /\ [Next]_vars => EndInv'
  BY EndStep
<1>3. IInv /\ EndInv /\ [Next]_vars => [quitting => Ends]_vars
  BY EndStep
<1> QED  BY <1>1, <1>2, <1>3, Invariance, PTL DEF Spec, EndAdvances, Ends

LEMMA MainLeavesScanner ==
    ASSUME MainThread, interrupted
    PROVE  UNCHANGED <<spc, sidx>> /\ interrupted'
BY DEF MainThread, Tick, LockMerge, MergeFound, ZeroCount, SweepInvalid, SweepDone,
   ProcessDevice, EndTick, DestroyDevice, DevicesDestroyed, DestroyFound, FoundDestroyed,
   Join, scanvars

\* scan() returns a bounded number of steps after ~raii_thread raised the
\* flag, also from the middle of connect(), which is then completed.
THEOREM TheScanReturns == Spec => ScanReturns
<1> DEFINE Returns == interrupted => /\ interrupted'
                                     /\ ScanToGo' <= ScanToGo
                                     /\ Scanner => ScanToGo' < ScanToGo
<1>1. IInv /\ [Next]_vars => [Returns]_vars
  <2> SUFFICES ASSUME IInv, Next, interrupted PROVE Returns
    OBVIOUS
  <2>1. sidx \in 1 .. Size /\ Size \in Nat
    BY SizeAssumption DEF IInv, TypeOK, ScannerTypeOK
  <2>2. CASE Scanner
    <3>1. interrupted'
      BY <2>2 DEF Scanner, Interrupted, Dequeue, SkipTaken, TakeFree, NoneFree,
           OpenInterface, WatchEvents, LockFound, PushFound, CountFound
    <3>2. \/ spc = "loop" /\ spc' = "ended"
          \/ spc = "reserve" /\ spc' = "reserve" /\ sidx < Size /\ sidx' = sidx + 1
          \/ spc = "reserve" /\ spc' = "open"
          \/ spc = "open" /\ spc' = "watch"
          \/ spc = "watch" /\ spc' = "led"
          \/ spc = "led" /\ spc' = "push"
          \/ spc = "push" /\ spc' = "count"
          \/ spc = "count" /\ spc' = "loop"
      BY <2>2 DEF Scanner, Interrupted, Dequeue, SkipTaken, TakeFree, NoneFree,
           OpenInterface, WatchEvents, LockFound, PushFound, CountFound
    <3>3. ScanToGo' < ScanToGo /\ ScanToGo \in Int /\ ScanToGo' \in Int
      BY <2>1, <3>2 DEF ScanToGo
    <3> QED  BY <3>1, <3>3
  <2>3. CASE ~Scanner
    <3>1. UNCHANGED <<spc, sidx>> /\ interrupted'
      BY <2>3, MainLeavesScanner DEF Next, Environment, Exited, Plug, Unplug, Sigterm,
           vars, scanvars
    <3>2. ScanToGo' = ScanToGo /\ ScanToGo \in Int
      BY <2>1, <3>1 DEF ScanToGo
    <3> QED  BY <2>3, <3>1, <3>2
  <2> QED  BY <2>2, <2>3
<1> QED  BY <1>1, Invariance, PTL DEF Spec, ScanReturns

\* Two threads, one mutex and one join cannot block each other: the holder of
\* the lock of scan() and of merge() waits for nothing while it has it.
THEOREM NobodyWaits == Spec => []NobodyWaitsForHimself
<1>1. IInv => NobodyWaitsForHimself
  BY DEF IInv, TypeOK, ScannerTypeOK, MutexHolders, NobodyWaitsForHimself
<1> QED  BY <1>1, Invariance, PTL

-----------------------------------------------------------------------------
(* Why everyone is served.                                                 *)

\* As long as nobody asked the daemon to stop, a remote that udev announced
\* only moves on: up in the queue, to the scanner thread, into its list, into
\* the core's list, and out of that one only if it is no longer valid.
NobodyTurnsBack ==
    [][~sigterm =>
         /\ \A n \in DOMAIN monitor :
              \/ n \in DOMAIN monitor' /\ monitor'[n] = monitor[n]
              \/ n > 1 /\ n - 1 \in DOMAIN monitor' /\ monitor'[n - 1] = monitor[n]
              \/ n = 1 /\ sdev' = monitor[n]
         /\ sdev # NoController => sdev' = sdev \/ sdev \in found'
         /\ found \subseteq found' \cup devices'
         /\ {c \in devices : connected[c]} \subseteq devices']_vars

\* A controller that turned invalid stays so until it is destroyed, and one
\* whose remote is gone is not watched again: neither thread brings it back.
GoneStaysGone ==
    [][\A c \in found \cup devices \cup leaked :
         /\ link[c] = "gone" => link'[c] = "gone" \/ c \notin Constructed'
         /\ ~connected[c] => ~connected'[c]]_vars

\* Only SIGTERM makes the main thread destroy what it serves.
StopInv ==
    /\ quitting => sigterm
    /\ cpc \in {"destroyDevices", "destroyFound", "join", "exited"} => sigterm

LEMMA StopStep == ASSUME StopInv, [Next]_vars PROVE StopInv'
<1> USE DEF StopInv
<1>1. CASE Scanner
  BY <1>1 DEF Scanner, corevars
<1>2. CASE MainThread
  BY <1>2 DEF MainThread, Tick, LockMerge, MergeFound, ZeroCount, SweepInvalid, SweepDone,
     ProcessDevice, EndTick, DestroyDevice, DevicesDestroyed, DestroyFound, FoundDestroyed,
     Join, scanvars
<1>3. CASE Environment
  BY <1>3 DEF Environment, Plug, Unplug, Sigterm
<1>4. CASE UNCHANGED vars
  BY <1>4 DEF vars, corevars
<1> QED  BY <1>1, <1>2, <1>3, <1>4 DEF Next, Exited

\* The two halves of NobodyTurnsBack: the queue, and the controllers.
QueueMoves ==
    \A n \in DOMAIN monitor :
        \/ n \in DOMAIN monitor' /\ monitor'[n] = monitor[n]
        \/ n > 1 /\ n - 1 \in DOMAIN monitor' /\ monitor'[n - 1] = monitor[n]
        \/ n = 1 /\ sdev' = monitor[n]
ControllersMove ==
    /\ sdev # NoController => sdev' = sdev \/ sdev \in found'
    /\ found \subseteq found' \cup devices'
    /\ {c \in devices : connected[c]} \subseteq devices'

LEMMA QueueStep == ASSUME IInv, [Next]_vars PROVE QueueMoves
<1>1. monitor \in Seq(Controllers)
  BY DEF IInv, TypeOK, ScannerTypeOK
<1>2. CASE monitor' = monitor
  BY <1>2 DEF QueueMoves
<1>3. CASE Scanner /\ Dequeue
  <2>1. monitor # <<>> /\ sdev' = Head(monitor) /\ monitor' = Tail(monitor)
    BY <1>3 DEF Dequeue
  <2>2. \A n \in DOMAIN monitor :
           (n = 1 /\ Head(monitor) = monitor[n])
             \/ (n > 1 /\ n - 1 \in DOMAIN Tail(monitor) /\ Tail(monitor)[n - 1] = monitor[n])
    BY <1>1, <2>1
  <2> QED  BY <2>1, <2>2 DEF QueueMoves
<1>4. ASSUME NEW c \in Controllers, Plug(c) PROVE QueueMoves
  <2>1. monitor' = Append(monitor, c)
    BY <1>4 DEF Plug
  <2>2. \A n \in DOMAIN monitor : n \in DOMAIN monitor' /\ monitor'[n] = monitor[n]
    BY <1>1, <2>1
  <2> QED  BY <2>2 DEF QueueMoves
<1>5. CASE Scanner /\ ~Dequeue
  <2>1. monitor' = monitor
    BY <1>5 DEF Scanner, Interrupted, SkipTaken, TakeFree, NoneFree, OpenInterface,
       WatchEvents, LockFound, PushFound, CountFound
  <2> QED  BY <1>2, <2>1
<1>6. CASE MainThread
  <2>1. monitor' = monitor
    BY <1>6 DEF MainThread, Tick, LockMerge, MergeFound, ZeroCount, SweepInvalid, SweepDone,
       ProcessDevice, EndTick, DestroyDevice, DevicesDestroyed, DestroyFound, FoundDestroyed,
       Join, scanvars
  <2> QED  BY <1>2, <2>1
<1>7. CASE UNCHANGED vars \/ Sigterm \/ \E c \in Controllers : Unplug(c)
  <2>1. monitor' = monitor
    BY <1>7 DEF Sigterm, Unplug, vars, scanvars
  <2> QED  BY <1>2, <2>1
<1> QED  BY <1>3, <1>4, <1>5, <1>6, <1>7 DEF Next, Exited, Environment

LEMMA ControllersStep ==
    ASSUME IInv, StopInv, [Next]_vars, ~sigterm
    PROVE  ControllersMove
<1> USE DEF ControllersMove
<1>1. /\ cpc \notin {"destroyDevices", "destroyFound", "join", "exited"}
      /\ listAlive
      /\ sdev = NoController <=> spc \in {"loop", "count", "ended"}
  BY DEF IInv, StopInv, Lifetimes, SdevShape
<1>2. CASE Scanner
  <2>1. CASE PushFound
    BY <1>1, <1>2, <2>1 DEF PushFound, Scanner, corevars
  <2>2. CASE Dequeue
    BY <1>1, <1>2, <2>2 DEF Dequeue, Scanner, corevars
  <2>3. CASE ~PushFound /\ ~Dequeue
    <3>1. UNCHANGED <<sdev, found, devices>>
      BY <1>2, <2>3 DEF Scanner, corevars, Interrupted, SkipTaken, TakeFree, NoneFree,
         OpenInterface, WatchEvents, LockFound, CountFound
    <3> QED  BY <3>1
  <2> QED  BY <2>1, <2>2, <2>3
<1>3. CASE MainThread
  <2>1. CASE MergeFound
    BY <2>1 DEF MergeFound
  <2>2. ASSUME NEW c \in Controllers, SweepInvalid(c) PROVE ControllersMove
    BY <2>2 DEF SweepInvalid
  <2>3. CASE ~MergeFound /\ ~\E c \in Controllers : SweepInvalid(c)
    <3>1. UNCHANGED <<sdev, found, devices>>
      BY <1>1, <1>3, <2>3 DEF MainThread, Tick, LockMerge, ZeroCount, SweepDone,
         ProcessDevice, EndTick, DestroyDevice, DevicesDestroyed, DestroyFound,
         FoundDestroyed, Join, scanvars
    <3> QED  BY <3>1
  <2> QED  BY <2>1, <2>2, <2>3
<1>4. CASE Environment \/ UNCHANGED vars
  <2>1. UNCHANGED <<sdev, found, devices>>
    BY <1>4 DEF Environment, Plug, Unplug, Sigterm, vars, scanvars, corevars
  <2> QED  BY <2>1
<1> QED  BY <1>2, <1>3, <1>4 DEF Next, Exited

\* From udev's queue to the core's list everyone only moves on, for any number
\* of remotes and in every interleaving of scan(), merge() and remove_if.
THEOREM NobodyIsTurnedBack == Spec => NobodyTurnsBack
<1> DEFINE Moved == ~sigterm => QueueMoves /\ ControllersMove
<1>1. Init => StopInv
  BY DEF Init, StopInv
<1>2. IInv /\ StopInv /\ [Next]_vars => StopInv'
  BY StopStep
<1>3. IInv /\ StopInv /\ [Next]_vars => [Moved]_vars
  BY QueueStep, ControllersStep
<1> QED
  BY <1>1, <1>2, <1>3, Invariance, PTL DEF Spec, NobodyTurnsBack, QueueMoves, ControllersMove

StaysGone(c) ==
    /\ link[c] = "gone" => link'[c] = "gone" \/ c \notin Constructed'
    /\ ~connected[c] => ~connected'[c]

LEMMA MainDestroys ==
    ASSUME IInv, NEW d \in Controllers, SweepInvalid(d) \/ DestroyDevice(d) \/ DestroyFound(d)
    PROVE  Destroys(d)
<1> USE DEF IInv, TypeOK, ScannerTypeOK, CoreTypeOK, Destroys, OnePlace, Constructed,
        UnderConstruction, Lifetimes
<1>1. CASE SweepInvalid(d)
  BY <1>1 DEF SweepInvalid
<1>2. CASE DestroyDevice(d)
  BY <1>2 DEF DestroyDevice
<1>3. CASE DestroyFound(d)
  BY <1>3 DEF DestroyFound
<1> QED  BY <1>1, <1>2, <1>3

LEMMA DestroyedStaysGone ==
    ASSUME IInv, NEW c \in Controllers, NEW d \in Controllers, Destroy(d),
           d \notin Constructed'
    PROVE  StaysGone(c)
BY DEF IInv, TypeOK, ScannerTypeOK, Destroy, StaysGone

\* XWII_EVENT_GONE is the last a controller hears: neither the scanner thread,
\* which still writes to the one it connects, nor a tick makes it valid again,
\* so that the next remove_if finds it.
THEOREM GoneRemainGone == Spec => GoneStaysGone
<1>1. IInv /\ [Next]_vars => [\A c \in found \cup devices \cup leaked : StaysGone(c)]_vars
  <2> SUFFICES ASSUME IInv, Next, NEW c \in found \cup devices \cup leaked
               PROVE  StaysGone(c)
    OBVIOUS
  <2> USE DEF StaysGone
  <2>1. /\ c \in Controllers /\ c # sdev
        /\ link \in [Controllers -> {"closed", "open", "watched", "gone"}]
        /\ connected \in [Controllers -> BOOLEAN]
    BY DEF IInv, TypeOK, ScannerTypeOK, CoreTypeOK, OnePlace
  <2>2. CASE Scanner
    <3>1. CASE OpenInterface(sdev \in plugged)
      BY <2>1, <3>1 DEF OpenInterface
    <3>2. CASE WatchEvents
      BY <2>1, <3>2 DEF WatchEvents
    <3>3. CASE ~OpenInterface(sdev \in plugged) /\ ~WatchEvents
      <4>1. UNCHANGED <<link, connected>>
        BY <2>2, <3>3 DEF Scanner, Interrupted, Dequeue, SkipTaken, TakeFree, NoneFree,
           LockFound, PushFound, CountFound
      <4> QED  BY <4>1
    <3> QED  BY <3>1, <3>2, <3>3
  <2>3. CASE MainThread
    <3>1. ASSUME NEW d \in Controllers, SweepInvalid(d) \/ DestroyDevice(d) \/ DestroyFound(d)
          PROVE  StaysGone(c)
      <4>1. Destroys(d)
        BY <3>1, MainDestroys
      <4> QED  BY <2>1, <4>1, DestroyedStaysGone DEF Destroys
    <3>2. ASSUME NEW d \in Controllers, ProcessDevice(d) PROVE StaysGone(c)
      BY <2>1, <3>2 DEF ProcessDevice
    <3>3. CASE ~\E d \in Controllers : \/ SweepInvalid(d) \/ DestroyDevice(d)
                                       \/ DestroyFound(d) \/ ProcessDevice(d)
      <4>1. UNCHANGED <<link, connected>>
        BY <2>3, <3>3 DEF MainThread, Tick, LockMerge, MergeFound, ZeroCount, SweepDone,
           EndTick, DevicesDestroyed, FoundDestroyed, Join, scanvars
      <4> QED  BY <4>1
    <3> QED  BY <3>1, <3>2, <3>3
  <2>4. CASE Environment
    <3>1. ASSUME NEW d \in Controllers, Unplug(d) PROVE StaysGone(c)
      BY <2>1, <3>1 DEF Unplug
    <3>2. CASE Sigterm \/ \E d \in Controllers : Plug(d)
      BY <3>2 DEF Sigterm, Plug, scanvars
    <3> QED  BY <2>4, <3>1, <3>2 DEF Environment
  <2>5. CASE Exited
    BY <2>5 DEF Exited, vars, scanvars
  <2> QED  BY <2>2, <2>3, <2>4, <2>5 DEF Next
<1> QED  BY <1>1, Invariance, PTL DEF Spec, GoneStaysGone, StaysGone

-----------------------------------------------------------------------------
Ident == [c \in Controllers |-> IF c \in Constructed THEN id[c] ELSE Size]

LEMMA RefinesInit == Init => Abs!RegistryInit
<1> SUFFICES ASSUME Init PROVE Abs!RegistryInit
  OBVIOUS
<1>1. Constructed = {} /\ devices = {}
  BY DEF Init, ScannerInit, Constructed, UnderConstruction
<1> QED  BY <1>1 DEF Abs!RegistryInit, Abs!Unborn

LEMMA RefinesStep == IInv /\ [Next]_vars => [Abs!RegistryNext]_Abs!regvars
<1> SUFFICES ASSUME IInv, [Next]_vars
             PROVE  Abs!RegistryNext \/ UNCHANGED <<Ident, devices>>
  BY DEF Abs!regvars, Ident
<1> USE SizeAssumption DEF IInv, TypeOK, ScannerTypeOK, CoreTypeOK
<1>1. Constructed \subseteq Controllers /\ devices \cup found \subseteq Constructed
  BY NoControllerAssumption DEF Constructed, UnderConstruction
<1>2. Size \notin Ids
  BY DEF Ids
<1>3. CASE Moves
  <2>1. Ident' = Ident
    BY <1>3 DEF Moves, Ident
  <2>2. CASE devices' = devices
    BY <2>1, <2>2
  <2>3. CASE devices' = devices \cup found
    <3>1. found \subseteq {c \in Controllers : Ident[c] # Size}
      BY <1>1, <1>2 DEF Ident
    <3>2. Abs!Serve(found)
      BY <2>1, <2>3, <3>1 DEF Abs!Serve, Abs!Admitted, Abs!Unborn, Ident
    <3> QED  BY <3>2 DEF Abs!RegistryNext
  <2> QED  BY <1>3, <2>2, <2>3 DEF Moves
<1>4. ASSUME NEW c \in Controllers, NEW i \in Ids, Admits(c, i)
      PROVE  Abs!RegistryNext
  <2>1. Ident[c] = Size /\ Ident' = [Ident EXCEPT ![c] = i]
    BY <1>1, <1>4 DEF Admits, Ident
  <2>2. ASSUME i # 0, NEW d \in Controllers  PROVE Ident[d] # i
    <3>1. i \in Indices \ taken["wiimote"]
      BY <1>4, <2>2 DEF Admits
    <3> QED  BY <1>2, <2>2, <3>1 DEF Ident, HeldIdsTaken, Ids
  <2>3. Abs!Admit(c, i)
    BY <1>4, <2>1, <2>2 DEF Abs!Admit, Abs!Unborn, Ident, Admits
  <2> QED  BY <2>3 DEF Abs!RegistryNext, Abs!Ids, Ids
<1>5. ASSUME NEW c \in Controllers, Destroys(c)
      PROVE  Abs!RegistryNext
  <2>1. Ident[c] # Size /\ Ident' = [Ident EXCEPT ![c] = Size]
    BY <1>1, <1>2, <1>5 DEF Destroys, Destroy, Ident
  <2>2. Abs!Retire(c)
    BY <1>5, <2>1 DEF Abs!Retire, Abs!Unborn, Ident, Destroys
  <2> QED  BY <2>2 DEF Abs!RegistryNext
<1> QED  BY <1>3, <1>4, <1>5, EveryLifeStep DEF LifeStep

\* The scanner thread and the main thread, in every interleaving, implement
\* the registry: unused ids at admission, service after it, one retirement.
THEOREM CoreImplementsRegistry == Spec => ImplementsRegistry
<1>1. Init => Abs!RegistryInit  BY RefinesInit
<1>2. IInv /\ [Next]_vars => [Abs!RegistryNext]_Abs!regvars  BY RefinesStep
<1> QED
  BY <1>1, <1>2, Invariance, PTL DEF Spec, ImplementsRegistry, Abs!RegistrySpec

\* What every implementation of the registry inherits, the two threads with it:
\* admission refuses an id another controller holds and nothing else changes
\* ids, so that a D-Bus client's id means one controller (0 apart); only
\* admitted controllers are served.
THEOREM RegistryIsSafe ==
    Abs!RegistrySpec => [](Abs!RegistryTypeOK /\ Abs!DistinctIdents)
<1> DEFINE Inv == Abs!RegistryTypeOK /\ Abs!DistinctIdents
<1> USE DEF Abs!RegistryTypeOK, Abs!DistinctIdents, Abs!Admitted, Abs!Ids, Abs!Unborn
<1>1. Abs!RegistryInit => Inv
  BY DEF Abs!RegistryInit
<1>2. Inv /\ [Abs!RegistryNext]_Abs!regvars => Inv'
  <2> SUFFICES ASSUME Inv, [Abs!RegistryNext]_Abs!regvars
               PROVE  Inv'
    OBVIOUS
  <2>1. ASSUME NEW c \in Controllers, NEW i \in Abs!Ids, Abs!Admit(c, i)
        PROVE  Inv'
    <3>1. Ident' \in [Controllers -> Abs!Ids \cup {Abs!Unborn}]
      BY <2>1 DEF Abs!Admit, Ident
    <3>2. \A d \in Controllers : Ident'[d] = IF d = c THEN i ELSE Ident[d]
      BY <2>1 DEF Abs!Admit, Ident
    <3> QED  BY <2>1, <3>1, <3>2 DEF Abs!Admit, Ident
  <2>2. ASSUME NEW S \in SUBSET Controllers, Abs!Serve(S)  PROVE Inv'
    BY <2>2 DEF Abs!Serve
  <2>3. ASSUME NEW c \in Controllers, Abs!Retire(c)  PROVE Inv'
    <3>1. Ident' \in [Controllers -> Abs!Ids \cup {Abs!Unborn}]
      BY <2>3 DEF Abs!Retire, Ident
    <3>2. \A d \in Controllers : Ident'[d] = IF d = c THEN Size ELSE Ident[d]
      BY <2>3 DEF Abs!Retire, Ident
    <3> QED  BY <2>3, <3>1, <3>2 DEF Abs!Retire, Ident
  <2>4. CASE UNCHANGED Abs!regvars
    BY <2>4 DEF Abs!regvars
  <2> QED  BY <2>1, <2>2, <2>3, <2>4 DEF Abs!RegistryNext
<1> HIDE DEF Inv
<1> QED  BY <1>1, <1>2, PTL DEF Abs!RegistrySpec, Inv

-----------------------------------------------------------------------------
(* When type() answers the same at both ends.                              *)

WiimotesOnly == PlugKinds \subseteq {"wiimote"}
EnoughIds ==
    WiimotesOnly /\ IsFiniteSet(Controllers) /\ Cardinality(Controllers) < Size

\* An index is marked when its controller is constructed, and unmarked by the
\* destructor of this controller only, as no other carries it.
LEMMA MarksStep ==
    ASSUME IInv, WiimotesOnly, NoIdLost, [Next]_vars
    PROVE  NoIdLost'
<1> USE DEF IInv, TypeOK, ScannerTypeOK, CoreTypeOK, Kinds, NoIdLost
<1>1. Constructed \subseteq Controllers
  BY NoControllerAssumption DEF Constructed, UnderConstruction
<1>2. CASE Moves
  BY <1>2 DEF Moves
<1>3. ASSUME NEW c \in Controllers, NEW i \in Ids, Admits(c, i)
      PROVE  NoIdLost'
  <2>1. id'[c] = i /\ \A d \in Constructed : id'[d] = id[d]
    BY <1>1, <1>3 DEF Admits
  <2>2. taken'["wiimote"] = taken["wiimote"] \cup ({i} \ {0})
    BY <1>3, SizeAssumption DEF Admits, Mark, Indices
  <2>3. Constructed' = Constructed \cup {c}
    BY <1>3 DEF Admits
  <2> QED  BY <2>1, <2>2, <2>3
<1>4. ASSUME NEW c \in Controllers, Destroys(c)
      PROVE  NoIdLost'
  <2>1. \A d \in Constructed' : id'[d] = id[d]
    BY <1>1, <1>4 DEF Destroys, Destroy
  <2>2. taken'["wiimote"] = taken["wiimote"] \ {id[c]}
    BY <1>4 DEF Destroys, Destroy, Release, ReleaseKinds, WiimotesOnly
  <2>3. Constructed' = Constructed \ {c} /\ c \in Constructed
    BY <1>4 DEF Destroys
  <2> QED  BY <2>1, <2>2, <2>3 DEF UniqueIds
<1> QED  BY <1>2, <1>3, <1>4, EveryLifeStep DEF LifeStep

\* No id is lost over any number of connections, failed ones included.
THEOREM NoIdIsLost == Spec => [](WiimotesOnly => NoIdLost)
<1>1. Init => NoIdLost
  BY DEF Init, ScannerInit, NoIdLost, Constructed, UnderConstruction, Kinds
<1>2. IInv /\ (WiimotesOnly => NoIdLost) /\ [Next]_vars => (WiimotesOnly => NoIdLost)'
  BY MarksStep DEF WiimotesOnly
<1> QED  BY <1>1, <1>2, Invariance, PTL DEF Spec

\* The indices that are marked or that reserve() has passed are fewer than
\* the remotes: the one under construction has no id, and marks that are
\* cleared behind the index were there when reserve() began.
Offered == taken["wiimote"] \cup 1 .. sidx - 1
ScanBound ==
    /\ spc # "reserve" => sidx = 1
    /\ spc = "reserve" => Cardinality(Offered) < Cardinality(Controllers)

\* The marks are no more than the controllers that may carry them.
LEMMA MarksAreFew ==
    ASSUME TypeOK, NoIdLost, IsFiniteSet(Controllers), NEW c \in Controllers,
           Constructed \subseteq Controllers \ {c}
    PROVE  /\ IsFiniteSet(taken["wiimote"])
           /\ Cardinality(taken["wiimote"]) < Cardinality(Controllers)
<1> DEFINE S == Controllers \ {c}
           I == {id[d] : d \in S}
<1>1. /\ IsFiniteSet(S) /\ Cardinality(S) \in Nat
      /\ Cardinality(S) = Cardinality(Controllers) - 1
      /\ Cardinality(Controllers) \in Nat
  BY FS_RemoveElement, FS_CardinalityType
<1>2. IsFiniteSet(I) /\ Cardinality(I) <= Cardinality(S)
  <2> DEFINE f == [d \in S |-> id[d]]
  <2>1. f \in Surjection(S, I)
    BY Fun_IsSurj
  <2> QED  BY <1>1, <2>1, FS_Surjection
<1>3. taken["wiimote"] \subseteq I
  BY DEF NoIdLost
<1>4. /\ IsFiniteSet(taken["wiimote"])
      /\ Cardinality(taken["wiimote"]) <= Cardinality(I)
      /\ Cardinality(taken["wiimote"]) \in Nat /\ Cardinality(I) \in Nat
  BY <1>2, <1>3, FS_Subset, FS_CardinalityType
<1> QED  BY <1>1, <1>2, <1>4

LEMMA OfferedIsFinite ==
    ASSUME TypeOK
    PROVE  /\ IsFiniteSet(Offered) /\ Cardinality(Offered) \in Nat
           /\ sidx = Size => Cardinality(Offered) = Size - 1
<1> USE SizeAssumption DEF TypeOK, ScannerTypeOK, Indices
<1>1. taken["wiimote"] \subseteq Indices
  BY DEF Kinds
<1>2. Offered \subseteq Indices /\ (sidx = Size => Offered = Indices)
  BY <1>1 DEF Offered
<1>3. IsFiniteSet(Indices) /\ Cardinality(Indices) = Size - 1
  <2>1. 1 \in Int /\ Size - 1 \in Int
    OBVIOUS
  <2>2. /\ IsFiniteSet(1 .. Size - 1)
        /\ Cardinality(1 .. Size - 1) = IF 1 > Size - 1 THEN 0 ELSE Size - 1 - 1 + 1
    BY <2>1, FS_Interval
  <2> QED  BY <2>2
<1> QED  BY <1>2, <1>3, FS_Subset, FS_CardinalityType

LEMMA ScanStep ==
    ASSUME IInv, EnoughIds, NoIdLost, ScanBound, [Next]_vars
    PROVE  ScanBound'
<1> USE SizeAssumption, NoControllerAssumption
    DEF IInv, TypeOK, ScannerTypeOK, CoreTypeOK, ScanBound
<1>0. IsFiniteSet(Controllers) /\ Cardinality(Controllers) \in Nat
  BY FS_CardinalityType DEF EnoughIds
<1>1. CASE Scanner
  <2>1. CASE Interrupted  BY <2>1 DEF Interrupted
  <2>2. CASE Dequeue
    <3>1. sdev' \in Queued /\ sdev' \in Controllers
      <4>1. monitor \in Seq(Controllers) /\ monitor # <<>> /\ sdev' = Head(monitor)
        BY <2>2 DEF Dequeue
      <4>2. Len(monitor) >= 1 /\ Len(monitor) \in Nat /\ Head(monitor) = monitor[1]
            /\ Head(monitor) \in Controllers
        BY <4>1, HeadTailProperties
      <4> QED  BY <4>1, <4>2 DEF Queued
    <3>2. Constructed \subseteq Controllers \ {sdev'}
      BY <3>1 DEF OnePlace, Constructed, UnderConstruction
    <3>3. Cardinality(taken["wiimote"]) < Cardinality(Controllers)
      BY <1>0, <3>1, <3>2, MarksAreFew
    <3>4. sidx' = 1 /\ taken' = taken /\ spc' = "reserve"
      BY <2>2 DEF Dequeue
    <3>5. Offered' = taken["wiimote"]
      BY <3>4 DEF Offered
    <3> QED  BY <3>3, <3>4, <3>5
  <2>3. CASE SkipTaken
    <3>1. Offered' = Offered
      BY <2>3 DEF SkipTaken, Offered
    <3> QED  BY <2>3, <3>1 DEF SkipTaken
  <2>4. CASE TakeFree  BY <2>4 DEF TakeFree
  <2>5. CASE NoneFree  BY <2>5 DEF NoneFree
  <2>6. CASE OpenInterface(sdev \in plugged)  BY <2>6 DEF OpenInterface
  <2>7. CASE WatchEvents  BY <2>7 DEF WatchEvents
  <2>8. CASE LockFound  BY <2>8 DEF LockFound
  <2>9. CASE PushFound  BY <2>9 DEF PushFound
  <2>10. CASE CountFound  BY <2>10 DEF CountFound
  <2> QED
    BY <1>1, <2>1, <2>2, <2>3, <2>4, <2>5, <2>6,
        <2>7, <2>8, <2>9, <2>10 DEF Scanner
<1>2. ASSUME spc' = spc, sidx' = sidx, taken'["wiimote"] \subseteq taken["wiimote"]
      PROVE  ScanBound'
  <2>1. Offered' \subseteq Offered
    BY <1>2 DEF Offered
  <2>2. Cardinality(Offered') <= Cardinality(Offered) /\ Cardinality(Offered') \in Nat
        /\ Cardinality(Offered) \in Nat
    BY <2>1, OfferedIsFinite, FS_Subset, FS_CardinalityType
  <2> QED  BY <1>0, <1>2, <2>2
<1>3. CASE MainThread
  <2>1. spc' = spc /\ sidx' = sidx
    BY <1>3 DEF MainThread, Tick, LockMerge, MergeFound, ZeroCount, SweepInvalid, SweepDone,
       ProcessDevice, EndTick, DestroyDevice, DevicesDestroyed, DestroyFound,
       FoundDestroyed, Join, scanvars
  <2>2. taken' = taken \/ \E c \in Controllers : Release(c)
    BY <1>3 DEF MainThread, Tick, LockMerge, MergeFound, ZeroCount, SweepInvalid, SweepDone,
       ProcessDevice, EndTick, DestroyDevice, DevicesDestroyed, DestroyFound,
       FoundDestroyed, Join, scanvars, Destroy
  <2>3. taken'["wiimote"] \subseteq taken["wiimote"]
    BY <2>2 DEF Release, Kinds
  <2> QED  BY <1>2, <2>1, <2>3
<1>4. CASE Environment
  BY <1>2, <1>4 DEF Environment, Plug, Unplug, Sigterm, scanvars
<1>5. CASE UNCHANGED vars  BY <1>2, <1>5 DEF vars, scanvars
<1> QED  BY <1>1, <1>3, <1>4, <1>5 DEF Next, Exited

\* reserve() never runs out of indices, so that no controller gets id 0.
LEMMA EveryoneStep ==
    ASSUME IInv, EnoughIds, ScanBound, EveryoneGetsAnId, [Next]_vars
    PROVE  EveryoneGetsAnId'
<1> USE DEF IInv, TypeOK, ScannerTypeOK, CoreTypeOK, EveryoneGetsAnId
<1>1. Constructed \subseteq Controllers
  BY NoControllerAssumption DEF Constructed, UnderConstruction
<1>2. ~NoneFree
  <2> SUFFICES ASSUME NoneFree PROVE FALSE
    OBVIOUS
  <2>1. sidx = Size /\ Cardinality(Offered) < Cardinality(Controllers)
    BY DEF NoneFree, ScanBound
  <2>2. Cardinality(Offered) = Size - 1
    BY <2>1, OfferedIsFinite
  <2>3. Cardinality(Controllers) \in Nat /\ Cardinality(Controllers) < Size
    BY FS_CardinalityType DEF EnoughIds
  <2> QED  BY <2>1, <2>2, <2>3, SizeAssumption
<1>3. CASE Moves
  BY <1>3 DEF Moves
<1>4. ASSUME NEW c \in Controllers, NEW i \in Ids, Admits(c, i)
      PROVE  EveryoneGetsAnId'
  <2>1. id'[c] = i /\ i # 0 /\ \A d \in Constructed : id'[d] = id[d]
    BY <1>1, <1>2, <1>4, SizeAssumption DEF Admits, Indices
  <2> QED  BY <1>4, <2>1 DEF Admits
<1>5. ASSUME NEW c \in Controllers, Destroys(c)
      PROVE  EveryoneGetsAnId'
  <2>1. \A d \in Constructed' : id'[d] = id[d]
    BY <1>1, <1>5 DEF Destroys, Destroy
  <2> QED  BY <1>5, <2>1 DEF Destroys
<1> QED  BY <1>3, <1>4, <1>5, EveryLifeStep DEF LifeStep

\* With no more remotes than ids, none of them boards or pro controllers, every
\* controller has an id of its own for as long as it exists.
THEOREM EveryoneHasAnId == Spec => [](EnoughIds => EveryoneGetsAnId)
<1> DEFINE Inv == EnoughIds => ScanBound /\ EveryoneGetsAnId
<1>1. Init => Inv
  BY DEF Init, ScannerInit, ScanBound, EveryoneGetsAnId, Constructed, UnderConstruction
<1>2. IInv /\ (WiimotesOnly => NoIdLost) /\ Inv /\ [Next]_vars => Inv'
  BY ScanStep, EveryoneStep DEF EnoughIds, WiimotesOnly
<1>3. Inv => (EnoughIds => EveryoneGetsAnId)
  OBVIOUS
<1> HIDE DEF Inv
<1> QED  BY <1>1, <1>2, <1>3, Invariance, NoIdIsLost, PTL DEF Spec

-----------------------------------------------------------------------------
(* D-Bus commands reach the remote that has the id now.                    *)

\* The main thread still serves commands.
Serving == cpc \notin {"destroyDevices", "destroyFound", "join", "exited"}

\* Only controllers of the core's list rumble, under an id of their own, and
\* clients believe exactly what those hold that are still connected.
RumbleInv ==
    /\ \A c \in Controllers : rumble[c] => c \in devices /\ id[c] \in Indices
    /\ Serving =>
         /\ \A c \in devices : rumble[c] /\ connected[c] => believed[id[c]]
         /\ \A i \in Indices : believed[i] =>
              \E c \in devices : id[c] = i /\ connected[c] /\ rumble[c]

\* An interface that can be written to belongs to a connected controller.
LinkInv ==
    /\ \A c \in Controllers : link[c] = "watched" => connected[c]
    /\ spc = "watch" => link[sdev] # "watched"

CommandInv == IInv /\ LinkInv /\ CommandsTypeOK /\ RumbleInv

-----------------------------------------------------------------------------
\* What a step of either thread may do to a controller of the core's list: it
\* stays under its id, or it was not connected and is destroyed, or the daemon
\* ends; and it never becomes connected again.
DeviceKept ==
    /\ \A c \in devices : c \in Constructed' =>
         /\ c \in devices'
         /\ id'[c] = id[c]
         /\ connected'[c] => connected[c]
    /\ Serving' =>
         /\ Serving
         /\ \A c \in devices : connected[c] => c \in devices'

\* The list stays as it is, and so do the ids and what is connected.
LEMMA SameDevices ==
    ASSUME UNCHANGED <<devices, id, connected>>, Serving' => Serving
    PROVE  DeviceKept
BY DEF DeviceKept

\* A step that takes a controller from the core's list destroys it.
LEMMA DeviceDestroyed ==
    ASSUME TypeOK, OnePlace, NEW c \in devices,
           Destroy(c), devices' = devices \ {c},
           UNCHANGED <<found, leaked, sdev, spc, cpc>>,
           Serving => ~connected[c]
    PROVE  DeviceKept
<1> USE DEF TypeOK, ScannerTypeOK, CoreTypeOK
<1>1. c \notin Constructed'
  BY DEF Constructed, UnderConstruction, OnePlace
<1>2. \A d \in devices : d # c => id'[d] = id[d] /\ connected'[d] = connected[d]
  BY DEF Destroy
<1> QED  BY <1>1, <1>2 DEF DeviceKept, Serving

LEMMA DeviceStep == ASSUME IInv, [Next]_vars PROVE DeviceKept
<1> USE DEF IInv, TypeOK, ScannerTypeOK, CoreTypeOK
<1>1. CASE Scanner
  <2> USE <1>1 DEF Scanner, corevars
  <2>1. /\ sdev \notin devices
        /\ UNCHANGED <<devices, cpc>>
    BY DEF OnePlace
  <2>2. Serving' => Serving
    BY <2>1 DEF Serving
  <2>3. ASSUME \A c \in devices : id'[c] = id[c] /\ connected'[c] = connected[c]
        PROVE  DeviceKept
    BY <2>1, <2>2, <2>3 DEF DeviceKept
  <2>4. \A c \in devices : id'[c] = id[c]
    BY <2>1 DEF Interrupted, Dequeue, SkipTaken, TakeFree, NoneFree,
                OpenInterface, WatchEvents, LockFound, PushFound, CountFound
  <2>5. \A c \in devices : connected'[c] = connected[c]
    <3>1. CASE WatchEvents
      <4>1. PICK ok \in BOOLEAN : connected' = [connected EXCEPT ![sdev] = ok]
        BY <3>1 DEF WatchEvents
      <4> QED  BY <4>1, <2>1
    <3>2. CASE UNCHANGED connected
      BY <3>2
    <3> QED
      BY <3>1, <3>2 DEF Interrupted, Dequeue, SkipTaken, TakeFree, NoneFree,
                        OpenInterface, LockFound, PushFound, CountFound
  <2> QED  BY <2>3, <2>4, <2>5
<1>2. CASE MainThread
  <2>1. CASE Tick
    BY <2>1, SameDevices DEF Tick, scanvars, Serving
  <2>2. CASE LockMerge
    BY <2>2, SameDevices DEF LockMerge, Serving
  <2>3. CASE MergeFound
    BY <2>3 DEF MergeFound, DeviceKept, Serving
  <2>4. CASE ZeroCount
    BY <2>4, SameDevices DEF ZeroCount, Serving
  <2>5. ASSUME NEW c \in Controllers, SweepInvalid(c) PROVE DeviceKept
    BY <2>5, DeviceDestroyed DEF SweepInvalid
  <2>6. CASE SweepDone
    BY <2>6, SameDevices DEF SweepDone, scanvars, Serving
  <2>7. ASSUME NEW c \in Controllers, ProcessDevice(c) PROVE DeviceKept
    BY <2>7 DEF ProcessDevice, DeviceKept, Serving
  <2>8. CASE EndTick
    BY <2>8, SameDevices DEF EndTick, scanvars, Serving
  <2>9. ASSUME NEW c \in Controllers, DestroyDevice(c) PROVE DeviceKept
    BY <2>9, DeviceDestroyed DEF DestroyDevice, Serving
  <2>10. CASE DevicesDestroyed
    BY <2>10, SameDevices DEF DevicesDestroyed, scanvars, Serving
  <2>11. ASSUME NEW c \in Controllers, DestroyFound(c) PROVE DeviceKept
    <3>1. devices = {} /\ cpc' = cpc /\ cpc = "destroyFound"
      BY <2>11 DEF DestroyFound, Lifetimes
    <3> QED  BY <3>1 DEF DeviceKept, Serving
  <2>12. CASE FoundDestroyed
    BY <2>12, SameDevices DEF FoundDestroyed, Serving
  <2>13. CASE Join
    BY <2>13, SameDevices DEF Join, scanvars, Serving
  <2> QED  BY <1>2, <2>1, <2>2, <2>3, <2>4, <2>5, <2>6, <2>7, <2>8, <2>9,
              <2>10, <2>11, <2>12, <2>13 DEF MainThread
<1>3. CASE Environment
  <2>1. UNCHANGED <<devices, id, connected, cpc>>
    BY <1>3 DEF Environment, Plug, Unplug, Sigterm, scanvars
  <2> QED  BY <2>1, SameDevices DEF Serving
<1>4. CASE UNCHANGED vars
  BY <1>4, SameDevices DEF vars, scanvars, corevars, Serving
<1> QED  BY <1>1, <1>2, <1>3, <1>4 DEF Next, Exited

-----------------------------------------------------------------------------
LEMMA LinkStep == ASSUME IInv, LinkInv, [Next]_vars PROVE LinkInv'
<1> USE DEF IInv, TypeOK, ScannerTypeOK, CoreTypeOK
<1>1. CASE Scanner
  <2>1. CASE WatchEvents
    <3>1. sdev \in Controllers
      BY <2>1 DEF WatchEvents, SdevShape
    <3>2. PICK ok \in BOOLEAN :
             /\ link' = [link EXCEPT ![sdev] = IF ok THEN "watched" ELSE link[sdev]]
             /\ connected' = [connected EXCEPT ![sdev] = ok]
      BY <2>1 DEF WatchEvents
    <3>3. spc' = "led" /\ link[sdev] # "watched"
      BY <2>1 DEF WatchEvents, LinkInv
    <3> QED  BY <3>1, <3>2, <3>3 DEF LinkInv
  <2>2. CASE OpenInterface(sdev \in plugged)
    <3>1. sdev \in Controllers
      BY <2>2 DEF OpenInterface, SdevShape
    <3>2. \E s \in {"open", "closed"} : link' = [link EXCEPT ![sdev] = s]
      BY <2>2 DEF OpenInterface
    <3>3. connected' = connected /\ sdev' = sdev
      BY <2>2 DEF OpenInterface
    <3> QED  BY <3>1, <3>2, <3>3 DEF LinkInv
  <2>3. CASE UNCHANGED <<link, connected>> /\ spc' # "watch"
    BY <2>3 DEF LinkInv
  <2> QED
    BY <1>1, <2>1, <2>2, <2>3 DEF Scanner, Interrupted, Dequeue, SkipTaken,
       TakeFree, NoneFree, LockFound, PushFound, CountFound
<1>2. ASSUME NEW c \in Controllers, Destroy(c), UNCHANGED <<spc, sdev>>
      PROVE  LinkInv'
  BY <1>2 DEF Destroy, LinkInv
<1>3. ASSUME UNCHANGED <<link, connected, spc, sdev>>  PROVE LinkInv'
  BY <1>3 DEF LinkInv
<1>4. CASE MainThread
  <2>1. ASSUME NEW c \in Controllers, ProcessDevice(c)  PROVE LinkInv'
    BY <2>1 DEF ProcessDevice, LinkInv
  <2>2. ASSUME NEW c \in Controllers,
               SweepInvalid(c) \/ DestroyDevice(c) \/ DestroyFound(c)
        PROVE  LinkInv'
    BY <2>2, <1>2 DEF SweepInvalid, DestroyDevice, DestroyFound
  <2> QED
    BY <1>3, <1>4, <2>1, <2>2 DEF MainThread, Tick, LockMerge, MergeFound,
       ZeroCount, SweepDone, EndTick, DevicesDestroyed, FoundDestroyed, Join,
       scanvars
<1>5. CASE Environment
  <2>1. ASSUME NEW c \in Controllers, Unplug(c)  PROVE LinkInv'
    BY <2>1 DEF Unplug, LinkInv
  <2>2. ASSUME NEW c \in Controllers, Plug(c)  PROVE LinkInv'
    BY <2>2, <1>3 DEF Plug
  <2> QED  BY <1>3, <1>5, <2>1, <2>2 DEF Environment, Sigterm, scanvars
<1>6. CASE UNCHANGED vars
  BY <1>3, <1>6 DEF vars, scanvars
<1> QED  BY <1>1, <1>3, <1>4, <1>5, <1>6 DEF Next, Exited, vars, scanvars

LEMMA CommandInitInvariant == CommandInit => CommandInv
<1> SUFFICES ASSUME CommandInit PROVE CommandInv
  OBVIOUS
<1>1. IInv
  BY InitInvariant DEF CommandInit
<1>2. CommandsTypeOK
  BY DEF CommandInit, CommandsTypeOK
<1>3. /\ \A c \in Controllers : ~rumble[c]
      /\ \A i \in Indices : ~believed[i]
      /\ devices \subseteq Controllers
  BY <1>1 DEF CommandInit, IInv, TypeOK, CoreTypeOK
<1>4. LinkInv
  BY DEF CommandInit, Init, ScannerInit, LinkInv
<1> QED  BY <1>1, <1>2, <1>3, <1>4 DEF CommandInv, RumbleInv

\* A step of the daemon: flags follow their controllers, beliefs go with the
\* connection.
LEMMA ProceedStep ==
    ASSUME CommandInv, Proceed
    PROVE  CommandsTypeOK' /\ RumbleInv'
<1> USE DEF CommandInv, CommandsTypeOK, IInv, TypeOK, ScannerTypeOK, CoreTypeOK
<1> DEFINE Leaves(i) == \E c \in devices : id[c] = i /\ connected[c] /\ ~connected'[c]
<1>1. /\ \A c \in Controllers : rumble'[c] <=> c \in Constructed' /\ rumble[c]
      /\ \A i \in Indices : believed'[i] <=> believed[i] /\ ~Leaves(i)
      /\ CommandsTypeOK'
  BY DEF Proceed
<1>2. DeviceKept
  BY DeviceStep DEF Proceed
<1>3. \A c \in Controllers : rumble'[c] => c \in devices' /\ id'[c] \in Indices
  BY <1>1, <1>2 DEF RumbleInv, DeviceKept
<1>4. ASSUME Serving', NEW c \in devices', rumble'[c], connected'[c]
      PROVE  believed'[id'[c]]
  <2>0. c \in Controllers
    <3>1. devices' \subseteq Controllers
      BY NextInvariant DEF Proceed
    <3> QED  BY <3>1
  <2>1. /\ rumble[c] /\ c \in Constructed' /\ c \in devices /\ id[c] \in Indices
    BY <2>0, <1>1, <1>4 DEF RumbleInv
  <2>2. id'[c] = id[c] /\ connected[c] /\ Serving
    BY <2>1, <1>2, <1>4 DEF DeviceKept
  <2>3. believed[id[c]]
    BY <2>1, <2>2 DEF RumbleInv
  <2>4. ASSUME NEW d \in devices, id[d] = id[c]  PROVE d = c
    BY <2>1, <2>4 DEF UniqueIds, Constructed, Indices
  <2>5. ~Leaves(id[c])
    BY <2>4, <1>4
  <2> QED  BY <1>1, <2>1, <2>2, <2>3, <2>5
<1>5. ASSUME Serving', NEW i \in Indices, believed'[i]
      PROVE  \E c \in devices' : id'[c] = i /\ connected'[c] /\ rumble'[c]
  <2>1. believed[i] /\ ~Leaves(i) /\ Serving
    BY <1>1, <1>2, <1>5 DEF DeviceKept
  <2>2. PICK c \in devices : id[c] = i /\ connected[c] /\ rumble[c]
    BY <2>1 DEF RumbleInv
  <2>3. c \in devices' /\ c \in Constructed'
    BY <1>2, <1>5, <2>2 DEF DeviceKept, Constructed
  <2> QED  BY <1>1, <1>2, <2>1, <2>2, <2>3 DEF DeviceKept
<1> QED  BY <1>1, <1>3, <1>4, <1>5 DEF RumbleInv

\* A command: the id has one controller, whose flag and belief move together.
LEMMA SetRumbleStep ==
    ASSUME CommandInv, NEW i \in Indices, NEW on \in BOOLEAN, SetRumbleStatus(i, on)
    PROVE  CommandsTypeOK' /\ RumbleInv'
<1> USE DEF CommandInv, CommandsTypeOK, IInv, TypeOK, ScannerTypeOK, CoreTypeOK
<1>1. UNCHANGED <<devices, id, connected, cpc>>
  BY DEF SetRumbleStatus, vars, scanvars, corevars
<1>2. PICK c \in Addressed(i), ok \in BOOLEAN :
        /\ ok => link[c] = "watched"
        /\ RumbleIf(c, on, ok)
        /\ believed' = [believed EXCEPT ![i] = IF ok THEN on ELSE believed[i]]
  BY DEF SetRumbleStatus
<1>3. c \in devices /\ id[c] = i /\ c \in Controllers
  BY <1>2 DEF Addressed
<1>4. CASE ~ok
  <2>1. rumble' = rumble /\ believed' = believed
    BY <1>2, <1>3, <1>4 DEF RumbleIf
  <2> QED  BY <1>1, <2>1 DEF RumbleInv, Serving
<1>5. CASE ok
  <2>1. /\ rumble' = [rumble EXCEPT ![c] = on]
        /\ believed' = [believed EXCEPT ![i] = on]
    BY <1>2, <1>5 DEF RumbleIf
  <2>2. ASSUME NEW d \in devices, id[d] = i  PROVE d = c
    BY <1>3, <2>2 DEF UniqueIds, Constructed, Indices
  <2>3. cpc = "idle" /\ c \in devices
    BY <1>3 DEF SetRumbleStatus
  <2>4. CommandsTypeOK'
    BY <2>1
  <2>5. \A d \in Controllers : rumble'[d] => d \in devices' /\ id'[d] \in Indices
    BY <1>1, <1>3, <2>1 DEF RumbleInv
  <2>6. ASSUME NEW d \in devices, rumble'[d], connected[d]
        PROVE  believed'[id[d]]
    <3>1. CASE d = c
      BY <1>3, <2>1, <2>6, <3>1
    <3>2. CASE d # c
      <4>1. rumble[d] /\ id[d] \in Indices /\ id[d] # i
        BY <2>1, <2>2, <2>6, <3>2 DEF RumbleInv
      <4>2. believed[id[d]]
        BY <2>3, <2>6, <4>1 DEF RumbleInv, Serving
      <4> QED  BY <2>1, <4>1, <4>2
    <3> QED  BY <3>1, <3>2
  <2>7. ASSUME NEW j \in Indices, believed'[j]
        PROVE  \E d \in devices : id[d] = j /\ connected[d] /\ rumble'[d]
    <3>1. CASE j = i
      <4>1. connected[c]
        BY <1>2, <1>3, <1>5 DEF LinkInv
      <4> QED  BY <1>3, <2>1, <2>7, <3>1, <4>1
    <3>2. CASE j # i
      <4>1. PICK d \in devices : id[d] = j /\ connected[d] /\ rumble[d]
        BY <2>1, <2>3, <2>7, <3>2 DEF RumbleInv, Serving
      <4> QED  BY <1>3, <2>1, <3>2, <4>1
    <3> QED  BY <3>1, <3>2
  <2> QED  BY <1>1, <2>4, <2>5, <2>6, <2>7 DEF RumbleInv
<1> QED  BY <1>4, <1>5

LEMMA CommandNextInvariant ==
    CommandInv /\ [CommandNext]_<<vars, cmdvars>> => CommandInv'
<1> SUFFICES ASSUME CommandInv, [CommandNext]_<<vars, cmdvars>>
             PROVE  CommandInv'
  OBVIOUS
<1>1. IInv'
  <2>1. [Next]_vars
    BY DEF CommandNext, Proceed, SetRumbleStatus
  <2> QED  BY <2>1, NextInvariant DEF CommandInv
<1>2. LinkInv'
  <2>1. [Next]_vars
    BY DEF CommandNext, Proceed, SetRumbleStatus
  <2> QED  BY <2>1, LinkStep DEF CommandInv
<1>3. CommandsTypeOK' /\ RumbleInv'
  <2>1. CASE Proceed
    BY <2>1, ProceedStep
  <2>2. ASSUME NEW i \in Indices, NEW on \in BOOLEAN, SetRumbleStatus(i, on)
        PROVE  CommandsTypeOK' /\ RumbleInv'
    BY <2>2, SetRumbleStep
  <2>3. CASE UNCHANGED <<vars, cmdvars>>
    BY <2>3 DEF CommandInv, CommandsTypeOK, RumbleInv, Serving, vars, scanvars,
                corevars, cmdvars
  <2> QED  BY <2>1, <2>2, <2>3 DEF CommandNext
<1> QED  BY <1>1, <1>2, <1>3 DEF CommandInv

\* Commands change nothing that the two threads work on: whatever holds of
\* them without clients holds with them.
THEOREM CommandsKeepCore == CommandSpec => Spec
<1>1. CommandInit => Init
  BY DEF CommandInit
<1>2. [CommandNext]_<<vars, cmdvars>> => [Next]_vars
  BY DEF CommandNext, Proceed, SetRumbleStatus
<1> QED  BY <1>1, <1>2, PTL DEF CommandSpec, Spec

\* rumbleStatus answers what was last asked of the remote that has the id now,
\* in every interleaving of commands, ticks, arrivals and departures.
THEOREM RumbleAnswersHold == CommandSpec => []RumbleIsAsAnswered
<1>1. CommandInit => CommandInv
  BY CommandInitInvariant
<1>2. CommandInv /\ [CommandNext]_<<vars, cmdvars>> => CommandInv'
  BY CommandNextInvariant
<1>3. CommandInv => RumbleIsAsAnswered
  <2> SUFFICES ASSUME CommandInv, cpc = "idle", NEW i \in Indices
               PROVE  \/ Answers(i) = {believed[i]}
                      \/ \E c \in Addressed(i) : ~connected[c] /\ ~believed[i]
    BY DEF RumbleIsAsAnswered
  <2> USE DEF CommandInv, CommandsTypeOK, IInv, TypeOK, ScannerTypeOK, CoreTypeOK
  <2>1. CASE Addressed(i) = {}
    <3>1. ~believed[i]
      BY <2>1 DEF RumbleInv, Serving, Addressed
    <3> QED  BY <2>1, <3>1 DEF Answers
  <2>2. ASSUME NEW c \in Addressed(i)
        PROVE  \/ Answers(i) = {believed[i]}
               \/ ~connected[c] /\ ~believed[i]
    <3>1. c \in devices /\ id[c] = i /\ c \in Controllers
      BY DEF Addressed
    <3>2. ASSUME NEW d \in devices, id[d] = i  PROVE d = c
      BY <3>1, <3>2 DEF UniqueIds, Constructed, Indices
    <3>3. Addressed(i) = {c}
      BY <3>1, <3>2 DEF Addressed
    <3>4. Answers(i) = {rumble[c]}
      BY <3>3 DEF Answers
    <3>5. believed[i] => connected[c] /\ rumble[c]
      BY <3>2 DEF RumbleInv, Serving
    <3>6. connected[c] /\ rumble[c] => believed[i]
      BY <3>1 DEF RumbleInv, Serving
    <3>7. CASE connected[c]
      <4>1. rumble[c] = believed[i]
        BY <3>1, <3>5, <3>6, <3>7
      <4> QED  BY <3>4, <4>1
    <3>8. CASE ~connected[c]
      BY <3>5, <3>8
    <3> QED  BY <3>7, <3>8
  <2> QED  BY <2>1, <2>2
<1> QED  BY <1>1, <1>2, <1>3, PTL DEF CommandSpec
=============================================================================
