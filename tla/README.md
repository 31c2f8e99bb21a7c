# Verification of wiimotedev

wiimotedev is a user-space driver for Wii remotes.  A daemon finds remotes
through libxwiimote, numbers them, polls them from a 1 ms timer and publishes
what they do on D-Bus; `wiimotedev-io` turns these signals into virtual input
devices; a few Qt tools display them.  This directory holds TLA+ models of all
three, the configurations that check them with TLC, and theorems about them
that TLAPS checks.  Paths below are relative to the repository.

## Running

    tlc -workers 2 -config MCCommands_wiimotes.cfg MCCommands
    tlapm Core_proofs.tla

## Inventory

Sources: `daemon/` (the D-Bus service), `io/` (input emulation), `tools/`
(viewers), `common/` and `include/` (enumerations), `dbus-1/` (interfaces).

| Component | State | Operations | Talks to |
|---|---|---|---|
| scanner thread (`daemon/controllers/wiimote-scanner-thread.cpp`, `wiimote-scanner.cpp`, `daemon/api/xwiimote-manager.cpp`, `xwiimote-monitor.cpp`) | udev queue, controller under construction, list `m_devices`, `m_count`, `m_mutex` | `scan`, `process`, `connect`, `merge` | udev and libxwiimote; the core, through the list |
| id tables (`daemon/functionals/unique-id.h`, `controllers/wiimote-id-manager.cpp`) | one table of atomics per device type | `reserve`, `release` | reserved on the scanner thread, released on the main thread |
| core (`daemon/wiimotedevcore.cpp`, `main.cpp`) | `m_devices`, `m_adaptors`, `interrupted` | tick (`merge`, `remove_if`, `process`), D-Bus commands (`event`), destruction | scanner by shared list, controllers by call, adaptors by call |
| controller (`daemon/api/xwiimote-controller.cpp`) | `m_connected`, extension tables, status queue, button masks, sample windows | constructor, `process`, `reconfigureXWiimoteInterface`, LED and rumble | libxwiimote by call; the core by a batch of events |
| dispatchers (`daemon/dbus/*-dispatcher.cpp`) | the ids an adaptor lists, one cursor processor per id | `process`, `list`, commands | clients over D-Bus |
| virtual cursor (`daemon/functionals/virtual-cursor-processor.cpp`) | two tracked points, tracking score, previous cursor | `input`, `calculate` | called by its dispatcher |
| gamepads (`io/core`, `io/functionals/profile.cpp`, `io/interfaces/igamepad.cpp`, `io/emulation`) | loaded profiles, uinput descriptors, axis values | `load`, `unload`, signal handlers, `open`, `create`, `destroy`, `report` | D-Bus signals in, uinput out |
| keyboard and command actions (`io/eiokeyboard`, `io/eiomanager`) | the loaded keyboard and the commands, their `pushed` and `actived` flags, masks by remote, one event device | button slots, `loadProfile`, `unloadProfile` | D-Bus signals in (public slots; the `connect` calls are comments in this commit), uinput out |
| infrared mouse (`io/eioinfrared`) | per mouse a thread, the cursor under a mutex, `m_acc`, `m_timeout`; the manager's event device | `run` on the thread, cursor slots, start and join | as above |
| tools (`tools/`) | rows of two list models | signal handlers | D-Bus signals in, QML out |

### What is hard, and what makes a component correct

* **Scanner, ids and core.**  Two threads share three things with three
  disciplines: the list under a mutex, the counter as an atomic that is read
  outside the mutex, and the id tables as atomics without any lock.  A
  controller must be in one place only, ids must be distinct and must come
  back, nobody may be stranded in the list, and the destructors (which run in
  member order, the list before the thread that fills it) must not use the
  tables after the thread that owns them has returned.
* **Controller and dispatchers.**  Extensions come and go while data flows; a
  status is queued and delivered a loop turn later than data; the library may
  close an interface by itself; adaptors keep what they list from events
  alone.  Clients must hear of a device before its data, the listing must match
  the controller's table when a tick ends, and nothing may be listed for a
  remote that is gone.
* **Virtual cursor.**  Its visibility signals are edges computed from two
  calls; they must alternate, also over reconfiguration and departure.
* **Emulation.**  A uinput device goes through open, configure, create,
  report and destroy, each of which may fail.  Key actions share keys and may
  ask for the buttons of several remotes, and a keyboard may be replaced while
  buttons are held: no key may stay down.  Mouse threads use the event device
  of the manager that joins them, and must lose no fraction of a pixel between
  ticks.

`PROJECT.json` lists the places where each of these bites under `hazards`.

## Modules and the code

| Module | Extends | Models |
|---|---|---|
| `Registry` | | abstract: what scanner and core promise together |
| `ScannerThread` | | `scan()` and all it calls, the shared list, the id tables |
| `Core` | `ScannerThread` | the main thread's tick, SIGTERM, destruction; both threads composed |
| `CoreProperties` | `Core` | properties, inductive invariant, mapping to `Registry` |
| `Commands` | `CoreProperties` | D-Bus commands by id over both threads |
| `Controller` | | one `XWiimoteController` with its extensions |
| `Dispatchers` | `Controller` | the tick for one id and the adaptors' lists |
| `DispatcherProperties` | `Dispatchers` | what clients may rely on |
| `CursorProcessor` | | `VirtualCursorProcessor` |
| `VirtualCursor` | `Dispatchers`, `CursorProcessor` | `VirtualCursorDispatcher` fed by the events of `Controller` |
| `Samples` | | what `process()` makes of readings, keys and sticks |
| `BalanceBoard` | | the position that four sensors give |
| `Joystick` | | abstract: what a program may expect of a virtual gamepad |
| `Gamepad` | `BalanceBoard` | `ProfileManager`, `Profile`, `IGamepad`, `InputDevice` |
| `Keyboard` | | `UInputProfileManager`'s keyboards and commands, `EIORemoteKeyboard` |
| `InfraredMouse` | | `EIOInfraredMouse` threads, their start and their join |
| `ListModels` | | the viewer's two list models |
| `*_proofs` | | theorems about the module they extend |
| `MC*` | | values of the constants for TLC |

**Scanner and core.**  `spc` and `cpc` are the program counters of the two
threads; a step is at most one access to state the other thread can see, so
`reserve()` is a step per index, a locked region is a step per statement, and
`m_count` is read (`Tick`) before the lock is taken (`LockMerge`).  `taken` is
the table of atomics of each type, `found`/`count`/`mutex` the scanner's list,
counter and mutex, `devices` the core's list.  The constructor of a controller
is spread over `Dequeue`, `SkipTaken`, `TakeFree`/`NoneFree`, `OpenInterface`
and `WatchEvents`; each library call may fail, and a failed open leaves a
controller without an interface, as in the code.  `type()` is asked again by
the destructor and names any of `PlugKinds` then.  `DestroyDevice` ..
`Join` are the destructors in member order: the core's list, the scanner's
list, then the thread.  A controller that `scan()` links into the list behind
the destructor's back is in `leaked`.

**Commands.**  `SetRumbleStatus` is `WiimotedevCore::event` between two ticks:
any controller of the list with the id, as the order of the list follows
addresses.  `rumble` is `m_rumbleStatus`; `believed` is a history variable,
what a client that saw all answers and all disconnections must hold.  LED
commands find their controller in the same way and change nothing in the
daemon.  `setLedStatus` returns the library's error code as a Boolean, that is
true on failure (xwiimote-controller.cpp:528), unlike `setRumbleStatus`.

**Controller and dispatchers.**  `hw`, `present`, `watchPending`, `goneSent`
and `opened` are libxwiimote and the remote; `table` is the extension table,
`queue` the queued statuses, `ret` the batch that `process()` returns.
`TakeData`, `TakeWatch`, `TakeGone` and `NothingMore` are one turn of the loop
of `process()`: the queue is drained, one library event is taken.  `Dispatch`
hands the first event of the batch to all adaptors, and `listed` is the set of
adaptors whose `list()` contains the id.

**Virtual cursor.**  `CursorProcess` is `VirtualCursorDispatcher::process` for
the event that `Dispatch` delivers.  The two tracked points lie on one axis,
rolls are 0 or 180 degrees.

**Samples.**  A reading is its number, a result the sequence of readings that
went into it: `probes` and `scores` are the two windows of
`accel_state_cache`, `calibrating`, `result` and `turned` those of the
gyroscope, `mask` is `m_buttons`, `stick` the last stick event.  `Push` is the
code's append, rotate and cut, which turns the wrong way round.

**Gamepads.**  `calls` is the sequence of calls that the running handler still
has to make and `phase` how far the first of them is, so that every call into
the kernel is a step and may fail.  `profiles` are the loaded profiles, `gamepads` the
gamepads of all of them in the order in which an iterator meets them, and
`Kept` the iteration over those a signal is for.  `fd`, `created` and `frame`
belong to an `InputDevice`; `view` is what readers of the event device have
seen.

**Keyboard.**  `keyboard`, `buttons` and `pushed` are the one keyboard that is
loaded, its masks and the flags of its actions; `commands`, `actived` and
`lastButtons` those of the commands; `created` and `down` the event device.
Slots are handled on one thread, so `pc`, `i` and `j` are where its loops over
actions and their keys stand, and every `Report` to the device is a step that
may fail.  `FreeKey` is the destructor of a keyboard, at one key.  `ran`,
`seen` and `before` are history: what the last signal ran, and the masks it
was run for.

**Mice.**  `thread` is where the thread of a mouse stands: `Tick` is a round of
`run()` up to what it writes, and its three reports are steps of their own,
between which other mice may write, the cursor may move and the main thread may
`Interrupt` it.  `Join` is the `wait()` of the destructor.  Positions are
integers in units of 1 / `Scale` pixel, `Pixels` truncates them as the cast
does, and `acc` keeps what it cuts off.  `Boost` is what acceleration adds at a
place.  `error` is a history variable: how far the pointer is from where the
cursor has led it.

**Viewer.**  `points`/`pcount` and `cursors`/`ccount` are the rows and
`m_count` of the two models, `pview`/`cview` the delegates of Qt's views.
Pointers into the vector that a later append has moved are modelled by
choosing which writes are lost.

## Runs

| Run | Instance | Shows |
|---|---|---|
| `core_wiimotes` | 2 controllers, ids 1 and 2, wiimotes, rumble commands, fair | places, ids, hand-over, lifetimes, refinement of `Registry`; no id is lost and everybody gets one; a command reaches the remote that has the id; announced remotes are served, gone ones retired, SIGTERM ends the daemon |
| `core_boards` | boards only | *violated*: boards exhaust the ids and two of them share id 0 |
| `remote_events` | wiimote, classic controller, MotionPlus; 1 datum and 2 changes per `process()` | lists follow the table, data follows its connection, departures are reported, liveness of both |
| `remote_gone` | as above, 1 change | *violated*: a remote that left stays in the extension's list |
| `remote_nunchuk` | wiimote, nunchuk | *violated*: a nunchuk is never listed |
| `cursor_track` | wiimote, MotionPlus; pixels 0 to 2; stable after 1 sample | the processor goes with its remote, gone cursors are hidden, the pair stays in the frame |
| `cursor_signals` | pixels 0 and 1 | *violated*: a cursor found again is not announced |
| `samples` | windows of 3, 2 and 2; sticks of 7; 6 readings | which readings count, how often, and ranges of sticks |
| `gamepad` | 4 profiles of one gamepad, 2 loaded at a time | nothing leaks, gamepads show their remote, readers see whole frames |
| `keyboard` | 2 remotes with 2 buttons, 2 keys and a wheel, 3 profiles | no key is left down, keys are down as long as they are held, commands run once when they become true |
| `mouse` | a plain and an accelerated mouse of one remote, half pixels | threads end before what they use, the pointer follows the cursor, comes to rest when it is lost, and unloading ends |
| `viewer` | 2 remotes, 2 frames | rows hold the last signal, delegates show their rows |

### Why the bounds are enough

* Two controllers and two ids give every conflict of two: one under
  construction while the other is served, swept or destroyed, both in the
  list, all ids taken, and (in `core_boards`) leaked.  A third
  controller repeats what the second does, and the theorems hold for any number
  of controllers, boards among them.
* Two changes in one batch of `process()` are what it takes to have a status
  queued while the next reconfiguration is decided.  Three devices cover an
  adaptor of its own (classic controller), one shared by two devices (wiimote
  and MotionPlus), and two statuses in one reconfiguration.
* On an axis of three pixels one point can be nearer to either tracked point,
  as near to both, and leave the frame; larger frames add distances only
  (`PairAlwaysFits` holds for all).
* Windows of 3 and 2 are the smallest in which the rotation can be told from
  its reverse and the boundary between filling and turning is passed twice
  within 6 readings; the theorems hold for all lengths.
* Two loads at a time allow one file loaded twice and two files that serve
  the same remote.  The lean lies outside the range, so both clamps act.
* The keyboard's profiles have what can conflict: two actions that share a
  key, an action that asks for two remotes, a wheel among keys, two groups of
  one profile, a profile without a keyboard, and commands of all three styles.
  Any of them may be loaded over any other at any moment.
* Two mice write to one event device.  The cursor jumps between the centre and
  a place that is a pixel and a half away on one axis and half a pixel to the
  right on the other, so that each tick leaves a fraction, on either side of
  the centre.  `PointerFollowsCursor` has a theorem for any scale and place.
* Two remotes in the viewer are enough for the off-by-one in the
  announcement, which needs rows that are there already.

### Fairness

`Fairness` of `Core`, with which `core_wiimotes` runs, assumes weak fairness of
both threads (the kernel schedules them; the timer keeps firing) and strong
fairness of `LockMerge`: the mutex is taken and released again and again by `scan()`, but it sleeps
250 ms between two holds, so a main thread that waits for it does get it.
Remotes, SIGTERM and library failures are never fair.  `FairSpec` of
`Dispatchers` assumes weak fairness of the main thread and strong fairness of
`ProcessReturns`: one call of `process()` takes microseconds, so remotes that
are plugged all the time cannot keep it in its loop for ever.  `Fairness` of
`InfraredMouse` assumes weak fairness of the main thread while it clears or
starts mice, and of each mouse thread; cursors and the wish to load, unload or
end are never fair.  The other modules state no liveness.

## Proofs

All proofs are checked by TLAPS for arbitrary constants under the named
assumptions of the modules (`SizeAssumption`, `NoControllerAssumption`,
`KindsAssumption`, `MonitorAssumption`, `PixelsAssumption`,
`StableScoreAssumption`, `WindowAssumption`, `StickAssumption`,
`NumbersAssumption`, `MouseGroupsAssumption`, `ConfigAssumption`,
`RemotesAssumption`, ...), which say no more than the declarations of the code
do: a window has a length, a profile is a list of groups, ids are finitely many.

**`Core_proofs`.**  `IInv` of `CoreProperties` is inductive:

* `TypeOK` and `SdevShape` (the scanner owns a controller exactly between
  `connect` and `emplace_back`) say what each step works on;
* `MutexHolders` and `Lifetimes` tie the mutex and the lists to the program
  counters; without them a push could interleave with a merge, or the list
  could be used after its destruction;
* `OnePlace` makes a merge or a sweep lose nobody;
* `HeldIdsTaken` is why ids are unique: an id that is carried is marked in the
  table of wiimotes, the only one `reserve()` looks at, and a release clears
  only the entry of the controller that carried it.  It holds although boards
  release into another table: that loses marks nowhere, it only leaves them;
* `HandoffExact` counts the list also between the push and the increment, from
  which `HandoffCounted` follows at the moments the mutex is free.

From it follow `TypeCorrect`, `IdsAreUnique`, `ControllersAreInOnePlace`,
`HandoffIsCounted` and `TablesOutliveControllers`.  `CoreImplementsRegistry`
maps `ident` to the ids of the constructed controllers and `served` to
`devices`: `TakeFree` and `NoneFree` are `Admit` (unused by `HeldIdsTaken`),
`MergeFound` is `Serve`, the destructors are `Retire`, all else stutters.
`RegistryIsSafe` shows that the registry itself never admits two controllers
under one non-zero id.

Three theorems are the part of `TermEnds` that needs no fairness.  After the
tick that called `quit()` the main thread never comes back to a place, and a
step that stays at one has fewer controllers to visit (`TheEndAdvances`, with
`EndInv`: the lists are finite); once the flag is raised each step of `scan()`
brings it nearer to its return (`TheScanReturns`); and neither waits for the
other while the other waits for it (`NobodyWaits`).  That the tick which sees
the flag comes at all, and that the threads are scheduled, is left to TLC.
Likewise `NobodyIsTurnedBack` is the part of `AnnouncedIsServed` and
`GoneRemainGone` that of `GoneIsRetired` which needs no fairness: before SIGTERM
(`StopInv`: only after it is anything destroyed that is valid) a remote only
moves on from udev's queue to the core's list, and one that is gone stays gone.

Two theorems say what is true as long as `type()` answers the same when the id
is released as when it was reserved (`WiimotesOnly`).  Then an index is marked
exactly while its controller exists (`NoIdIsLost`), and if there are at least as
many ids as remotes, everyone gets one (`EveryoneHasAnId`): by `ScanBound` the
indices that are marked or that `reserve()` has passed are fewer than the
remotes, because the one under construction has no id, and a mark cleared behind
`reserve()`'s index belonged to a remote that was there when it began.

For the commands, in the last part of the same module, `CommandInv` adds to `IInv` that only controllers of the
core's list rumble, that clients believe exactly what the connected ones hold
(`RumbleInv`), and that only a connected controller's interface can be written
to (`LinkInv`).  The step to it is `DeviceKept`: no step of either thread moves
a controller of the list to another id or drops a connected one while commands
are served.  With `UniqueIds` an id names one controller, hence
`RumbleAnswersHold`.  `CommandsKeepCore` carries every theorem about `Spec` over
to `CommandSpec`.

**`Cursor_proofs`.**  `PairInv` (one of the points is in the frame, the pair is
no longer than the frame is wide) is preserved by every frame, with any number
of points, and by re-creation; `OnePointKeepsOrder` says when a frame with one
point can turn the pair round.  For the dispatcher around the processors,
`StillAfter` says whether a processor, or a shown cursor, will be there after
the events on their way; `CursorInv` (a processor only while the table will have
a device, a shown cursor only while it will have the wiimote), with the
invariant of `Dispatchers_proofs` carried over by `CursorKeepsDispatchers`,
gives `ProcessorGoesWithRemote` and `GoneCursorsAreHidden`.

**`Samples_proofs`.**  A window is a function of the number of readings alone
(`Turned`): the newest m - n + 1 backwards, then the first ones forwards;
`PushTurns` proves that one `Push` takes `Turned` of m to that of m + 1.  With
`GyroInv` and `KeysInv` this is inductive, and the five safety properties of
`samples` follow for windows of any length and any number of readings.

**`Dispatchers_proofs`.**  What clients will be told is a function of the list
and of the events still under way, which are those of the batch and then those
of the queue (`Drained`): `ListedAfter` says that the last status of an adaptor
decides, and `ListedLater`, `ListedEarlier` and `ListedShifts` how it moves
when an event is appended, delivered or drained.  The invariant is stated with
it: every device of the table with an adaptor of its own will be listed
(`TableIsTold`), the wiimote adaptor will not list an id whose table has
neither wiimote nor MotionPlus (`WiimoteIsTold`), and before every data event
of the batch its device is listed (`DataIsAnnounced`).  `ChangesTell` is what
keeps it over a reconfiguration: the statuses of the difference of two tables
tell every device that is new and deny none that stays.  Between two ticks
nothing is under way, from which `TicksDeliver`, `DataFollows` and
`FreeIdsAreNoWiimotes` follow.

**`Keyboard_proofs`.**  `Position` says where the loops stand.  `PushedIsHeld`
(actions that the loop has passed are pushed exactly if their buttons are held),
`NoKeyStuck` (each key that is down has an action that is pushed or is about to
release it) and `HeldIsDown` (a key that only one action has is down once the
loop over its keys has passed it) are inductive together, through the
replacement of a keyboard too; `CommandsInv` says the same of the commands
before and after `i`.  Between two slots they give `NoKeyIsStuck` and
`CommandsAreRunOnce`.

**`InfraredMouse_proofs`.**  `ListInv` (a thread exists only for a mouse in the
list, which is empty when the manager is gone) gives `ThreadsDoNotOutlive`.
`ErrorIsOwed` is why the pointer follows the cursor: the pointer is off by
exactly what `m_acc` holds and what of a motion is not written yet, and
`Fraction` bounds `m_acc` by a pixel.  That `Tick` keeps it is `TickIsExact`,
which rests on `PixelsAdds`: truncation is exact for sums of a rest and a number
of whole pixels of the same sign.  `AllRun` (the mice of the list are
different ones, each with its thread) makes it inductive that the main thread
waits only for threads that were told to return (`WaitsForTold`); then `ToGo`
bounds what an unload has to do, and `UnloadTerminates` shows that every step
which works on it lowers this bound and no other raises it.

**`Gamepad_proofs`.**  The invariant follows a handler through its calls:

* `CallsOK` and `PhasesOf` say what can still be to do: the calls of a handler
  are of one kind, each gamepad is set up or deleted once, only gamepads of
  the lists get reports, and each phase belongs to one kind of call;
* `Owned` and `ListsOK` say who holds a descriptor or an event device: a gamepad
  of the lists, which is of a loaded profile or about to be deleted, or the one
  that is being set up.  Between two handlers only the first is left, hence
  `NothingLeaks`.  All other gamepads are `Fresh`;
* `FramesOK` says what the kernel holds between two SYN_REPORTs: what readers
  have seen, or as much of the new frame as the phase has written (`Pressed`,
  `Moved`, `Written`).  A report that fails closes the device in the middle of
  a frame and never shows it: `SyncIsWhole` is the step of
  `GamepadImplementsJoystick` that needs it, all others leave `view` alone,
  or add or remove a device;
* the second half of `FramesOK`, with `MasksOK`, says that a gamepad shows the
  last mask of its remote or that the report of this mask is still to come,
  which gives `MasksAreShown`.

That a signal reaches each of its gamepads is a fact about the recursive
function `Kept`.  The induction theorems of the library cannot be
instantiated here, so `NatSetInduction` derives induction over a set of numbers
from the well-foundedness of `<`, and `KeptMembers` uses it with the set of
lengths for which the fact holds.  `LeanInRange` shows that a balance board's
position needs no clamp except for its inversion, and `HatFollows` what
gamepads inherit from `Joystick`: the hat that readers see points where the
keys do.

**`ListModels_proofs`.**  No two rows are the same point or cursor
(`UniquePoints`, `UniqueCursors`), which bounds the rows by an injection into
remotes and numbers, and is also why it is enough that `getState` finds the
first match.  `Counted` says that `m_count` trails the rows before the first
signal only, so that an insertion of InfraredModel covers the new rows and one
that is there already (`InsertedRows`).  `PointsKept` (a remote that was heard
of has its four rows) is why no pointer dangles from its second frame on; with
`StoredRows` it keeps `SignalsAreStored`, with `RefreshedRows` `PointsAreShown`.
`RowsHoldFrames` says what a row may hold at all, the first frame included, in
which an append has left pointers dangling: its remote's last frame, or what it
was made with.

Only model-checked: liveness (`AnnouncedIsServed`, `GoneIsRetired`, `TermEnds`,
`AttachedIsListed`, `LeftIsDropped`, `LostPointerRests`, `UnloadEnds`), as TLAPS
proves no fairness arguments here.  Every invariant and every refinement that a
passing run checks is a theorem; so is, for `TermEnds` and `UnloadEnds`, what
bounds the number of steps, and for `AnnouncedIsServed` and `GoneIsRetired`, that
no step leads away from the end.

## Findings

1. A balance board or pro controller gives its id back to another table than
   it came from; after as many connections as there are ids, every remote has
   id 0 (`core_boards`).
2. `process_gone` reports every device as a wiimote, so the extensions' lists
   keep the ids of remotes that are gone (`remote_gone`).
3. The handlers of `NunchukDispatcher` take their arguments by non-const
   reference and are never selected (`remote_nunchuk`).
4. `calculate()` hides a copy of the previous cursor, so a cursor that is found
   again is never announced (`cursor_signals`).

Noted on the way, without a document that says otherwise: acceleration windows
turn the wrong way and drop the newest reading once before they settle
(`WindowIsRecent` says when they are right); `m_buttons` keeps the keys of an
extension that is unplugged (`TouchedIsTrue` is stated for keys used since);
the y of both sticks in the signals of the classic and pro controller is the
right stick's (classic-dispatcher.cpp:28, pro-controller-dispatcher.cpp:27);
`setLedStatus` answers the error code; `InfraredModel` keeps pointers into a
vector while it grows and announces one row twice for every further remote,
which leaves a stale delegate at the end of the view (`PointsAreShown` speaks
of the rows before it); `VirtualCursorModel` announces no change of the
buttons; the wiimote adaptor takes a status of MotionPlus for one of the
wiimote, which is unlisted when MotionPlus goes (wiimote-dispatcher.cpp:45);
`time_delta_sec` subtracts the current time from the last, so all its results
are negative (xwiimote-controller.cpp:216).

In the emulation: of two actions that share a key the one that ends first
releases it for both (`KeysFollowButtons` speaks of keys with one action); only
the last keyboard group of a profile works, and a profile without one leaves
the keyboard of the profile before (eiomanager/keyboard.cpp:7); after a failed
write the device counts as not created and keys that are down stay so.  The
fractions of the mouse's motion have the wrong sign right of the centre
(`PointerFollowsCursor` speaks of the left of it); `m_acc` and `m_timeout` are
not initialized; all mice write to the event device without a lock, so that
motions of two mice may be in one frame; `m_timeout` wraps after 24.8 days
without a cursor, and acceleration begins again.

## Not modelled

* Angles, the high-pass filter, the correction of the gyroscope by the
  acceleration, and the cursor's position and distance: floating-point
  computations without control of their own.  The selection of samples that
  feeds them is modelled.
* The mouse's Absolute mode, `setCompareType` and `clearKeyboardActions`, which
  nothing sets or calls; what a command does outside the program; the parsing
  of profiles (a profile is a value with the groups and commands it parses to).
* The other viewers, D-Bus interface files, services and build files: no
  behaviour beyond copying arguments.
* `externals/common` is a submodule that is not in the tree; its
  `raii_thread` is modelled from its use.
* libxwiimote, udev, uinput, D-Bus and Qt's views are external and modelled
  by what the code relies on: calls may fail, events come in any order.

## Plan

1. `ScannerThread`, `Core`, refinement of `Registry`, proofs. *(done)*
2. `Controller`, `Dispatchers`, proofs. *(done)*
3. `CursorProcessor`, `VirtualCursor`. *(done, with proofs)*
4. `Samples`, `Commands`, proofs. *(done)*
5. `Gamepad`, `Joystick`, `BalanceBoard`. *(done, with proofs)*
6. `Keyboard`, `InfraredMouse`, proofs. *(done)*
7. `ListModels`. *(done, with proofs)*
8. The safety halves of the liveness properties: of `TermEnds`, `UnloadEnds`,
   `AnnouncedIsServed` and `GoneIsRetired` *(done)*; of `AttachedIsListed`,
   `LeftIsDropped` and `LostPointerRests`, that what is on its way only comes
   nearer.
