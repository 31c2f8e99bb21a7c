------------------------------- MODULE Gamepad -------------------------------
(***************************************************************************)
(* The emulation of gamepads in wiimotedev-io: ProfileManager loads and    *)
(* unloads profiles and hands the daemon's signals to them; a Profile sets *)
(* up its gamepads and passes a signal to those of the signal's device and *)
(* id; an IGamepad turns it into writes to uinput, and an InputDevice owns *)
(* the descriptor.  One thread runs it all; any call into the kernel may   *)
(* fail, and readers of the event device see what a SYN_REPORT completes.  *)
(*                                                                         *)
(* A handler is the sequence of calls it makes, run one write at a time.   *)
(* The keys of one report are one write: when one of them fails, no        *)
(* SYN_REPORT completes the others.  Keys have the names of their buttons, *)
(* as no table gives two buttons the same key.  Files that are not there   *)
(* and groups of other modules or unknown devices configure nothing; the   *)
(* handlers for connections, infrared and acceleration are empty.          *)
(***************************************************************************)
EXTENDS BalanceBoard, Sequences, SequencesExt

CONSTANTS Files,       \* paths of profiles
          Config,      \* [Files -> sequences of [type, id, snowboard]]
          MaxLoads,    \* bound: profiles that are loaded at a time
          Inputs,      \* the buttons that the masks of a run use
          Leans,       \* the positions <<x, y>> of a stick in signals
          Readings,    \* what the four sensors of a balance board can say
          Turns        \* x / 8 of a gyroscope reading over 4000, or 0

Types == {"balance_board", "classic_controller", "nunchuk", "pro_controller",
          "wiimote"}

ASSUME ConfigAssumption ==
    \A f \in Files : Config[f] \in Seq([type : Types, id : Nat, snowboard : BOOLEAN])
ASSUME MaxLoadsAssumption == MaxLoads \in Nat
ASSUME LeansAssumption == Leans \subseteq (StickMin .. StickMax) \X (StickMin .. StickMax)
ASSUME ReadingsAssumption == Readings \subseteq [Sensors -> Nat]
ASSUME TurnsAssumption == Turns \subseteq Int

Profiles == Files \X (1 .. MaxLoads)
PadsOf(pr) == {<<pr, g>> : g \in DOMAIN Config[pr[1]]}
Pads == UNION {PadsOf(pr) : pr \in Profiles}

Group(p) == Config[p[1][1]][p[2]]

AllSticks == {"Dpad", "Stick", "LStick", "RStick"}
Directions == {"UP", "DOWN", "LEFT", "RIGHT"}
AllKeys == Directions \cup {"A", "C", "THUMBL"}

\* The tables of buttons and axes.  "A" and "C" stand for the other keys of a
\* remote, "THUMBL" for the two only the pro controller has.
KeysOf(type) ==
    CASE type = "balance_board" -> {}
      [] type = "nunchuk" -> {"C"}
      [] type = "pro_controller" -> Directions \cup {"A", "THUMBL"}
      [] OTHER -> Directions \cup {"A"}
Keys(p) == KeysOf(Group(p).type)

Sticks(p) ==
    CASE Group(p).type \in {"balance_board", "nunchuk"} -> {"Stick"}
      [] Group(p).type = "wiimote" -> {"Dpad", "Stick"}
      [] OTHER -> {"Dpad", "LStick", "RStick"}

Axis == StickMin .. StickMax

VARIABLES
    profiles,     \* the members of m_profiles
    gamepads,     \* the m_gamepads of all profiles, in the order of the lists
    fd,           \* m_fd is an open descriptor
    created,      \* m_isCreated
    frame,        \* the kernel's state of the event device; its axes are
                  \* those of m_axises, as every input() reports them all
    view,         \* what the readers of an event device have seen
    angles,       \* sx and sz, statics of Profile::gyroscopeDataChanged
    calls,        \* what the running handler still has to do
    phase,        \* how far its first call is
    valid,        \* isValid of GamepadFactory::configure
    told          \* history: the last mask that was signalled for the pad

device == <<fd, created, frame, view>>
vars == <<profiles, gamepads, device, angles, calls, phase, valid, told>>

J == INSTANCE Joystick

Call ==
    [op : {"setup", "delete"}, pad : Pads]
    \cup [op : {"buttons"}, pad : Pads, keys : SUBSET Inputs]
    \cup [op : {"stick"}, pad : Pads, stick : AllSticks \ {"Dpad"},
            x : Int, y : Int]
    \cup [op : {"gyro"}, pad : Pads, x : Turns, z : Turns]

TypeOK ==
    /\ profiles \subseteq Profiles
    /\ gamepads \in Seq(Pads)
    /\ fd \in [Pads -> BOOLEAN]
    /\ created \in [Pads -> BOOLEAN]
    /\ frame \in [Pads -> [keys : SUBSET AllKeys,
                           axes : [AllSticks -> Axis \X Axis]]]
    /\ DOMAIN view \subseteq Pads
    /\ view \in [DOMAIN view -> [keys : SUBSET AllKeys,
                                axes : [AllSticks -> Axis \X Axis]]]
    /\ angles \in [{"x", "z"} -> Axis]
    /\ calls \in Seq(Call)
    /\ phase \in {"begin", "configure", "create", "keep", "axes", "sync"}
    /\ valid \in BOOLEAN
    /\ told \in [Pads -> SUBSET Inputs]

Init ==
    /\ profiles = {}
    /\ gamepads = <<>>
    /\ fd = [p \in Pads |-> FALSE]
    /\ created = [p \in Pads |-> FALSE]
    /\ frame = [p \in Pads |-> J!Neutral]
    /\ view = [p \in {} |-> J!Neutral]
    /\ angles = [a \in {"x", "z"} |-> 0]
    /\ calls = <<>>
    /\ phase = "begin"
    /\ valid = TRUE
    /\ told = [p \in Pads |-> {}]

-----------------------------------------------------------------------------
(* The event loop: D-Bus requests and signals of the daemon.               *)

Idle == calls = <<>>

\* The members of s that are in S, in their order (SelectSeq, as a function
\* that is recursive on the number of members looked at).
Kept(s, S) ==
    LET kept[n \in 0 .. Len(s)] ==
            IF n = 0 THEN <<>>
            ELSE IF s[n] \in S THEN Append(kept[n - 1], s[n])
            ELSE kept[n - 1]
    IN  kept[Len(s)]

OfRemote(type, id) ==
    {p \in ToSet(gamepads) : Group(p).type = type /\ Group(p).id = id /\ created[p]}

\* An iterator that stops at the first gamepad it finds.
MatchingFirst(type, id) ==
    LET s == Kept(gamepads, OfRemote(type, id))
    IN  IF s = <<>> THEN s ELSE <<s[1]>>

\* gamepad_iterator
Matching(type, id) == Kept(gamepads, OfRemote(type, id))

\* ProfileManager::load: a new Profile, which sets up every group.
Load ==
    /\ Idle
    /\ Cardinality(profiles) < MaxLoads
    /\ \E f \in Files :
         \E n \in 1 .. MaxLoads :
            /\ <<f, n>> \notin profiles
            /\ \A m \in 1 .. n - 1 : <<f, m>> \in profiles
            /\ profiles' = profiles \cup {<<f, n>>}
            /\ calls' = [g \in DOMAIN Config[f] |->
                            [op |-> "setup", pad |-> <<<<f, n>>, g>>]]
    /\ UNCHANGED <<gamepads, device, angles, phase, valid, told>>

\* ProfileManager::unload: every profile of the path goes, with its gamepads.
Unload ==
    /\ Idle
    /\ \E f \in Files :
         LET leaving == Kept(gamepads, {p \in Pads : p[1][1] = f})
         IN  /\ \E pr \in profiles : pr[1] = f
             /\ profiles' = {pr \in profiles : pr[1] # f}
             /\ calls' = [i \in DOMAIN leaving |->
                             [op |-> "delete", pad |-> leaving[i]]]
    /\ UNCHANGED <<gamepads, device, angles, phase, valid, told>>

\* buttonDataChanged
ButtonData(type, id, keys) ==
    /\ Idle
    /\ calls' = LET s == Matching(type, id)
                IN  [i \in DOMAIN s |->
                        [op |-> "buttons", pad |-> s[i], keys |-> keys]]
    /\ told' = [p \in Pads |-> IF p \in OfRemote(type, id) THEN keys ELSE told[p]]
    /\ UNCHANGED <<profiles, gamepads, device, angles, phase, valid>>

StickCall(p, s, x, y) ==
    [op |-> "stick", pad |-> p, stick |-> s, x |-> x, y |-> y]

\* stickDataChanged: one stick of the nunchuk, two of the others.
StickData(type, id, l, r) ==
    /\ Idle
    /\ calls' =
         LET s == Matching(type, id)
         IN  IF type = "nunchuk"
             THEN [i \in DOMAIN s |-> StickCall(s[i], "Stick", l[1], l[2])]
             ELSE [i \in 1 .. 2 * Len(s) |->
                    IF i % 2 = 1
                    THEN StickCall(s[(i + 1) \div 2], "LStick", l[1], l[2])
                    ELSE StickCall(s[i \div 2], "RStick", r[1], r[2])]
    /\ UNCHANGED <<profiles, gamepads, device, angles, phase, valid, told>>

\* pressureDataChanged
PressureCall(p, d) ==
    IF ~Occupied(d) THEN StickCall(p, "Stick", 0, 0)
    ELSE IF Group(p).snowboard THEN StickCall(p, "Stick", -YLean(d), -XLean(d))
    ELSE StickCall(p, "Stick", -XLean(d), YLean(d))

PressureData(id, d) ==
    /\ Idle
    /\ calls' = LET s == Matching("balance_board", id)
                IN  [i \in DOMAIN s |-> PressureCall(s[i], d)]
    /\ UNCHANGED <<profiles, gamepads, device, angles, phase, valid, told>>

\* gyroscopeDataChanged
GyroData(id, x, z) ==
    /\ Idle
    /\ calls' = LET s == Matching("wiimote", id)
                IN  [i \in DOMAIN s |->
                        [op |-> "gyro", pad |-> s[i], x |-> x, z |-> z]]
    /\ UNCHANGED <<profiles, gamepads, device, angles, phase, valid, told>>

-----------------------------------------------------------------------------
(* The running handler.                                                    *)

pad == calls[1].pad
At(ops, ph) == calls # <<>> /\ calls[1].op \in ops /\ phase = ph

NextCall ==
    /\ calls' = Tail(calls)
    /\ phase' = "begin"

Proceed(ph) ==
    /\ phase' = ph
    /\ UNCHANGED calls

\* GamepadFactory::create and InputDevice::open.  /dev/uinput is missing or
\* cannot be opened: the rest of configure() runs on descriptor -1.
SetupOpen ==
    /\ At({"setup"}, "begin")
    /\ \E ok \in BOOLEAN :
         /\ fd' = [fd EXCEPT ![pad] = ok]
         /\ valid' = ok
    /\ Proceed("configure")
    /\ UNCHANGED <<profiles, gamepads, created, frame, view, angles, told>>

\* IGamepad::configure
SetupConfigure ==
    /\ At({"setup"}, "configure")
    /\ \E ok \in BOOLEAN :
         /\ ok => fd[pad]
         /\ valid' = (valid /\ ok)
    /\ Proceed("create")
    /\ UNCHANGED <<profiles, gamepads, device, angles, told>>

\* InputDevice::create
SetupCreate ==
    /\ At({"setup"}, "create")
    /\ \E ok \in BOOLEAN :
         /\ ok => fd[pad]
         /\ created' = [created EXCEPT ![pad] = ok]
         /\ IF ok THEN J!Appear(pad) ELSE UNCHANGED view
         /\ valid' = (valid /\ ok)
    /\ Proceed("keep")
    /\ UNCHANGED <<profiles, gamepads, fd, frame, angles, told>>

\* Profile::setup
SetupKeep ==
    /\ At({"setup"}, "keep")
    /\ valid
    /\ gamepads' = Append(gamepads, pad)
    /\ NextCall
    /\ UNCHANGED <<profiles, device, angles, valid, told>>

\* A destructor that destroys and closes only devices that are created.
DestructorIfCreated(p) ==
    IF created[p]
    THEN /\ fd' = [fd EXCEPT ![p] = FALSE]
         /\ created' = [created EXCEPT ![p] = FALSE]
         /\ view' = [q \in DOMAIN view \ {p} |-> view[q]]
    ELSE UNCHANGED <<fd, created, view>>

\* ~InputDevice: UI_DEV_DESTROY, which may fail, for a created device, and
\* close, which destroys it in any case.
Destructor(p) ==
    IF fd[p]
    THEN /\ fd' = [fd EXCEPT ![p] = FALSE]
         /\ created' = [created EXCEPT ![p] = FALSE]
         /\ view' = [q \in DOMAIN view \ {p} |-> view[q]]
    ELSE UNCHANGED <<fd, created, view>>

\* The object is gone: its members have their first values again.
Forget(p) ==
    /\ frame' = [frame EXCEPT ![p] = J!Neutral]
    /\ told' = [told EXCEPT ![p] = {}]

SetupDrop ==
    /\ At({"setup"}, "keep")
    /\ ~valid
    /\ Destructor(pad)
    /\ Forget(pad)
    /\ NextCall
    /\ UNCHANGED <<profiles, gamepads, angles, valid>>

Delete ==
    /\ At({"delete"}, "begin")
    /\ gamepads' = Kept(gamepads, Pads \ {pad})
    /\ Destructor(pad)
    /\ Forget(pad)
    /\ NextCall
    /\ UNCHANGED <<profiles, angles, valid>>

\* InputDevice::report for a device that is created.  A write that fails
\* makes it one that is not: nothing of it is read or written any more, and
\* what is pending is never completed, so no value of it is kept.
Works(p, to) ==
    /\ created[p]
    /\ frame' = [frame EXCEPT ![p] = to]
    /\ UNCHANGED created

\* A report() that is told of the failure and goes on.
FailsQuietly(p) == UNCHANGED <<created, frame>>

Fails(p) ==
    /\ created' = [created EXCEPT ![p] = FALSE]
    /\ frame' = [frame EXCEPT ![p] = J!Neutral]

Report(p, to) == Works(p, to) \/ Fails(p)

\* IGamepad::input(buttons): a key event for every entry of the table.
InputKeys ==
    /\ At({"buttons"}, "begin")
    /\ Report(pad, [keys |-> calls[1].keys \cap Keys(pad), axes |-> frame[pad].axes])
    /\ Proceed("axes")
    /\ UNCHANGED <<profiles, gamepads, fd, view, angles, valid, told>>

Clamp(lo, hi, v) == IF v < lo THEN lo ELSE IF v > hi THEN hi ELSE v

\* setValue that trusts the values it gets.
SetValueUnclamped(s, x, y) == <<x, -y>>

\* AxisPair::setValue for pairs with a negative minimum, as all of them are:
\* the y axis is inverted, both are clamped.
SetValue(s, x, y) ==
    LET lo == IF s = "Dpad" THEN -1 ELSE StickMin
        hi == IF s = "Dpad" THEN 1 ELSE StickMax
    IN  <<Clamp(lo, hi, x), Clamp(lo, hi, -y)>>

\* IGamepad::input(stick, x, y) up to sync(): all pairs are reported.
InputStick(p, s, x, y) ==
    LET new == IF s \in Sticks(p) THEN [frame[p].axes EXCEPT ![s] = SetValue(s, x, y)]
                                  ELSE frame[p].axes
    IN  Report(p, [keys |-> frame[p].keys, axes |-> new])

\* IGamepad::input(buttons): the later entry of the table decides the hat.
InputDpad ==
    /\ At({"buttons"}, "axes")
    /\ LET on == calls[1].keys \cap Keys(pad)
           x  == IF "RIGHT" \in on THEN 1 ELSE IF "LEFT" \in on THEN -1 ELSE 0
           y  == IF "DOWN" \in on THEN -1 ELSE IF "UP" \in on THEN 1 ELSE 0
       IN  InputStick(pad, "Dpad", x, y)
    /\ Proceed("sync")
    /\ UNCHANGED <<profiles, gamepads, fd, view, angles, valid, told>>

InputMove ==
    /\ At({"stick"}, "begin")
    /\ InputStick(pad, calls[1].stick, calls[1].x, calls[1].y)
    /\ Proceed("sync")
    /\ UNCHANGED <<profiles, gamepads, fd, view, angles, valid, told>>

\* The lambda of Profile::gyroscopeDataChanged, for one gamepad: the angles
\* of all gamepads are the same two statics.
InputGyro ==
    /\ At({"gyro"}, "begin")
    /\ LET sx == Clamp(StickMin, StickMax, angles["x"] + calls[1].x)
           sz == Clamp(StickMin, StickMax, angles["z"] + calls[1].z)
       IN  /\ angles' = [a \in {"x", "z"} |-> IF a = "x" THEN sx ELSE sz]
           /\ InputStick(pad, "Stick", -sx, -sz)
    /\ Proceed("sync")
    /\ UNCHANGED <<profiles, gamepads, fd, view, valid, told>>

\* sync: SYN_REPORT, and readers see the frame.
Sync ==
    /\ At({"buttons", "stick", "gyro"}, "sync")
    /\ \/ Works(pad, frame[pad]) /\ view' = [view EXCEPT ![pad] = frame[pad]]
       \/ Fails(pad) /\ UNCHANGED view
    /\ NextCall
    /\ UNCHANGED <<profiles, gamepads, fd, angles, valid, told>>

Handler ==
    \/ SetupOpen \/ SetupConfigure \/ SetupCreate \/ SetupKeep \/ SetupDrop
    \/ Delete
    \/ InputKeys \/ InputDpad \/ InputMove \/ InputGyro \/ Sync

\* Signals of other remotes reach no gamepad and change nothing.
Signal ==
    \E p \in Pads :
        LET type == Group(p).type
            id   == Group(p).id
        IN  \/ \E keys \in SUBSET Inputs : ButtonData(type, id, keys)
            \/ \E l, r \in Leans : StickData(type, id, l, r)
            \/ \E d \in Readings : PressureData(id, d)
            \/ \E x, z \in Turns : GyroData(id, x, z)

Next == Load \/ Unload \/ Signal \/ Handler

Spec == Init /\ [][Next]_vars

-----------------------------------------------------------------------------
\* Between two handlers exactly the gamepads of loaded profiles hold a
\* descriptor and an event device, whatever failed when they were set up or
\* written to: nothing leaks, and no program keeps a gamepad that is gone.
DescriptorsAreOwned ==
    Idle => \A p \in Pads :
        /\ fd[p] <=> p \in ToSet(gamepads)
        /\ p \in DOMAIN view <=> p \in ToSet(gamepads)
        /\ p \in ToSet(gamepads) => p[1] \in profiles

\* Between two handlers every gamepad that still works shows the keys of the
\* last mask its remote has sent, however many gamepads, also of other
\* profiles, share the remote.
ToldIsShown ==
    Idle => \A p \in ToSet(gamepads) :
        created[p] => view[p].keys = told[p] \cap Keys(p)

\* Readers see whole frames only: a write that fails in the middle of a
\* report never shows keys without their hat, or half of a stick.
ImplementsJoystick == J!JoystickSpec
=============================================================================
