------------------------------ MODULE Joystick ------------------------------
(***************************************************************************)
(* What programs may expect of the virtual gamepads of wiimotedev-io: each *)
(* appears with nothing pressed, changes by whole frames (all keys with    *)
(* the hat that belongs to them, or one stick), and disappears.  view is   *)
(* what a reader of the event device has seen up to the last SYN_REPORT.   *)
(***************************************************************************)
EXTENDS Integers

CONSTANTS Pads,        \* the gamepads
          Keys(_),     \* the keys a gamepad has
          Sticks(_),   \* its pairs of axes; "Dpad" is the hat
          Axis         \* the positions of a stick

VARIABLE view         \* a function on the gamepads that are there

AllSticks == {"Dpad", "Stick", "LStick", "RStick"}

Neutral == [keys |-> {}, axes |-> [s \in AllSticks |-> <<0, 0>>]]

\* Up is negative, as for every event device; of two opposite keys one wins.
HatOf(keys) ==
    <<IF "RIGHT" \in keys THEN 1 ELSE IF "LEFT" \in keys THEN -1 ELSE 0,
      IF "DOWN" \in keys THEN 1 ELSE IF "UP" \in keys THEN -1 ELSE 0>>

JoystickInit == view = [p \in {} |-> Neutral]

Appear(p) ==
    /\ p \notin DOMAIN view
    /\ view' = [q \in DOMAIN view \cup {p} |-> IF q = p THEN Neutral ELSE view[q]]

Press(p, keys) ==
    /\ p \in DOMAIN view
    /\ view' = [view EXCEPT ![p] =
                  [keys |-> keys,
                   axes |-> IF "Dpad" \in Sticks(p)
                            THEN [view[p].axes EXCEPT !["Dpad"] = HatOf(keys)]
                            ELSE view[p].axes]]

Move(p, s, position) ==
    /\ p \in DOMAIN view
    /\ view' = [view EXCEPT ![p] =
                  [keys |-> view[p].keys,
                   axes |-> [view[p].axes EXCEPT ![s] = position]]]

Vanish(p) ==
    /\ p \in DOMAIN view
    /\ view' = [q \in DOMAIN view \ {p} |-> view[q]]

JoystickNext ==
    \E p \in Pads :
        \/ Appear(p)
        \/ Vanish(p)
        \/ \E keys \in SUBSET Keys(p) : Press(p, keys)
        \/ \E s \in Sticks(p) \ {"Dpad"}, position \in Axis \X Axis :
              Move(p, s, position)

JoystickSpec == JoystickInit /\ [][JoystickNext]_view
=============================================================================
