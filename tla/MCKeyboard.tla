----------------------------- MODULE MCKeyboard -----------------------------
(***************************************************************************)
(* Keyboard for TLC: a profile of two groups with keys that actions share, *)
(* one with other keys and commands, and one without a keyboard.           *)
(***************************************************************************)
EXTENDS Keyboard, TLC

Asks(event, s) == [event |-> event, keys |-> s]
Does(event, style, what) == [event |-> event, alghoritm |-> style, does |-> what]

MCGroups ==
    [p \in Profiles |->
        CASE p = "desk.ini" ->
               << << Asks(1 :> {"B"}, <<"shift">>) >>,
                  << Asks(1 :> {"A"}, <<"shift", "tab">>),
                     Asks(1 :> {"B"} @@ 2 :> {"A"}, <<"shift", "up">>) >> >>
          [] p = "game.ini" -> << << Asks(2 :> {"A"}, <<"tab">>) >> >>
          [] OTHER -> <<>>]

MCCommands ==
    [p \in Profiles |->
        CASE p = "desk.ini" -> << Does(1 :> {"A"}, "equal", "exec") >>
          [] p = "game.ini" ->
               << Does(1 :> {"A"} @@ 2 :> {"A"}, "bit", "wheel"),
                  Does(2 :> {"A"}, "notequal", "rumble") >>
          [] OTHER -> <<>>]
=============================================================================
