----------------------------- MODULE MCGamepad -----------------------------
(***************************************************************************)
(* Gamepad for TLC: profiles with one gamepad each; two that are loaded may *)
(* serve the same remote, and the same file may be loaded twice.           *)
(***************************************************************************)
EXTENDS Gamepad

MCFiles == {"pad.ini", "chuk.ini", "pro.ini", "board.ini"}

MCGroup(type, id, snowboard) == [type |-> type, id |-> id, snowboard |-> snowboard]

MCConfig ==
    [f \in MCFiles |->
        CASE f = "pad.ini" -> <<MCGroup("wiimote", 1, FALSE)>>
          [] f = "chuk.ini" -> <<MCGroup("nunchuk", 1, FALSE)>>
          [] f = "pro.ini" -> <<MCGroup("pro_controller", 2, FALSE)>>
          [] f = "board.ini" -> <<MCGroup("balance_board", 2, TRUE)>>]

MCLeans == {<<0, -StickMax - 1>>}

MCReadings ==
    {[s \in Sensors |-> 0], [s \in Sensors |-> IF s = "tl" THEN 4 ELSE 0]}
=============================================================================
