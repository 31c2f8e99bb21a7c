----------------------------- MODULE MCSamples -----------------------------
(***************************************************************************)
(* Samples for TLC: windows of three readings and of two, one device with   *)
(* two keys, a stick beyond its limit on one axis and near rest on another. *)
(***************************************************************************)
EXTENDS Samples

MCSteps ==
    [d \in Sticked |->
        CASE d = "nunchuk" -> 3 [] d = "classic_controller" -> 2 [] OTHER -> 4]
MCDeflections == {<<-9, 1>>}
=============================================================================
