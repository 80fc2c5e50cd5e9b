------------------------- MODULE MCControllerInput -------------------------
(***************************************************************************)
(* Three gamepads for two numbers.  The first has the keys of the          *)
(* combinations, and either remaps them or is not known to have a Select   *)
(* until Back goes down; the second has a plain button, the third only     *)
(* sticks.                                                                 *)
(***************************************************************************)
EXTENDS ControllerInput

CONSTANTS d1, d2, d3

MCKeysOf == [d \in Devices |-> IF d = d1 THEN {"START", "BACK", "MODE", "L1"} ELSE IF d = d2 THEN {"A"} ELSE {}]

MCKindsOf == [d \in Devices |->
    IF d = d1 THEN {k \in Kinds : ~k.hasMode /\ k.hasSelect = k.remaps}
    ELSE {[hasSelect |-> TRUE, hasMode |-> TRUE, remaps |-> FALSE]}]
=============================================================================
