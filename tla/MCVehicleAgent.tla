--------------------------- MODULE MCVehicleAgent ---------------------------
(***************************************************************************)
(* Commands for TLC: of every mode, valid ones (one with the direction     *)
(* 1.5) and ones with an unknown action or a value that is no number.      *)
(***************************************************************************)
EXTENDS VehicleAgent

Low(t, b, d) == [mode |-> "low_level", steering |-> -1, throttle |-> t, brake |-> b, direction |-> d]

Sample ==
    [mode : {"high_level"}, action : {"emergency_stop", "spin"}]
    \cup {Low(1, 0, 3), Low(0, 0, Text)}
    \cup {[steering |-> 2, throttle |-> 0, brake |-> 1]}
=============================================================================
