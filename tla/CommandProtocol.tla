--------------------------- MODULE CommandProtocol ---------------------------
(***************************************************************************)
(* The commands of a control packet: which are valid, what the actuators   *)
(* are told, and what is signed.  A command is a record with the fields    *)
(* that the JSON object has.  A number n stands for n / Unit, so that      *)
(* fractions exist; anything that is no number is Text.                    *)
(***************************************************************************)
EXTENDS Integers

CONSTANTS Unit,   \* the number 1
          Text    \* a value that float() and int() refuse

ASSUME ProtocolAssumption == Unit \in Nat \ {0} /\ Text \notin Int

HIGH_LEVEL_ACTIONS == {"forward", "reverse", "left", "right", "stop", "emergency_stop"}

HasMode(c, mode) == "mode" \in DOMAIN c /\ c.mode = mode
HighLevel(c) == HasMode(c, "high_level")
LowLevel(c) == HasMode(c, "low_level")

\* int() cuts off what follows the point: x becomes n.
Truncates(x, n) ==
    IF x >= 0 THEN n * Unit <= x /\ x < (n + 1) * Unit
    ELSE (n - 1) * Unit < x /\ x <= n * Unit

\* The direction of a command that is not high-level.
Direction(c) == IF LowLevel(c) THEN c.direction ELSE Unit

\* The fields of such a command.
LowLevelFields(c) ==
    DOMAIN c = IF LowLevel(c) THEN {"mode", "steering", "throttle", "brake", "direction"}
               ELSE {"steering", "throttle", "brake"}

valid_command(c) ==
    IF HighLevel(c)
    THEN DOMAIN c = {"mode", "action"} /\ c.action \in HIGH_LEVEL_ACTIONS
    ELSE /\ LowLevelFields(c)
         /\ c.steering \in -Unit .. Unit
         /\ c.throttle \in 0 .. Unit
         /\ c.brake \in 0 .. Unit
         /\ Direction(c) \in Int /\ \E n \in {-1, 0, 1} : Truncates(Direction(c), n)

Actuators(steering, throttle, brake, direction) ==
    [steering |-> steering, throttle |-> throttle, brake |-> brake, direction |-> direction]

\* The direction is passed on as it came.
resolve_command(c) ==
    IF ~HighLevel(c) THEN Actuators(c.steering, c.throttle, c.brake, Direction(c))
    ELSE CASE c.action = "forward" -> Actuators(0, Unit, 0, Unit)
           [] c.action = "reverse" -> Actuators(0, Unit, 0, -Unit)
           [] c.action = "left"    -> Actuators(-Unit, 0, 0, Unit)
           [] c.action = "right"   -> Actuators(Unit, 0, 0, Unit)
           [] OTHER                -> Actuators(0, 0, Unit, 0)

\* The command's part of what is signed.
build_sign_message(c) ==
    IF HighLevel(c) THEN <<"high_level", c.action>>
    ELSE IF LowLevel(c) THEN <<"low_level", c.steering, c.throttle, c.brake, c.direction>>
    ELSE <<c.steering, c.throttle, c.brake>>

FullBrake(c) == resolve_command(c).brake >= Unit
=============================================================================
