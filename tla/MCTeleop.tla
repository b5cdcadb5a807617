------------------------------- MODULE MCTeleop -------------------------------
(***************************************************************************)
(* Instances of Teleop for TLC.                                            *)
(***************************************************************************)
EXTENDS Teleop, TLC

CONSTANTS o1, v1, s1, s2

AnyPair == Operator \X Vehicle

\* Two commands of one session, and one of the other.
TwoAndOne == [s \in Request |-> IF s = s1 THEN 2 ELSE 1]

\* A handler may take a tick between reading the clock and running its script.
Prompt == {LeaseTTL - 1, LeaseTTL}

\* Operator and vehicle clocks agree.
InStep == {0}
===============================================================================
