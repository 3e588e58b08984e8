------------------------------- MODULE MCTrap -------------------------------
(* Instances of TrapNesting for TLC. *)
EXTENDS TrapNesting, TLC

CONSTANTS c0, c1, low, high

TwoPriorities == (low :> 1) @@ (high :> 2)
(* One source enabled on one core, both on one core, one of them on both    *)
(* cores. *)
OneEnabled == [c \in Cores |-> IF c = c0 THEN {high} ELSE {}]
PrivateEnables == [c \in Cores |-> IF c = c0 THEN {low, high} ELSE {}]
MixedEnables == [c \in Cores |-> IF c = c0 THEN {low, high} ELSE {high}]
=============================================================================
