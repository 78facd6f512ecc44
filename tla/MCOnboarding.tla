---- MODULE MCOnboarding ----
(***************************************************************************)
(* Instances of Onboarding for TLC.                                        *)
(***************************************************************************)
EXTENDS Onboarding, TLC

Bounds(changes, faults) == [changes |-> changes, faults |-> faults]
SomeBudgets == {Bounds(2, 0), Bounds(1, 1)}

Symmetry == Permutations(Requests)
====
