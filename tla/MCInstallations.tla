---- MODULE MCInstallations ----
(***************************************************************************)
(* Instances of Installations for TLC.                                     *)
(***************************************************************************)
EXTENDS Installations, TLC

Bounds(changes, links, redeliveries, faults) ==
  [changes |-> changes, links |-> links, redeliveries |-> redeliveries, faults |-> faults]
SomeBudgets == {Bounds(3, 1, 0, 1), Bounds(2, 2, 0, 1), Bounds(2, 1, 1, 2)}

Symmetry == Permutations(Users) \cup Permutations(Handlers)
====
