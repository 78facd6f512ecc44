---- MODULE MCAccessSync ----
(***************************************************************************)
(* Instances of AccessSync for TLC: the budgets of the runs.               *)
(***************************************************************************)
EXTENDS AccessSync, TLC

\* One assignment asked for three times, and one fault of any kind.
OneFault == [request |-> 3, fault |-> 1, outside |-> 1]

\* Enough trouble for a job to be given up: it fails, and fails again.
Trouble == [request |-> 3, fault |-> 2, outside |-> 1]

\* Invocations of poll() are interchangeable.
PollerSymmetry == Permutations(Pollers)
====
