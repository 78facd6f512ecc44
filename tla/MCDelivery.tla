---- MODULE MCDelivery ----
(***************************************************************************)
(* Instances of Delivery for TLC.                                          *)
(***************************************************************************)
EXTENDS Delivery, TLC

AllFaults == FaultKinds

Nothing == [fault |-> 0, cut |-> 0, run |-> 0, repair |-> 0, update |-> 0, detect |-> 0, snapshot |-> 0, change |-> 0]
From(isTracked, its, more) ==
  [tracked |-> isTracked, environment |-> its, noticed |-> isTracked /\ its = "some", left |-> more @@ Nothing]

\* The pipeline with a fault, with a repair and with an update; and without runs, what
\* is told of a project that was set up and of one of the hierarchy, and updates.
SomeStarts ==
  {From(TRUE, "some", [fault |-> 1, run |-> 4]),
   From(TRUE, "some", [run |-> 4, repair |-> 1]),
   From(TRUE, "some", [run |-> 4, update |-> 1]),
   From(TRUE, "none", [cut |-> 1, detect |-> 3, repair |-> 2, change |-> 1]),
   From(FALSE, "empty", [cut |-> 1, detect |-> 2, repair |-> 1, change |-> 2]),
   From(TRUE, "orphaned", [cut |-> 1, detect |-> 2, repair |-> 1, change |-> 1]),
   From(FALSE, "empty", [cut |-> 1, snapshot |-> 3, change |-> 2, detect |-> 1]),
   From(TRUE, "none", [cut |-> 1, update |-> 3])}

\* Requests are interchangeable.
SessionSymmetry == Permutations(Sessions)
====
