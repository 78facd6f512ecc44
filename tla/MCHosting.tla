---- MODULE MCHosting ----
(***************************************************************************)
(* Instances of Hosting for TLC.                                           *)
(***************************************************************************)
EXTENDS Hosting, TLC

AllAsks == Kinds
AllFaults == FaultKinds
====
