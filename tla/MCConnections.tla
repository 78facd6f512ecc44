---------------------------- MODULE MCConnections ----------------------------
(***************************************************************************)
(* A pool of two connections, two overlapping polls with a statement each  *)
(* as their job, and a transaction.                                        *)
(***************************************************************************)
EXTENDS Connections

CONSTANTS p1, p2, j1, j2, t

MCCalls == {p1, p2, j1, j2, t}

MCKind ==
  [u \in MCCalls |-> IF u \in {p1, p2} THEN "poll"
                     ELSE IF u = t THEN "transaction" ELSE "query"]

MCParent ==
  [u \in MCCalls |-> IF u = j1 THEN p1 ELSE IF u = j2 THEN p2 ELSE NoOne]
=============================================================================
