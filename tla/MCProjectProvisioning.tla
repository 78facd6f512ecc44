---- MODULE MCProjectProvisioning ----
(***************************************************************************)
(* Instances of ProjectProvisioning for TLC.                               *)
(***************************************************************************)
EXTENDS ProjectProvisioning, TLC

CONSTANTS a, x

AllFaults == FaultKinds

\* A standalone project is a microservices project without its last step.  Requests race
\* for the name a, once its repository is gone; or deal with what is tracked, where x is a
\* repository that the organisation's token does not see; or one gives a tracked name again
\* while another looks whether its repository is there.
Both(kinds) == <<kinds, kinds>>
SomeStarts ==
  {[there |-> {a}, tracked |-> {}, kinds |-> Both(RequestKinds \ {"standalone"})],
   [there |-> {a, x}, tracked |-> {x}, kinds |-> Both(RequestKinds \ Creations)],
   [there |-> {a}, tracked |-> {a}, kinds |-> <<{"sync"}, {"standalone"}>>]}

====
