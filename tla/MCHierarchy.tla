---- MODULE MCHierarchy ----
EXTENDS Hierarchy, TLC

AllAsks == RequestKinds

\* Requests differ in nothing but what they ask.
Symmetry == Permutations(Sessions)
====
