------------------------------- MODULE MCChannel -------------------------------
(* Model checking of Channel: interchangeable writers.  (Only for runs of safety *)
(* properties: TLC's liveness checking is not sound under symmetry.)             *)
EXTENDS Channel, TLC

Symmetry == Permutations(Writers)
===============================================================================
