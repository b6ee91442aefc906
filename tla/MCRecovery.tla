----------------------------- MODULE MCRecovery -----------------------------
(***************************************************************************)
(* Recovery with the registry of MCEngine reduced to one accelerator.      *)
(***************************************************************************)
EXTENDS MCEngine, Recovery

CONSTANT s1

MCOneReport ==
  {[nodes |-> [n \in {n1} |-> MCNode(1, b1)], paths |-> EmptyMap,
    resources |-> [r \in {a} |-> MCAccelerator(1, b1)]]}
MCOneStable == [r \in {a} |-> {}]
=============================================================================
