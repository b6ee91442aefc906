------------------------- MODULE ExclusiveOwnership -------------------------
(***************************************************************************)
(* What the reservation ledger promises: a resource has at most one owner, *)
(* an owner acquires all the resources it asks for or none, and gives them *)
(* back all at once (README.md: "Multi-resource reservation is atomic").   *)
(***************************************************************************)
CONSTANTS
  Resources,
  Owners,
  Nobody      \* the owner of a free resource, not one of Owners

VARIABLE owner

Owned(o) == {r \in Resources : owner[r] = o}

Init == owner = [r \in Resources |-> Nobody]

Acquire(o, S) ==
  /\ S # {} /\ S \subseteq Owned(Nobody)
  /\ Owned(o) = {}
  /\ owner' = [r \in Resources |-> IF r \in S THEN o ELSE owner[r]]

Relinquish(o) ==
  /\ Owned(o) # {}
  /\ owner' = [r \in Resources |-> IF owner[r] = o THEN Nobody ELSE owner[r]]

Next == \E o \in Owners : Relinquish(o) \/ \E S \in SUBSET Resources : Acquire(o, S)

Spec == Init /\ [][Next]_owner
=============================================================================
