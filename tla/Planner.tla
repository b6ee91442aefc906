------------------------------ MODULE Planner ------------------------------
(***************************************************************************)
(* ComposeDeterministic (src/dfabric/engine.cpp): the bounded search for a *)
(* resource set. FabricEngine lets Compose return any feasible set; this   *)
(* module says which one the code returns. A nested loop is the list of    *)
(* what it visits, in that order; a loop that carries a value is a         *)
(* function of the number of its passes.                                   *)
(***************************************************************************)
EXTENDS FabricModel, Sequences

CONSTANTS
  IdValue,         \* resource |-> the number its identity is compared by
  TopCandidates,   \* candidates of a class that are considered, 8 in the code
  PickCap,         \* selections of a class, 24 in the code
  ComboCap         \* combinations of the classes' selections, 400 in the code

\* An identity is a 64-bit number, so there are finitely many.
ASSUME PlannerAssumption ==
  /\ IsFiniteSet(ResourceId)
  /\ IdValue \in [ResourceId -> Nat]
  /\ \A r, s \in ResourceId : r # s => IdValue[r] # IdValue[s]
  /\ TopCandidates \in Nat \ {0} /\ PickCap \in Nat \ {0} /\ ComboCap \in Nat \ {0}

First(n, seq) == SubSeq(seq, 1, IF Len(seq) <= n THEN Len(seq) ELSE n)

\* The elements of S, each after those that come before it; "before" is a strict
\* total order of S, a set of pairs.
Ordered(S, before) ==
  LET place(x) == Cardinality({y \in S : <<y, x>> \in before}) + 1
  IN [i \in 1..Cardinality(S) |-> CHOOSE x \in S : place(x) = i]

\* ComputeDemands: the classes in the order they are served.
DemandOrder == <<"COMPUTE", "ACCELERATOR", "HOST_MEMORY", "EXPANDED_MEMORY",
                 "STORAGE", "NETWORK_ENDPOINT">>

ClassScore(res, k) ==
  (IF k \in AmountClasses THEN res.capacity ELSE 1)
    + (IF res.health = "HEALTHY" THEN 1000 ELSE 0)
    + (IF res.readiness = "READY" THEN 100 ELSE 0)
    + (IF res.reachability = "REACHABLE" THEN 10 ELSE 0)

\* The eligible resources of a class, best score first, then by identity.
Eligible(req, k, res) ==
  {r \in DOMAIN res : res[r].class = k /\ ResourceEligible(res[r], req)}
Items(req, k, res) ==
  LET S == Eligible(req, k, res)
      score(r) == ClassScore(res[r], k)
  IN Ordered(S, {p \in S \X S :
                   \/ score(p[1]) > score(p[2])
                   \/ score(p[1]) = score(p[2]) /\ IdValue[p[1]] < IdValue[p[2]]})

\* Sets of indices in the order nested loops visit them.
Visited(sets) ==
  Ordered(sets, {p \in sets \X sets :
                   p[1] # p[2] /\ Min((p[1] \ p[2]) \cup (p[2] \ p[1])) \in p[1]})

\* Mutant: pairs are not tried for an amount.
SelectionsWithoutPairs(req, k, res) ==
  LET items == First(TopCandidates, Items(req, k, res))
      sets == Visited(kSubset(IF k \in CountClasses THEN Wanted(req, k) ELSE 1, DOMAIN items))
  IN First(PickCap, [i \in DOMAIN sets |-> {items[j] : j \in sets[i]}])

\* The selections for one class, not cut: so many devices for a count; for an
\* amount, single resources and then the pairs that suffice.
AllSelections(req, k, items, res) ==
  LET at(I) == {items[j] : j \in I}
      pairs == {I \in kSubset(2, DOMAIN items) : MeetsDemand(req, k, at(I), res)}
      sets == IF k \in CountClasses THEN Visited(kSubset(Wanted(req, k), DOMAIN items))
              ELSE Visited(kSubset(1, DOMAIN items))
                     \o (IF req.demand[k] = 0 THEN <<>> ELSE Visited(pairs))
  IN [i \in DOMAIN sets |-> at(sets[i])]

Selectable(req, k, res) ==
  AllSelections(req, k, First(TopCandidates, Items(req, k, res)), res)
EnumerateSelections(req, k, res) == First(PickCap, Selectable(req, k, res))

\* Every combination with every pick. A pick shares no member with a combination
\* of other classes, so the loop's check for one never skips.
Product(combos, picks) ==
  LET pairs == (DOMAIN combos) \X (DOMAIN picks)
      at == Ordered(pairs, {q \in pairs \X pairs :
                              \/ q[1][1] < q[2][1]
                              \/ q[1][1] = q[2][1] /\ q[1][2] < q[2][2]})
  IN [i \in DOMAIN at |-> combos[at[i][1]] \cup picks[at[i][2]]]

\* The combinations when so many classes have been served, cut after every one.
Combined(req, res) ==
  LET upTo[i \in 0..Len(DemandOrder)] ==
        IF i = 0 THEN <<{}>>
        ELSE IF DemandOrder[i] \notin MandatoryClasses(req) THEN upTo[i - 1]
        ELSE First(ComboCap,
                   Product(upTo[i - 1], EnumerateSelections(req, DemandOrder[i], res)))
  IN upTo

\* A request that demands nothing is rejected, and so is one with a class that has
\* no selection: its product is empty.
Combos(req, res) ==
  IF MandatoryClasses(req) = {} THEN <<>> ELSE Combined(req, res)[Len(DemandOrder)]

Feasible(req, S, res, paths) ==
  /\ \A k \in MandatoryClasses(req) : MeetsDemand(req, k, {r \in S : res[r].class = k}, res)
  /\ ValidateGraph(req, S, res, paths)
  /\ ValidateFailureDomains(req, S, res)
  /\ req.coherence => \A r \in S : res[r].coherent

\* Rank, in tenths. Of the members' capacities compute units and megabytes of host
\* memory count (the capacity of an accelerator, which no demand measures, is its
\* compute units), and a member has headroom in compute units or in storage.
Rank(S, res) ==
  LET of(classes) == {r \in S : res[r].class \in classes}
      capacity == SumOf([r \in of({"COMPUTE", "ACCELERATOR", "HOST_MEMORY"}) |->
                           res[r].capacity])
      headroom == Cardinality({r \in of({"COMPUTE", "ACCELERATOR", "STORAGE"}) :
                                 res[r].capacity > 0})
  IN 100 * Cardinality({r \in S : res[r].health = "HEALTHY"})
       + Min({10, capacity})
       + 10 * Cardinality({res[r].node : r \in S})
       + Min({10, headroom})

\* The loop over the combinations: a feasible one of a higher rank than the best
\* so far takes its place, and has its links resolved by the backends.
Consider(req, S, res, answers, best) ==
  IF Feasible(req, S, res, best.paths) /\ (best.found => Rank(S, res) > best.rank)
  THEN [found |-> TRUE, rank |-> Rank(S, res), members |-> S,
        paths |-> Override(best.paths,
                           Restrict(answers, DOMAIN answers \cap LinksOf(S, res)))]
  ELSE best

NoneYet(paths) == [found |-> FALSE, rank |-> 0, members |-> {}, paths |-> paths]

\* The best combination after so many of the list.
Search(req, combos, res, paths, answers) ==
  LET after[i \in 0..Len(combos)] ==
        IF i = 0 THEN NoneYet(paths)
        ELSE Consider(req, combos[i], res, answers, after[i - 1])
  IN after

Best(req, res, paths, answers) ==
  LET combos == Combos(req, res)
  IN Search(req, combos, res, paths, answers)[Len(combos)]

\* One of the caps cuts something off.
Capped(req, res) ==
  \/ \E k \in MandatoryClasses(req) :
       \/ Cardinality(Eligible(req, k, res)) > TopCandidates
       \/ Len(Selectable(req, k, res)) > PickCap
  \/ /\ \E i \in DOMAIN DemandOrder :
          /\ DemandOrder[i] \in MandatoryClasses(req)
          /\ Len(Combined(req, res)[i - 1])
               * Len(EnumerateSelections(req, DemandOrder[i], res)) > ComboCap
     /\ \A k \in MandatoryClasses(req) : EnumerateSelections(req, k, res) # <<>>

\* What ComposeDeterministic is to find among the sets made of one selection for
\* every demanded class: a single resource or a pair for an amount, exactly the
\* wanted number for a count (Candidates). It rejects a request only when none of
\* these is feasible, and when nothing it relies on is out of date it returns one of
\* the highest rank ("compositions are ranked deterministically", "A good score
\* never rescues an invalid composition"), unless one of the caps of its search was
\* reached. Other sets are not searched: an amount that only three resources or
\* more would meet is rejected below every cap.
FindsTheBest(req, res, paths, answers) ==
  LET best == Best(req, res, paths, answers)
      candidates == Candidates(req, res, paths)
      fresh == \A l \in DOMAIN answers : l \in DOMAIN paths /\ paths[l] = answers[l]
  IN /\ best.found => best.members # {} /\ (fresh => best.members \in candidates)
     /\ \/ /\ best.found <=> candidates # {}
           /\ best.found /\ fresh => \A S \in candidates : Rank(S, res) <= best.rank
        \/ Capped(req, res)
=============================================================================
