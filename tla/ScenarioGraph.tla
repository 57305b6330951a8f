---------------------------- MODULE ScenarioGraph ---------------------------
(***************************************************************************)
(* The causal graph scenarios are propagated through (scenarios/graph.py): *)
(* the topological order, the linear propagation of relative changes, and  *)
(* the comparison of several results (scenarios/engine.py).  A number is a *)
(* whole count of Unit-ths: an override of Unit leaves its node as it is.  *)
(***************************************************************************)
EXTENDS Integers, Sequences, FiniteSets, FiniteSetsExt, SequencesExt

CONSTANTS
    NodeOrder,      \* the nodes, in the order they are listed
    Base,           \* node -> base value
    Unit,           \* 1.0
    Capacity,       \* the node whose override may be absolute
    AbsoluteFrom    \* 10.0: above it a capacity is absolute

ASSUME UnitIsPositive == Unit \in Nat \ {0} /\ AbsoluteFrom \in Nat

Nodes == {NodeOrder[i] : i \in DOMAIN NodeOrder}

ASSUME NodesAreListedOnce ==
    NodeOrder \in Seq(Nodes) /\ \A i, k \in DOMAIN NodeOrder : NodeOrder[i] = NodeOrder[k] => i = k

Edges == [source : Nodes, target : Nodes, sensitivity : Int]

InDegree(edges) == [n \in Nodes |-> Cardinality({e \in edges : e.target = n})]

(* The nodes of S as they are listed.                                      *)
AsListed(S) ==
    LET listed[i \in 0 .. Len(NodeOrder)] ==
            IF i = 0 THEN <<>>
            ELSE IF NodeOrder[i] \in S THEN Append(listed[i - 1], NodeOrder[i]) ELSE listed[i - 1] IN
    listed[Len(NodeOrder)]

(***************************************************************************)
(* Kahn's algorithm: a node is queued when its last incoming edge has been *)
(* taken.  Nodes of a cycle are never queued and follow in listing order.  *)
(***************************************************************************)
(* The mutant: a node is queued at the first of its incoming edges.        *)
MutantReadyAtFirstEdge(before, after) == {n \in Nodes : after[n] < before[n]}

Ready(before, after) == {n \in Nodes : before[n] > 0 /\ after[n] = 0}

Visit(edges, s) ==
    LET node == Head(s.queue)
        left == [n \in Nodes |->
            s.left[n] - Cardinality({e \in edges : e.source = node /\ e.target = n})] IN
    [queue |-> Tail(s.queue) \o AsListed(Ready(s.left, left)),
     sorted |-> Append(s.sorted, node), left |-> left]

TopologicalSort(edges) ==
    LET start == [queue |-> AsListed({n \in Nodes : InDegree(edges)[n] = 0}),
                  sorted |-> <<>>, left |-> InDegree(edges)]
        after[k \in 0 .. Len(NodeOrder)] ==
            IF k = 0 THEN start
            ELSE IF after[k - 1].queue = <<>> THEN after[k - 1] ELSE Visit(edges, after[k - 1])
        sorted == after[Len(NodeOrder)].sorted IN
    sorted \o AsListed(Nodes \ ToSet(sorted))

(* A negative override counts as none.                                     *)
Adjustment(overrides, n) ==
    IF n \notin DOMAIN overrides THEN 0
    ELSE IF n = Capacity /\ overrides[n] > AbsoluteFrom
         THEN (overrides[n] - Base[n] * Unit) \div Base[n]
    ELSE IF overrides[n] >= 0 THEN overrides[n] - Unit ELSE 0

SumOver(amounts) == MapThenSumSet(LAMBDA e : amounts[e], DOMAIN amounts)

Inflow(edges, deltas, n) ==
    SumOver([e \in {e \in edges : e.target = n} |-> deltas[e.source] * e.sensitivity])

Deltas(edges, overrides) ==
    LET order == TopologicalSort(edges)
        deltas[k \in 0 .. Len(order)] ==
            IF k = 0 THEN [n \in Nodes |-> Adjustment(overrides, n)]
            ELSE [deltas[k - 1] EXCEPT ![order[k]] = @ + Inflow(edges, deltas[k - 1], order[k])] IN
    deltas[Len(order)]

Clipped(deltas) ==
    [n \in Nodes |-> LET v == Base[n] * (Unit + deltas[n]) IN IF v < 0 THEN 0 ELSE v]

PropagateLinear(edges, overrides) == Clipped(Deltas(edges, overrides))

(* Overrides disturbed by the noise of one Monte Carlo sample.             *)
Disturbed(overrides, noise) == [n \in DOMAIN overrides |-> overrides[n] + noise[n]]

(* How far apart the results put a node; the comparison lists the nodes by *)
(* this spread relative to their mean.                                     *)
Spread(results, n) ==
    LET values == {results[i][n] : i \in DOMAIN results} IN Max(values) - Min(values)

Total(results, n) == FoldLeft(LAMBDA sum, r : sum + r[n], 0, results)

Diverges(results, n, m) ==      \* n is listed before m
    Spread(results, n) * Total(results, m) > Spread(results, m) * Total(results, n)

-----------------------------------------------------------------------------
(* What propagation promises for a graph without cycles: a node changes by *)
(* its own adjustment and by what reaches it over all its edges.           *)
Walked(edges, overrides) ==
    LET own == [n \in Nodes |-> Adjustment(overrides, n)]
        walk[k \in 0 .. Len(NodeOrder)] ==
            IF k = 0 THEN own
            ELSE [n \in Nodes |-> own[n] + Inflow(edges, walk[k - 1], n)] IN
    walk[Len(NodeOrder)]

Acyclic(edges) ==
    \A S \in (SUBSET Nodes) \ {{}} : \E n \in S : ~\E e \in edges : e.target = n /\ e.source \in S
=============================================================================
