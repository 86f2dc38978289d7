---------------------------- MODULE BoundedSearch ----------------------------
(***************************************************************************)
(* bounded_astar (planning.py): one step is one turn of its loop.  The     *)
(* problem, its estimates and its ceilings are chosen at the start.  A     *)
(* state is its key, two states are joined by at most one edge, and a heap *)
(* entry is <<estimated total, cost so far, node>>: the same cost is never *)
(* pushed twice for a node, so the serial number decides nothing.          *)
(***************************************************************************)
EXTENDS Integers, FiniteSets

CONSTANTS
    SearchNodes, StartNode, GoalNodes,
    Arcs,               \* pairs of nodes an edge may join
    EdgeCosts,          \* edge costs, 0 where there is no edge
    Heuristics,         \* functions from nodes to estimates
    Ceilings            \* records of expansions and neighbors allowed

ASSUME BoundedSearchAssumption ==
    /\ IsFiniteSet(SearchNodes)
    /\ StartNode \in SearchNodes /\ GoalNodes \subseteq SearchNodes
    /\ Arcs \subseteq SearchNodes \X SearchNodes
    /\ SearchNodes \subseteq Nat /\ EdgeCosts \subseteq Nat
    /\ Heuristics \subseteq [SearchNodes -> Nat]
    /\ \A c \in Ceilings : c.expansions > 0 /\ c.neighbors > 0

VARIABLES
    problem,            \* edge costs, heuristic and ceilings of this search
    frontier,           \* the heap
    bestCost,           \* least cost found, of the nodes seen
    cameFrom,           \* the node a seen node was best reached from
    expanded,
    found               \* the result, or Searching's

searchVars == <<problem, frontier, bestCost, cameFrom, expanded, found>>

Searching == [disposition |-> "searching", total |-> -1]
SearchResult(disposition, total) == [disposition |-> disposition, total |-> total]

SearchInit ==
    /\ problem \in [cost : [Arcs -> EdgeCosts], estimate : Heuristics, ceiling : Ceilings]
    /\ frontier = {<<problem.estimate[StartNode], 0, StartNode>>}
    /\ bestCost = [n \in {StartNode} |-> 0]
    /\ cameFrom = [n \in {} |-> StartNode]
    /\ expanded = 0
    /\ found = Searching

-----------------------------------------------------------------------------
Before(a, b) ==
    \/ a[1] < b[1]
    \/ a[1] = b[1] /\ a[2] < b[2]
    \/ a[1] = b[1] /\ a[2] = b[2] /\ a[3] < b[3]
Least == CHOOSE e \in frontier : \A d \in frontier \ {e} : Before(e, d)

Successors(n) == {m \in SearchNodes : <<n, m>> \in Arcs /\ problem.cost[<<n, m>>] > 0}

\* Mutant of Improves: a node once seen is never reached better.
ImprovesUnseen(m, cost) == m \notin DOMAIN bestCost
Improves(m, cost) == m \in DOMAIN bestCost => cost < bestCost[m]

\* A heap entry overtaken by a better one is passed over.
PassOver ==
    /\ frontier # {}
    /\ Least[2] # bestCost[Least[3]]
    /\ frontier' = frontier \ {Least}
    /\ UNCHANGED <<problem, bestCost, cameFrom, expanded, found>>

Pops == frontier # {} /\ Least[2] = bestCost[Least[3]] /\ frontier' = frontier \ {Least}

ReachGoal ==
    /\ Pops
    /\ Least[3] \in GoalNodes
    /\ found' = SearchResult("found", Least[2])
    /\ UNCHANGED <<problem, bestCost, cameFrom, expanded>>

ReachExpansionCeiling ==
    /\ Pops
    /\ Least[3] \notin GoalNodes
    /\ expanded >= problem.ceiling.expansions
    /\ found' = SearchResult("budget_exhausted", -1)
    /\ UNCHANGED <<problem, bestCost, cameFrom, expanded>>

ReachNeighborCeiling ==
    /\ Pops
    /\ Least[3] \notin GoalNodes
    /\ expanded < problem.ceiling.expansions
    /\ Cardinality(Successors(Least[3])) > problem.ceiling.neighbors
    /\ expanded' = expanded + 1
    /\ found' = SearchResult("budget_exhausted", -1)
    /\ UNCHANGED <<problem, bestCost, cameFrom>>

Expand ==
    LET node == Least[3]
        CostTo(m) == Least[2] + problem.cost[<<node, m>>]
        better == {m \in Successors(node) : Improves(m, CostTo(m))} IN
    /\ frontier # {}
    /\ Least[2] = bestCost[node]
    /\ node \notin GoalNodes
    /\ expanded < problem.ceiling.expansions
    /\ Cardinality(Successors(node)) <= problem.ceiling.neighbors
    /\ expanded' = expanded + 1
    /\ bestCost' = [m \in DOMAIN bestCost \cup better |->
                        IF m \in better THEN CostTo(m) ELSE bestCost[m]]
    /\ cameFrom' = [m \in DOMAIN cameFrom \cup better |->
                        IF m \in better THEN node ELSE cameFrom[m]]
    /\ frontier' = (frontier \ {Least})
                   \cup {<<CostTo(m) + problem.estimate[m], CostTo(m), m>> : m \in better}
    /\ UNCHANGED <<problem, found>>

ExhaustFrontier ==
    /\ frontier = {}
    /\ found' = SearchResult("exhausted", -1)
    /\ UNCHANGED <<problem, frontier, bestCost, cameFrom, expanded>>

SearchNext ==
    /\ found = Searching
    /\ PassOver \/ ReachGoal \/ ReachExpansionCeiling \/ ReachNeighborCeiling
       \/ Expand \/ ExhaustFrontier

SearchSpec == SearchInit /\ [][SearchNext]_searchVars

-----------------------------------------------------------------------------
\* _reconstruct: back from a node to the start, by cameFrom.
PathCost(goal) ==
    LET walk[n \in SearchNodes] ==
            IF n \in DOMAIN cameFrom
            THEN walk[cameFrom[n]] + problem.cost[<<cameFrom[n], n>>] ELSE 0
    IN walk[goal]

\* What the walks from each node to a goal cost, over at most as many edges as
\* there are nodes: one that comes back to a node is not a cheapest.
WalkCosts ==
    LET costs[k \in 0..Cardinality(SearchNodes)] ==
            [n \in SearchNodes |->
                (IF n \in GoalNodes THEN {0} ELSE {})
                \cup (IF k = 0 THEN {}
                      ELSE UNION {{problem.cost[<<n, m>>] + c : c \in costs[k - 1][m]}
                                    : m \in Successors(n)})]
    IN costs[Cardinality(SearchNodes)]

\* A search that ends within its ceilings answers for the whole graph: found,
\* the path kept costs exactly the total reported, though an ancestor may have
\* been reached better since; under estimates that never exceed what is left to
\* go, consistent or not, no walk to a goal costs less; exhausted, there is none.
SearchIsOptimal ==
    /\ found.disposition = "found" =>
        /\ \E n \in GoalNodes \cap DOMAIN bestCost :
              bestCost[n] = found.total /\ PathCost(n) = found.total
        /\ (\A n \in SearchNodes : \A c \in WalkCosts[n] : problem.estimate[n] <= c) =>
              \A c \in WalkCosts[StartNode] : found.total <= c
    /\ found.disposition = "exhausted" => WalkCosts[StartNode] = {}
=============================================================================
