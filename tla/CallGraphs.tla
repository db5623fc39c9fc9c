------------------------------- MODULE CallGraphs -------------------------------
(***************************************************************************)
(* The analyses of call graphs in src/analyzer: the functions that         *)
(* CallGraphBuilder calls recursive and the depth of its graph, what       *)
(* ReachabilityAnalyzer reaches from the exported functions, and what      *)
(* FunctionDependencyAnalyzer says a function depends on.  Each runs to    *)
(* its end in one call, on the graph of CallComponents; the functions are  *)
(* local ones, as an imported function calls nothing.                      *)
(***************************************************************************)
EXTENDS CallComponents

\* What v calls, in order.
Callees(v) == SelectSeq(calls[v + 1], LAMBDA w : w \in Functions)
InOrder(fs) == SetToSortSeq(fs, <)

InIndexOrder == [i \in 1..Len(calls) |-> i - 1]

-----------------------------------------------------------------------------
(* CallGraphBuilder                                                        *)

RECURSIVE Dfs(_, _)

LookUnstacked(v, w, d) ==                                     \* mutant
    IF d.answer THEN d
    ELSE IF w \notin d.visited
    THEN LET e == Dfs(w, d) IN [e EXCEPT !.recursive = @ \cup IF e.answer THEN {v} ELSE {}]
    ELSE [d EXCEPT !.recursive = @ \cup {v, w}, !.answer = TRUE]

\* One call of v, unless an earlier one made dfs return TRUE.
LookAt(v, w, d) ==
    IF d.answer THEN d
    ELSE IF w \notin d.visited
    THEN LET e == Dfs(w, d) IN [e EXCEPT !.recursive = @ \cup IF e.answer THEN {v} ELSE {}]
    ELSE IF w \in d.recStack THEN [d EXCEPT !.recursive = @ \cup {v, w}, !.answer = TRUE]
    ELSE d

\* dfs(v) with its return value in answer.  A function for which it is TRUE
\* stays in recStack for ever.
Dfs(v, d) ==
    LET entered == [d EXCEPT !.visited = @ \cup {v}, !.recStack = @ \cup {v}, !.answer = FALSE]
        left == FoldLeft(LAMBDA e, w : LookAt(v, w, e), entered, Callees(v))
    IN  IF left.answer THEN left ELSE [left EXCEPT !.recStack = @ \ {v}]

DetectRecursion ==
    FoldLeft(LAMBDA d, v : IF v \in d.visited THEN d ELSE Dfs(v, d),
             [visited |-> {}, recStack |-> {}, recursive |-> {}, answer |-> FALSE],
             InIndexOrder).recursive

Greatest(S) == CHOOSE n \in S : \A m \in S : m <= n

\* Each path has its own set of functions it came through.
RECURSIVE CalculateDepth(_, _)
CalculateDepth(v, visited) ==
    IF v \in visited THEN 0
    ELSE 1 + Greatest({0} \cup {CalculateDepth(w, visited \cup {v}) : w \in ToSet(Callees(v))})

CalculateMaxDepth == Greatest({0} \cup {CalculateDepth(v, {}) : v \in Functions})

-----------------------------------------------------------------------------
(* ReachabilityAnalyzer                                                    *)

\* The root a function is said to be reached from: the first one noted.
FindRoot(roots, v, r) == IF v \in roots THEN <<v>>
                         ELSE IF r.reachedFrom[v] # <<>> THEN <<Head(r.reachedFrom[v])>> ELSE <<>>

\* The entry of w, which a function at this depth below this root calls.
Mark(w, root, depth, r) ==
    [r EXCEPT !.isReachable[w] = TRUE,
              !.reachedFrom[w] = IF ToSet(root) \subseteq ToSet(@) THEN @ ELSE @ \o root,
              !.depth[w] = IF @ = Unset \/ depth + 1 < @ THEN depth + 1 ELSE @]

RECURSIVE TraverseFrom(_, _, _)
TraverseFrom(roots, v, r) ==
    IF v \in r.visited THEN r
    ELSE LET root == FindRoot(roots, v, r)
             depth == r.depth[v]
         IN  FoldLeft(LAMBDA s, w : TraverseFrom(roots, w, Mark(w, root, depth, s)),
                      [r EXCEPT !.visited = @ \cup {v}], Callees(v))

\* The map after the traversal from each root, which begins with no function visited.
ReachabilityMap(roots) ==
    FoldLeft(LAMBDA r, root : TraverseFrom(roots, root, [r EXCEPT !.visited = {}]),
             [visited |-> {},
              isReachable |-> [v \in Functions |-> v \in roots],
              reachedFrom |-> [v \in Functions |-> <<>>],
              depth |-> [v \in Functions |-> IF v \in roots THEN 0 ELSE Unset]],
             InOrder(roots))

-----------------------------------------------------------------------------
(* FunctionDependencyAnalyzer                                              *)

\* traverse: the functions visited and the depth it returns.
RECURSIVE DependsOn(_, _, _)
DependsOn(v, depth, t) ==
    IF v \in t.visited THEN [t EXCEPT !.depth = depth]
    ELSE FoldLeft(LAMBDA s, w : LET u == DependsOn(w, depth + 1, s)
                                IN  [u EXCEPT !.depth = Greatest({s.depth, u.depth})],
                  [visited |-> t.visited \cup {v}, depth |-> depth], InOrder(ToSet(Callees(v))))

TransitiveDependencies(v) == DependsOn(v, 0, [visited |-> {}, depth |-> 0])

-----------------------------------------------------------------------------
(* properties                                                              *)

\* The paths of calls through functions that are all different, longer and
\* longer.
RECURSIVE ChainsFrom(_)
ChainsFrom(paths) ==
    LET longer == {<<p, w>> \in paths \X Functions : w \in ToSet(Callees(Last(p))) \ ToSet(p)}
    IN  IF longer = {} THEN paths ELSE paths \cup ChainsFrom({Append(l[1], l[2]) : l \in longer})

Chains == ChainsFrom({<<v>> : v \in Functions})

\* v calls w, directly or not.
Leads(chains, v, w) == \E p \in chains : p[1] = v /\ w \in ToSet(Callees(Last(p)))

OnCycle(chains) == {v \in Functions : Leads(chains, v, v)}

\* Every function on a cycle of calls counts as recursive (lines 240, 265-301),
\* and none from which no cycle can be reached: what dfs leaves in recStack when
\* it returns early, and the calls it does not get to, neither hide a cycle nor
\* make one.  The depth (lines 303-329) is that of the longest chain.
BuilderTrue(chains) ==
    /\ OnCycle(chains) \subseteq DetectRecursion
    /\ \A v \in DetectRecursion : \E p \in chains : p[1] = v /\ Last(p) \in OnCycle(chains)
    /\ CalculateMaxDepth = Greatest({0} \cup {Len(p) : p \in chains})

\* The roots that call v, directly or not.
RootsOf(chains, roots, v) == {root \in roots : Leads(chains, root, v)}

\* Exactly the roots and what they call, directly or not, is reachable (lines
\* 55-75), and no root is noted for a function that it does not lead to.
ReachabilityTrue(chains, roots) ==
    LET r == ReachabilityMap(roots)
    IN  \A v \in Functions :
            /\ r.isReachable[v] <=> v \in roots \/ RootsOf(chains, roots, v) # {}
            /\ ToSet(r.reachedFrom[v]) \subseteq RootsOf(chains, roots, v)
            /\ IsInjective(r.reachedFrom[v])

\* A function depends on itself and on all it calls, directly or not (lines
\* 79-111); its depth is at most that of the longest chain, on which a call
\* back to a visited function counts.
DependenciesExact(chains, v) ==
    LET t == TransitiveDependencies(v)
        own == {p \in chains : Head(p) = v}
    IN  /\ t.visited = {Last(p) : p \in own}
        /\ t.depth <= Greatest({Len(p) : p \in own})

\* What the analyzer reports of a call graph, looked at once per graph.
CallGraphTrue == Connected =>
    LET chains == Chains
    IN  /\ BuilderTrue(chains)
        /\ \A roots \in SUBSET Functions : ReachabilityTrue(chains, roots)
        /\ \A v \in Functions : DependenciesExact(chains, v)

\* "Track which root this came from" (reachability-analyzer.ts, line 146): each
\* root that leads to a function is noted for it.  findRoot takes the caller
\* itself if it is a root (line 167), or else the first root noted for it (line
\* 172), not the root under traversal.
RootsTracked == Connected =>
    LET chains == Chains
    IN  \A roots \in SUBSET Functions : \A v \in Functions \ roots :
            RootsOf(chains, roots, v) \subseteq ToSet(ReachabilityMap(roots).reachedFrom[v])
=============================================================================
