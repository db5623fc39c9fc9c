----------------------------- MODULE Dominators -----------------------------
(***************************************************************************)
(* computeDominators of src/examples/218-wasm-dominators.ts, run on the    *)
(* graph that CfgBuilder has built: the blocks reachable from the entry,   *)
(* their reverse post-order, and the algorithm of Cooper, Harvey and       *)
(* Kennedy, which sweeps over them until no immediate dominator changes.   *)
(***************************************************************************)
EXTENDS CfgBuilder

CONSTANT None   \* the code's -1

ASSUME NoneAssumption == None \notin Int

VARIABLES
    pc,        \* build, reach, dfs, sweep, meet, done
    reachable, \* the result of reachableBlocks
    stack,     \* the calls of dfs, each with its next successor
    visited,
    rpo,       \* the blocks whose dfs call has returned, last one first
    idom,      \* per reachable block
    at,        \* the sweep's place in rpo
    changed,
    preds,     \* the processed predecessors of rpo[at] still to be met
    fingers    \* finger1 and finger2 of intersect; both are newIdom at its end

search == <<reachable, stack, visited, rpo>>
sweep == <<idom, at, changed>>
meeting == <<preds, fingers>>
vars == <<cfg, builder, pc, search, sweep, meeting>>

Init == /\ BuilderInit
        /\ pc = "build"
        /\ reachable = {} /\ stack = <<>> /\ visited = {} /\ rpo = <<>>
        /\ idom = <<>> /\ at = 0 /\ changed = FALSE
        /\ preds = {} /\ fingers = <<None, None>>

ReadNext == /\ pc = "build"
            /\ Build
            /\ UNCHANGED <<pc, search, sweep, meeting>>

Finish == /\ pc = "build" /\ Built
          /\ pc' = "reach"
          /\ reachable' = {Entry}
          /\ UNCHANGED <<cfg, builder, stack, visited, rpo, sweep, meeting>>

-----------------------------------------------------------------------------
(* reachableBlocks and dfs                                                 *)

Spread(S) == S \cup {b \in Blocks : \E a \in S : Edge(a, b)}

\* One level of the breadth-first search.
Reach == /\ pc = "reach"
         /\ reachable' = Spread(reachable)
         /\ IF Spread(reachable) # reachable
            THEN UNCHANGED <<pc, stack, visited>>
            ELSE pc' = "dfs" /\ stack' = <<<<Entry, 1>>>> /\ visited' = {Entry}
         /\ UNCHANGED <<cfg, builder, rpo, sweep, meeting>>

Block == stack[1][1]
NextSuccessor == stack[1][2]
Later == <<Block, NextSuccessor + 1>>

\* dfs looks at one more successor, and calls itself unless it was visited.
Descend == /\ pc = "dfs" /\ stack # <<>>
           /\ NextSuccessor <= Len(successors[Block])
           /\ LET s == successors[Block][NextSuccessor] IN
              IF s \in reachable \ visited
              THEN stack' = <<<<s, 1>>, Later>> \o Tail(stack) /\ visited' = visited \cup {s}
              ELSE stack' = <<Later>> \o Tail(stack) /\ UNCHANGED visited
           /\ UNCHANGED <<cfg, builder, pc, reachable, rpo, sweep, meeting>>

Ordered(b, s) == <<b>> \o s

\* dfs returns; the post-order is reversed, so the block comes first.
Ascend == /\ pc = "dfs" /\ stack # <<>>
          /\ NextSuccessor > Len(successors[Block])
          /\ rpo' = Ordered(Block, rpo)
          /\ stack' = Tail(stack)
          /\ UNCHANGED <<cfg, builder, pc, reachable, visited, sweep, meeting>>

BeginSweeps == /\ pc = "dfs" /\ stack = <<>>
               /\ pc' = "sweep"
               /\ idom' = [b \in reachable |-> IF b = Entry THEN Entry ELSE None]
               /\ at' = 1 /\ changed' = FALSE
               /\ UNCHANGED <<cfg, builder, search, meeting>>

-----------------------------------------------------------------------------
(* the sweeps, and intersect                                               *)

Index(b) == CHOOSE i \in 1..Len(rpo) : rpo[i] = b

ProcessedPreds(b) == {p \in reachable : Edge(p, b) /\ idom[p] # None}

\* The entry, or a block without a processed predecessor, is passed over.
PassOver == /\ pc = "sweep" /\ at <= Len(rpo)
            /\ rpo[at] = Entry \/ ProcessedPreds(rpo[at]) = {}
            /\ at' = at + 1
            /\ UNCHANGED <<cfg, builder, pc, search, idom, changed, meeting>>

\* The predecessors are met in the order of their numbers, as their lists
\* were filled.
Visit == /\ pc = "sweep" /\ at <= Len(rpo)
         /\ rpo[at] # Entry /\ ProcessedPreds(rpo[at]) # {}
         /\ LET p == Min(ProcessedPreds(rpo[at])) IN
            fingers' = <<p, p>> /\ preds' = ProcessedPreds(rpo[at]) \ {p}
         /\ pc' = "meet"
         /\ UNCHANGED <<cfg, builder, search, sweep>>

IntersectIgnored == /\ pc = "meet" /\ preds # {}              \* mutant
                    /\ preds' = preds \ {Min(preds)}
                    /\ UNCHANGED <<cfg, builder, pc, search, sweep, fingers>>

\* intersect(processedPreds[i], newIdom) is called.
Intersect == /\ pc = "meet" /\ fingers[1] = fingers[2] /\ preds # {}
             /\ fingers' = <<Min(preds), fingers[1]>>
             /\ preds' = preds \ {Min(preds)}
             /\ UNCHANGED <<cfg, builder, pc, search, sweep>>

\* The finger that stands later in the order.
Behind == {k \in {1, 2} : Index(fingers[k]) > Index(fingers[3 - k])}

Climb == /\ pc = "meet"
         /\ \E k \in Behind : fingers' = [fingers EXCEPT ![k] = idom[@]]
         /\ UNCHANGED <<cfg, builder, pc, search, sweep, preds>>

SettleChanged == /\ pc = "meet" /\ fingers[1] = fingers[2] /\ preds = {}   \* mutant
                 /\ idom' = [idom EXCEPT ![rpo[at]] = fingers[1]]
                 /\ changed' = TRUE
                 /\ at' = at + 1
                 /\ pc' = "sweep"
                 /\ UNCHANGED <<cfg, builder, search, preds, fingers>>

\* All predecessors have met: the block gets its immediate dominator.
Settle == /\ pc = "meet" /\ fingers[1] = fingers[2] /\ preds = {}
          /\ idom' = [idom EXCEPT ![rpo[at]] = fingers[1]]
          /\ changed' = (changed \/ idom' # idom)
          /\ at' = at + 1
          /\ pc' = "sweep"
          /\ UNCHANGED <<cfg, builder, search, preds, fingers>>

\* Another sweep if anything changed; in the end the entry has no dominator.
EndSweep == /\ pc = "sweep" /\ at > Len(rpo)
            /\ IF changed
               THEN at' = 1 /\ changed' = FALSE /\ UNCHANGED <<pc, idom>>
               ELSE pc' = "done" /\ idom' = [idom EXCEPT ![Entry] = None]
                    /\ UNCHANGED <<at, changed>>
            /\ UNCHANGED <<cfg, builder, search, meeting>>

Search == Reach \/ Descend \/ Ascend \/ BeginSweeps
Sweep == PassOver \/ Visit \/ Intersect \/ Climb \/ Settle \/ EndSweep

Next == ReadNext \/ Finish \/ Search \/ Sweep

Spec == Init /\ [][Next]_vars

\* A computation on one thread: it goes on while it can.
FairSpec == Spec /\ WF_vars(Next)

-----------------------------------------------------------------------------
(* what is reported about the tree, once it stands                         *)

Children(a) == {b \in reachable : idom[b] = a}

\* The walk from b to the root, b included.
Ancestors(b) ==
    LET A[k \in 0..Len(rpo)] ==
            IF k = 0 THEN {b} ELSE A[k - 1] \cup ({idom[a] : a \in A[k - 1]} \ {None})
    IN  A[Len(rpo)]

\* The breadth-first walk down the tree that numbers its levels.
Level[k \in 0..Len(rpo)] == IF k = 0 THEN {Entry} ELSE UNION {Children(a) : a \in Level[k - 1]}
Depth(b) == CHOOSE k \in 0..Len(rpo) : b \in Level[k]

\* A block adds its size, itself included, to its parent's.
AddToParent(size, b) ==
    LET own == size[b] + 1
    IN  [c \in reachable |-> IF c = b THEN own
                             ELSE IF c = idom[b] THEN size[c] + own
                             ELSE size[c]]

SubtreeSizeRootFirst ==                                       \* mutant
    LET size[k \in 0..Len(rpo)] == IF k = 0 THEN [b \in reachable |-> 0]
                                   ELSE AddToParent(size[k - 1], rpo[k])
    IN  size[Len(rpo)]

\* Leaves first.
SubtreeSize ==
    LET size[k \in 0..Len(rpo)] == IF k = 0 THEN [b \in reachable |-> 0]
                                   ELSE AddToParent(size[k - 1], rpo[Len(rpo) + 1 - k])
    IN  size[Len(rpo)]

LoopHeaderDominators == UNION {Ancestors(h) \ {h} : h \in loopHeaders \cap reachable}

\* A block that ends in a jump counts as an exit, wherever it jumps to.
ExitIds == {b \in reachable : successors[b] = <<>> \/ b \in terminating}
ExitDominators == {a \in reachable : ExitIds # {} /\ \A e \in ExitIds : a \in Ancestors(e)}

-----------------------------------------------------------------------------
(* properties                                                              *)

TypeOK == /\ CfgTypeOK
          /\ pc \in {"build", "reach", "dfs", "sweep", "meet", "done"}
          /\ reachable \subseteq Blocks /\ visited \subseteq Blocks
          /\ stack \in Seq(Blocks \X (Nat \ {0})) /\ rpo \in Seq(Blocks)
          /\ idom \in IF pc \in {"sweep", "meet", "done"} THEN [reachable -> reachable \cup {None}]
                                                           ELSE {<<>>}
          /\ at \in Nat /\ changed \in BOOLEAN
          /\ preds \subseteq Blocks /\ fingers \in (Blocks \cup {None}) \X (Blocks \cup {None})

HasElse == \E i \in 1..Len(prog) : prog[i].op = "else"
HomeOf(i) == IF i = Out(prog) THEN Exit ELSE home[i]

\* A transfer of the program stays in its block or follows an edge.
Follows(i, j) == (j = i + 1 /\ HomeOf(i) = HomeOf(j)) \/ Edge(HomeOf(i), HomeOf(j))

\* "the resulting edges are conservative and correct for dominance purposes"
\* (lines 24-25): whatever can be executed next is reached by an edge.
EdgesConservative == pc = "reach" /\ Complete =>
    \A i \in 1..Len(prog) : \A j \in Transfers(prog, i) : Follows(i, j)

\* For bodies without "else" buildCfg is exact: the edges are conservative
\* and every edge is a transfer of the program, so that no dominator is lost.
EdgesExact == pc = "reach" /\ Complete /\ ~HasElse =>
    /\ \A i \in 1..Len(prog) : \A j \in Transfers(prog, i) : Follows(i, j)
    /\ \A a, b \in Blocks : Edge(a, b) =>
          \E i \in 1..Len(prog) : HomeOf(i) = a /\ \E j \in Transfers(prog, i) : HomeOf(j) = b

\* The reference: what can be reached from the entry without passing a.
Avoiding(a) ==
    LET R[k \in 0..Len(successors)] ==
            IF k = 0 THEN {Entry} \ {a} ELSE Spread(R[k - 1]) \ {a}
    IN  R[Len(successors)]

Dominates(a, b) == b \in Avoiding(None) \ Avoiding(a)
StrictDominators(b) == {a \in Avoiding(None) \ {b} : Dominates(a, b)}

\* The sweeps end at the immediate dominators of the graph: each is a strict
\* dominator that all the other strict dominators dominate, and every
\* reachable block but the entry has one.
IdomsExact == pc = "done" =>
    /\ reachable = Avoiding(None)
    /\ \A b \in reachable : IF b = Entry THEN idom[b] = None
          ELSE /\ idom[b] \in StrictDominators(b)
               /\ \A a \in StrictDominators(b) : Dominates(a, idom[b])

\* The numbers reported are those of the dominance relation: the depth counts
\* strict dominators, the subtree size counts dominated blocks (the parents
\* must have been added up last), the two lists are what dominates loop headers
\* and, of the blocks that are no exits, what dominates every exit.  (Line 548
\* excludes the exit itself from its list, the code does not.)
MeasuresExact == pc = "done" =>
    /\ \A b \in reachable : /\ Depth(b) = Cardinality(StrictDominators(b))
                             /\ SubtreeSize[b] = Cardinality({c \in reachable : Dominates(b, c)})
    /\ LoopHeaderDominators = UNION {StrictDominators(h) : h \in loopHeaders \cap reachable}
    /\ ExitDominators \ ExitIds =
          {a \in reachable \ ExitIds : \A e \in ExitIds : Dominates(a, e)}

\* What the report is for (lines 15-19): for bodies without "else" a block is
\* reported reachable exactly when an execution can enter it, and no execution
\* enters it without having entered each of its reported ancestors.
MustPass == pc = "done" /\ Complete /\ ~HasElse =>
    /\ reachable = {HomeOf(i) : i \in Executed(prog, {})}
    /\ \A b \in reachable : \A a \in Ancestors(b) \ {b} :
          \A i \in Executed(prog, {j \in 1..Len(prog) : home[j] = a}) : HomeOf(i) # b

\* The analysis of a function comes to an end, nested loops included.
Terminates == <>(pc = "done")

=============================================================================
