----------------------------- MODULE CallRecursion -----------------------------
(***************************************************************************)
(* What analyzeRecursion of utils/wasm-static-analysis.ts does with the    *)
(* components that CallComponents finds.  For each recursive one, in turn, *)
(* shortestCycleInScc searches breadth-first from every member, and then   *)
(* enumerateCyclesInScc lists the simple cycles after Johnson, up to a     *)
(* limit.  circuit calls itself; its open calls are the path.              *)
(***************************************************************************)
EXTENDS CallComponents

CONSTANT Limits  \* the values maxCycles may have

ASSUME LimitsAssumption == Limits \subseteq Nat

VARIABLES
    examined,  \* the number of components that are done
    members,   \* of the component at hand
    waiting,   \* the members that are still to be a start
    start,
    shortest,  \* the length of the shortest cycle so far; above Len(calls): none
    dist, queue,
    from,      \* the function taken off the queue ...
    edges,     \* ... and its calls still to be looked at
    maxCycles, cycles,
    path,      \* the code's stack, one function per open call of circuit
    rest,      \* per function the calls its circuit has still to look at
    found,     \* the functions whose circuit has found a cycle
    blocked, blockMap

component == <<stage, examined, members, maxCycles>>
starts == <<waiting, start>>
searching == <<shortest, dist, queue, from, edges>>
enumeration == <<cycles, path, rest, found, blocked, blockMap>>
examination == <<examined, members, maxCycles, starts, searching, enumeration>>

Unexamined == /\ examined = 0 /\ members = {}
              /\ waiting = {} /\ start = Unset
              /\ shortest = 0 /\ dist = <<>> /\ queue = <<>> /\ from = Unset /\ edges = <<>>
              /\ maxCycles = 0 /\ cycles = <<>> /\ path = <<>> /\ rest = <<>> /\ found = {}
              /\ blocked = {} /\ blockMap = <<>>

RecursionInit == TarjanInit /\ Unexamined

\* The calls of v that stay within the component.
IntraCalls(v) == Called(v) \cap members

\* The members are sorted, and the loops begin with each in turn.
IsNextStart(s) == s \in waiting /\ \A v \in waiting : s <= v

ReturnSccs == /\ Connected
              /\ stage' = "classify"
              /\ maxCycles' \in Limits
              /\ UNCHANGED <<examined, members, starts, searching, enumeration>>

PassBy == /\ stage = "classify" /\ examined < Len(sccs)
          /\ ClassifyScc(sccs[examined + 1]) = "non_recursive"
          /\ examined' = examined + 1
          /\ UNCHANGED <<stage, members, maxCycles, starts, searching, enumeration>>

BeginComponent == /\ stage = "classify" /\ examined < Len(sccs)
                  /\ ClassifyScc(sccs[examined + 1]) # "non_recursive"
                  /\ stage' = "search"
                  /\ members' = sccs[examined + 1] /\ waiting' = members'
                  /\ shortest' = Len(calls) + 1
                  /\ queue' = <<>> /\ edges' = <<>>
                  /\ UNCHANGED <<examined, maxCycles, start, dist, from, enumeration>>

-----------------------------------------------------------------------------
(* shortestCycleInScc                                                      *)

BeginSearch == /\ stage = "search" /\ queue = <<>> /\ edges = <<>>
               /\ \E s \in members :
                     /\ IsNextStart(s)
                     /\ start' = s /\ waiting' = waiting \ {s}
                     /\ dist' = [v \in Functions |-> IF v = s THEN 0 ELSE Unset]
                     /\ queue' = <<s>>
               /\ UNCHANGED <<component, shortest, from, edges, enumeration>>

Dequeue == /\ stage = "search" /\ edges = <<>> /\ queue # <<>>
           /\ from' = Head(queue) /\ queue' = Tail(queue)
           /\ edges' = calls[from' + 1]
           /\ UNCHANGED <<component, starts, shortest, dist, enumeration>>

NextEdge(v) == /\ stage = "search" /\ edges # <<>> /\ v = Head(edges)
               /\ edges' = Tail(edges)
               /\ UNCHANGED <<component, starts, from, enumeration>>

LookAtStart == /\ NextEdge(start)
               /\ shortest' = Lesser(shortest, dist[from] + 1)
               /\ UNCHANGED <<dist, queue>>

\* A function is searched further only if a shorter cycle may lie behind it.
Promising(d) == d < shortest

Discover == \E v \in members :
               /\ NextEdge(v) /\ v # start /\ dist[v] = Unset
               /\ LET d == dist[from] + 1
                  IN  /\ dist' = [dist EXCEPT ![v] = d]
                      /\ queue' = IF Promising(d) THEN Append(queue, v) ELSE queue
               /\ UNCHANGED shortest

\* A call out of the component, or of a function that was discovered before.
LookElse == /\ edges # <<>>
            /\ LET v == Head(edges)
               IN  /\ NextEdge(v)
                   /\ v \in members => v # start /\ dist[v] # Unset
            /\ UNCHANGED <<shortest, dist, queue>>

EndSearch == /\ stage = "search" /\ queue = <<>> /\ edges = <<>> /\ waiting = {}
             /\ stage' = "enumerate"
             /\ waiting' = members
             /\ cycles' = <<>> /\ path' = <<>> /\ rest' = [v \in Functions |-> <<>>] /\ found' = {}
             /\ blocked' = {} /\ blockMap' = [v \in Functions |-> {}]
             /\ UNCHANGED <<examined, members, maxCycles, start, searching>>

-----------------------------------------------------------------------------
(* enumerateCyclesInScc                                                    *)

Limited == Len(cycles) >= maxCycles

\* Only the members from start onward are reset, but a circuit enters all.
BeginCircuits == /\ stage = "enumerate" /\ path = <<>> /\ ~Limited
                 /\ \E s \in members :
                       /\ IsNextStart(s)
                       /\ start' = s /\ waiting' = waiting \ {s}
                       /\ path' = <<s>>
                       /\ rest' = [rest EXCEPT ![s] = calls[s + 1]]
                       /\ found' = found \ {s}
                       /\ blocked' = (blocked \ waiting) \cup {s}
                       /\ blockMap' = [v \in Functions |-> IF v \in waiting THEN {} ELSE blockMap[v]]
                 /\ UNCHANGED <<component, searching, cycles>>

\* The innermost circuit is at its next call, of w.
Inner == Last(path)
TakeEdge(w) == /\ stage = "enumerate" /\ path # <<>>
               /\ rest[Inner] # <<>> /\ w = Head(rest[Inner])
               /\ UNCHANGED <<component, starts, searching>>

\* circuit returns, and tells its caller whether it has found a cycle.
Leave(success) == /\ path' = Front(path)
                  /\ found' = IF success /\ Len(path) > 1 THEN found \cup {path[Len(path) - 1]} ELSE found

\* The path is a cycle.
CloseCycle == /\ TakeEdge(start)
              /\ cycles' = Append(cycles, path)
              /\ rest' = [rest EXCEPT ![Inner] = Tail(@)]
              /\ IF Len(cycles) + 1 >= maxCycles THEN Leave(TRUE)
                 ELSE found' = found \cup {Inner} /\ UNCHANGED path
              /\ UNCHANGED <<blocked, blockMap>>

Deepen == /\ ~Limited
          /\ \E w \in members :
                /\ TakeEdge(w) /\ w # start /\ w \notin blocked
                /\ path' = Append(path, w)
                /\ rest' = [rest EXCEPT ![Inner] = Tail(@), ![w] = calls[w + 1]]
                /\ found' = found \ {w}
                /\ blocked' = blocked \cup {w}
          /\ UNCHANGED <<cycles, blockMap>>

\* A call out of the component, of a blocked function, or after the limit.
Decline == /\ path # <<>> /\ rest[Inner] # <<>>
           /\ LET w == Head(rest[Inner])
              IN  /\ TakeEdge(w)
                  /\ w \in members => w # start /\ (w \in blocked \/ Limited)
           /\ rest' = [rest EXCEPT ![Inner] = Tail(@)]
           /\ UNCHANGED <<cycles, path, found, blocked, blockMap>>

FreedAlone(v) == {v}                                           \* mutant

\* unblock: v, and all the blocked functions that wait for one of them.
Freed(v) == {u \in members :
               \A S \in SUBSET members :
                  v \in S /\ (\A x \in S : blockMap[x] \cap blocked \subseteq S) => u \in S}

LeaveFound == /\ stage = "enumerate" /\ path # <<>> /\ rest[Inner] = <<>> /\ Inner \in found
              /\ Leave(TRUE)
              /\ LET freed == Freed(Inner)
                 IN  /\ blocked' = blocked \ freed
                     /\ blockMap' = [v \in Functions |-> IF v \in freed THEN {} ELSE blockMap[v]]
              /\ UNCHANGED <<component, starts, searching, cycles, rest>>

LeaveEmpty == /\ stage = "enumerate" /\ path # <<>> /\ rest[Inner] = <<>> /\ Inner \notin found
              /\ Leave(FALSE)
              /\ blockMap' = [w \in Functions |-> IF w \in IntraCalls(Inner) THEN blockMap[w] \cup {Inner}
                                                  ELSE blockMap[w]]
              /\ UNCHANGED <<component, starts, searching, cycles, rest, blocked>>

Enumerated == stage = "enumerate" /\ path = <<>> /\ (waiting = {} \/ Limited)

EndComponent == /\ Enumerated
                /\ stage' = "classify"
                /\ examined' = examined + 1
                /\ UNCHANGED <<members, maxCycles, starts, searching, enumeration>>

Examine == \/ ReturnSccs \/ PassBy \/ BeginComponent
           \/ BeginSearch \/ Dequeue \/ LookAtStart \/ Discover \/ LookElse \/ EndSearch
           \/ BeginCircuits \/ CloseCycle \/ Deepen \/ Decline \/ LeaveFound \/ LeaveEmpty
           \/ EndComponent

RecursionNext == \/ TarjanNext /\ UNCHANGED examination
                 \/ Examine /\ UNCHANGED <<calls, tarjan>>

RecursionSpec == RecursionInit /\ [][RecursionNext]_<<calls, tarjan, stage, examination>>

-----------------------------------------------------------------------------
(* properties                                                              *)

\* The reference: the paths that return to where they began and repeat no
\* function in between.
SimpleCycles ==
    {p \in UNION {[1..k -> members] : k \in 1..Cardinality(members)} :
        /\ IsInjective(p)
        /\ \A i \in 1..(Len(p) - 1) : p[i + 1] \in Called(p[i])
        /\ p[1] \in Called(p[Len(p)])}

\* However the search is pruned (line 2244), the length reported is that of
\* the shortest cycle.
ShortestExact ==
    /\ \E p \in SimpleCycles : shortest = Len(p)
    /\ \A p \in SimpleCycles : shortest <= Len(p)

\* The calls a cycle is made of, wherever it is said to begin.
Links(p) == {<<p[i], p[(i % Len(p)) + 1]>> : i \in 1..Len(p)}

\* What is enumerated (lines 2151-2154) are simple cycles, none twice from the
\* same function.  Below the limit none is missing, in spite of what stays
\* blocked from one start to the next.
EnumerationExact ==
    /\ IsInjective(cycles) /\ ToSet(cycles) \subseteq SimpleCycles
    /\ Len(cycles) < maxCycles =>
          \A p \in SimpleCycles : \E q \in ToSet(cycles) : Links(q) = Links(p)

\* What the report says of the cycles of a recursive component.
CyclesExact == Enumerated => ShortestExact /\ EnumerationExact

\* "enumerates cycles up to maxCycles and does not exceed the limit"
\* (tests/wasm-recursion.test.ts, line 391).  The frames open when the limit is
\* met go on with their calls (lines 2185 to 2190), and each may add a cycle.
LimitKept == Enumerated => Len(cycles) <= maxCycles
=============================================================================
