----------------------------- MODULE MCWasmGraphs -----------------------------
(* The graph analyses of a binary: that of the control flow in a function   *)
(* body, and those of the calls between its functions.  Neither kind reads  *)
(* what the other does: the call graphs follow the smallest body.           *)
EXTENDS MCDominators, CallRecursion, CallGraphs

AnyOrder(fs) == {s \in UNION {[1..k -> fs] : k \in 0..Cardinality(fs)} : IsInjective(s)}
IsAscending(s) == \A i \in 1..(Len(s) - 1) : s[i] < s[i + 1]

\* Three functions with any calls, the first of which calls in any order.
Small(g) == /\ Len(g) <= 3
            /\ \A i \in 1..Len(g) : ToSet(g[i]) \subseteq 0..2 /\ (i = 1 \/ IsAscending(g[i]))

\* Four functions that call two others at most.
Sparse(g) == /\ Len(g) <= 4
             /\ \A i \in 1..Len(g) : Len(g[i]) <= 2 /\ i - 1 \notin ToSet(g[i]) /\ IsAscending(g[i])

MCInit == Init /\ calls = <<>> /\ stage = "connect" /\ Unseen /\ Unexamined

\* A binary with one more function.
AddFunction == /\ pc = "done" /\ prog = <<I("end")>> /\ stage = "connect" /\ counter = 0
               /\ \E s \in AnyOrder(0..3) : calls' = Append(calls, s)
               /\ Small(calls') \/ Sparse(calls')
               /\ index' = NoIndex(calls') /\ lowlink' = NoIndex(calls') /\ ahead' = calls'
               /\ UNCHANGED <<counter, opened, frames, sccs, stage>>

MCNext == \/ Next /\ UNCHANGED <<calls, tarjan, stage, examination>>
          \/ AddFunction /\ UNCHANGED <<vars, examination>>
          \/ calls # <<>> /\ RecursionNext /\ UNCHANGED vars
MCSpec == MCInit /\ [][MCNext]_<<vars, calls, tarjan, stage, examination>>
          /\ WF_<<vars, calls, tarjan, stage, examination>>(MCNext)
=============================================================================
