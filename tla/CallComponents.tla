---------------------------- MODULE CallComponents ----------------------------
(***************************************************************************)
(* tarjanScc of utils/wasm-static-analysis.ts, as analyzeRecursion runs it *)
(* on the calls of a binary: the components of functions that call each    *)
(* other.  strongConnect calls itself; its open calls are the frames.      *)
(***************************************************************************)
EXTENDS Integers, Sequences, FiniteSets, SequencesExt

VARIABLES
    calls,    \* per function the functions it calls, in the order of the first call
    index,
    lowlink,
    counter,
    opened,   \* the code's stack, which onStack mirrors
    frames,   \* the functions whose strongConnect has not returned, the latest last
    ahead,    \* per function the calls that its loop has yet to look at
    stage,    \* of analyzeRecursion: connect, and then those of CallRecursion
    sccs      \* in the order of their ids, each the set of its members

numbering == <<index, lowlink, counter>>
tarjan == <<numbering, opened, frames, ahead, sccs>>

\* Functions are numbered from 0: calls[v + 1] is what function v calls.  A
\* call of a function that does not exist is no edge (line 2348).
Functions == 0..(Len(calls) - 1)
Called(v) == ToSet(calls[v + 1]) \cap Functions

Unset == -1
Lesser(a, b) == IF a <= b THEN a ELSE b

NoIndex(graph) == [v \in 0..(Len(graph) - 1) |-> Unset]

Unseen == /\ index = NoIndex(calls) /\ lowlink = NoIndex(calls) /\ counter = 0
          /\ opened = <<>> /\ frames = <<>> /\ ahead = calls /\ sccs = <<>>

TarjanInit == /\ calls \in Seq({s \in Seq(Nat) : IsInjective(s)})
              /\ stage = "connect" /\ Unseen

-----------------------------------------------------------------------------
(* strongConnect                                                           *)

Enter(v) == /\ index' = [index EXCEPT ![v] = counter]
            /\ lowlink' = [lowlink EXCEPT ![v] = counter]
            /\ counter' = counter + 1
            /\ opened' = Append(opened, v)
            /\ frames' = Append(frames, v)
            /\ UNCHANGED <<calls, sccs>>

\* The outer loop goes on to the first function not seen yet.
Connect == /\ frames = <<>>
           /\ \E v \in Functions : /\ index[v] = Unset
                                   /\ \A u \in Functions : index[u] = Unset => v <= u
                                   /\ Enter(v)
           /\ UNCHANGED ahead

\* The innermost frame is at its next call, of w.
Caller == Last(frames)
TakeCall(w) == /\ frames # <<>>
               /\ ahead[Caller + 1] # <<>> /\ w = Head(ahead[Caller + 1])
               /\ ahead' = [ahead EXCEPT ![Caller + 1] = Tail(@)]

FollowNew == \E w \in Functions : TakeCall(w) /\ index[w] = Unset /\ Enter(w)

Lower(v, i) == lowlink' = [lowlink EXCEPT ![v] = Lesser(@, i)]

FollowClosed == \E w \in Functions :                           \* mutant
                   /\ TakeCall(w) /\ index[w] # Unset
                   /\ Lower(Caller, index[w])
                   /\ UNCHANGED <<calls, index, counter, opened, frames, sccs>>

\* Into a function that is still open.
FollowOpen == \E w \in ToSet(opened) :
                 /\ TakeCall(w)
                 /\ Lower(Caller, index[w])
                 /\ UNCHANGED <<calls, index, counter, opened, frames, sccs>>

\* Into a function whose component is known, or that does not exist.
FollowElse == /\ frames # <<>> /\ ahead[Caller + 1] # <<>>
              /\ LET w == Head(ahead[Caller + 1])
                 IN  /\ TakeCall(w) /\ w \notin ToSet(opened)
                     /\ w \in Functions => index[w] # Unset
              /\ UNCHANGED <<calls, numbering, opened, frames, sccs>>

\* strongConnect returns, and its caller takes over the lowlink.
Return == /\ frames # <<>> /\ ahead[Caller + 1] = <<>>
          /\ frames' = Front(frames)
          /\ IF Len(frames) = 1 THEN UNCHANGED lowlink
             ELSE Lower(Last(Front(frames)), lowlink[Caller])
          /\ UNCHANGED <<calls, index, counter, ahead>>

\* The stack down to the function is a component.
PopComponent == /\ Return
                /\ lowlink[Caller] = index[Caller]
                /\ LET bottom == CHOOSE i \in 1..Len(opened) : opened[i] = Caller
                   IN  /\ opened' = SubSeq(opened, 1, bottom - 1)
                       /\ sccs' = Append(sccs, ToSet(SubSeq(opened, bottom, Len(opened))))

StayOpen == /\ Return
            /\ lowlink[Caller] # index[Caller]
            /\ UNCHANGED <<opened, sccs>>

TarjanNext == /\ stage = "connect"
              /\ \/ Connect \/ FollowNew \/ FollowOpen \/ FollowElse
                 \/ PopComponent \/ StayOpen
              /\ UNCHANGED stage

TarjanSpec == TarjanInit /\ [][TarjanNext]_<<calls, tarjan, stage>>

\* tarjanScc is about to return.
Connected == /\ stage = "connect"
             /\ frames = <<>> /\ \A v \in Functions : index[v] # Unset

ClassifyScc(members) ==
    CASE Cardinality(members) = 1 ->
             IF \E v \in members : v \in Called(v)
             THEN "direct_self_recursion" ELSE "non_recursive"
      [] Cardinality(members) = 2 -> "mutual_recursion_two"
      [] OTHER -> "multi_function_cycle"

Recursive == {members \in ToSet(sccs) : ClassifyScc(members) # "non_recursive"}

-----------------------------------------------------------------------------
(* properties                                                              *)

\* The reference: a chain of calls leads from v to w if w is in every set of
\* functions that holds what v calls and what its members call.
Calling(v, w) == \A S \in SUBSET Functions :
                    Called(v) \subseteq S /\ (\A u \in S : Called(u) \subseteq S) => w \in S

\* The components are the classes of functions that call each other, each
\* reported once and after those it calls ("SCC 0 = sink-most", line 1894);
\* the recursive ones (lines 2252-2263) hold exactly the functions that a
\* chain of calls leads back to.
Classes ==
    /\ \A v \in Functions : Cardinality({i \in DOMAIN sccs : v \in sccs[i]}) = 1
    /\ \A i \in DOMAIN sccs : \A v \in sccs[i] : \A w \in Functions :
          /\ w \in sccs[i] <=> w = v \/ (Calling(v, w) /\ Calling(w, v))
          /\ Calling(v, w) => \E j \in 1..i : w \in sccs[j]
    /\ UNION Recursive = {v \in Functions : Calling(v, v)}

ComponentsExact == Connected => Classes
=============================================================================
