-------------------------- MODULE DominatorsProofs --------------------------
(***************************************************************************)
(* For every function body, however it branches, and wherever MAX_BLOCKS   *)
(* cuts it off: the state has its type, the sweeps end at the immediate    *)
(* dominators of the graph that buildCfg has built, and the measures of    *)
(* the tree are those of the dominance relation.  For a body that was read *)
(* whole and has no "else", that graph is the program's own control flow,  *)
(* and what is reported is true of its executions.                         *)
(***************************************************************************)
EXTENDS Dominators, FiniteSetTheorems, SequenceTheorems, TLAPS

\* A nonempty set of numbers has a least one: induction, for sets.
LEMMA Least ==
    ASSUME NEW S, S \subseteq Nat, S # {}
    PROVE  \E m \in S : \A n \in S : m <= n
<1>1. PICK m \in S : \A n \in S : <<n, m>> \notin OpToRel(<, Nat)
  BY NatLessThanWellFounded, WFMin
<1>2. \A n \in S : ~(n < m)
  BY <1>1 DEF OpToRel
<1> QED
  BY <1>2

LEMMA MinFacts ==
    ASSUME NEW S, S \subseteq Nat, S # {}
    PROVE  Min(S) \in S /\ \A n \in S : Min(S) <= n
BY Least DEF Min

\* Induction up to n, for a set of numbers.
LEMMA Induct ==
    ASSUME NEW n \in Nat, NEW T, 0 \in T, \A k \in 0..(n - 1) : k \in T => k + 1 \in T
    PROVE  0..n \subseteq T
<1> DEFINE Bad == (0..n) \ T
<1> SUFFICES ASSUME Bad # {} PROVE FALSE
  OBVIOUS
<1>0. Bad \subseteq Nat
  OBVIOUS
<1>1. PICK m \in Bad : \A k \in Bad : m <= k
  <2> HIDE DEF Bad
  <2> QED
    BY <1>0, Least
<1>2. m - 1 \in 0..(n - 1) /\ m - 1 \notin Bad /\ (m - 1) + 1 = m
  BY <1>1
<1> QED
  BY <1>2

\* A function is defined by what it is at 0 and how it goes on from there.
Steps(n, S) == [(1..n) \X S -> S]
Recurs(f, n, S, base, step) ==
    f \in [0..n -> S] /\ f[0] = base /\ \A k \in 1..n : f[k] = step[<<k, f[k - 1]>>]

LEMMA Recursive ==
    ASSUME NEW n \in Nat, NEW S, NEW base \in S, NEW step \in Steps(n, S)
    PROVE  \E f : Recurs(f, n, S, base, step)
<1> USE DEF Steps
<1> DEFINE Upto(m) == \E f \in [0..m -> S] :
               f[0] = base /\ \A k \in 1..m : f[k] = step[<<k, f[k - 1]>>]
           T == {m \in 0..n : Upto(m)}
<1>1. 0 \in T
  <2> DEFINE g == [k \in 0..0 |-> base]
  <2>1. g \in [0..0 -> S] /\ g[0] = base /\ \A k \in 1..0 : FALSE
    OBVIOUS
  <2>2. Upto(0)
    <3> HIDE DEF g
    <3> QED
      BY <2>1
  <2> QED
    BY <2>2
<1>2. ASSUME NEW m \in 0..(n - 1), m \in T PROVE m + 1 \in T
  <2>1. PICK f \in [0..m -> S] : f[0] = base /\ \A k \in 1..m : f[k] = step[<<k, f[k - 1]>>]
    BY <1>2
  <2> DEFINE g == [k \in 0..(m + 1) |-> IF k = m + 1 THEN step[<<m + 1, f[m]>>] ELSE f[k]]
  <2>2. step[<<m + 1, f[m]>>] \in S
    <3>1. <<m + 1, f[m]>> \in (1..n) \X S
      BY <2>1
    <3> QED
      BY <3>1
  <2>3. g \in [0..(m + 1) -> S]
    BY <2>1, <2>2
  <2>a. g[m + 1] = step[<<m + 1, f[m]>>] /\ \A k \in 0..m : g[k] = f[k]
    OBVIOUS
  <2>4. /\ g[0] = base /\ g[m + 1] = step[<<m + 1, g[m]>>]
        /\ \A k \in 0..m : g[k] = f[k]
    <3>1. 0 \in 0..m /\ m \in 0..m
      OBVIOUS
    <3> HIDE DEF g
    <3> QED
      BY <2>1, <2>a, <3>1
  <2> HIDE DEF g
  <2>5. ASSUME NEW k \in 1..(m + 1) PROVE g[k] = step[<<k, g[k - 1]>>]
    <3>1. CASE k = m + 1
      BY <2>4, <3>1
    <3>2. CASE k # m + 1
      <4>1. k \in 1..m /\ k \in 0..m /\ k - 1 \in 0..m
        BY <3>2
      <4> QED
        BY <2>1, <2>4, <4>1
    <3> QED
      BY <3>1, <3>2
  <2>6. Upto(m + 1)
    BY <2>3, <2>4, <2>5
  <2> QED
    BY <2>6
<1> HIDE DEF T
<1>3. n \in T
  BY <1>1, <1>2, Induct
<1> QED
  BY <1>3 DEF T, Recurs

-----------------------------------------------------------------------------
(* the graph                                                               *)

\* A graph: the successors of each of its blocks are blocks of it.
Graph(s) == s \in Seq(Seq(1..Len(s))) /\ Len(s) >= 2

LEMMA AddEdgeType ==
    ASSUME NEW s, Graph(s), NEW a \in 1..Len(s), NEW b \in 1..Len(s)
    PROVE  Graph(AddEdge(s, a, b)) /\ Len(AddEdge(s, a, b)) = Len(s)
<1>1. s[a] \in Seq(1..Len(s))
  BY DEF Graph
<1>2. Append(s[a], b) \in Seq(1..Len(s))
  BY <1>1
<1>3. [s EXCEPT ![a] = Append(@, b)] \in Seq(Seq(1..Len(s)))
  BY <1>2 DEF Graph
<1>4. Len([s EXCEPT ![a] = Append(@, b)]) = Len(s)
  BY DEF Graph
<1> QED
  BY <1>3, <1>4 DEF AddEdge, Graph

LEMMA NewBlocksType ==
    ASSUME NEW s, Graph(s), NEW k \in Nat
    PROVE  Graph(NewBlocks(s, k)) /\ Len(NewBlocks(s, k)) = Len(s) + k
<1> DEFINE new == [i \in 1..k |-> <<>>]
           more == 1..(Len(s) + k)
<1>1. s \in Seq(Seq(more))
  <2>1. \A i \in 1..Len(s) : s[i] \in Seq(1..Len(s))
    BY DEF Graph
  <2>2. 1..Len(s) \subseteq more
    BY DEF Graph
  <2>3. \A i \in 1..Len(s) : s[i] \in Seq(more)
    BY <2>1, <2>2, SeqMonotonic
  <2> QED
    BY <2>3 DEF Graph
<1>2. new \in Seq(Seq(more)) /\ Len(new) = k
  BY <<>> \in Seq(more)
<1>3. s \o new \in Seq(Seq(more)) /\ Len(s \o new) = Len(s) + k
  BY <1>1, <1>2
<1> QED
  BY <1>3 DEF NewBlocks, Graph

LEMMA TargetType ==
    ASSUME CfgTypeOK, NEW d \in Nat, d < Len(labelStack)
    PROVE  Target(d) \in Blocks
<1>1. Len(labelStack) - d \in 1..Len(labelStack)
  BY DEF CfgTypeOK
<1>2. labelStack[Len(labelStack) - d] \in [target : Blocks, after : Blocks]
  BY <1>1, ElementOfSeq DEF CfgTypeOK
<1> QED
  BY <1>2 DEF Target

\* The edges of a branch are added to the graph one after the other.
BranchEdges(f, s, to) ==
    /\ f[0] = s /\ f[Len(to)] = AddBranches(s)
    /\ \A k \in 1..Len(to) : f[k] = IF to[k] < Len(labelStack)
                                    THEN AddEdge(f[k - 1], current, Target(to[k]))
                                    ELSE f[k - 1]

LEMMA AddBranchesRun ==
    ASSUME CfgTypeOK, pos <= Len(prog), NEW S, NEW s \in S,
           \A g \in S : \A d \in Nat :
               d < Len(labelStack) => AddEdge(g, current, Target(d)) \in S
    PROVE  /\ prog[pos].to \in Seq(Nat) /\ Len(prog[pos].to) \in Nat
           /\ \E f \in [0..Len(prog[pos].to) -> S] : BranchEdges(f, s, prog[pos].to)
<1> DEFINE to == prog[pos].to
           added[k \in 0..Len(to)] ==
               IF k = 0 THEN s
               ELSE IF to[k] < Len(labelStack) THEN AddEdge(added[k - 1], current, Target(to[k]))
                                               ELSE added[k - 1]
           step == [x \in (1..Len(to)) \X S |->
                       IF to[x[1]] < Len(labelStack) THEN AddEdge(x[2], current, Target(to[x[1]]))
                                                     ELSE x[2]]
<1>1. to \in Seq(Nat) /\ Len(to) \in Nat
  <2>1. prog \in Seq(Instruction) /\ pos \in 1..Len(prog)
    BY ProgramsAssumption DEF CfgTypeOK
  <2>2. prog[pos] \in Instruction
    BY <2>1
  <2> QED
    BY <2>2 DEF Instruction
<1>5. ASSUME NEW k \in 1..Len(to), NEW g \in S, to[k] < Len(labelStack)
      PROVE  AddEdge(g, current, Target(to[k])) \in S
  <2>1. to[k] \in Nat
    BY <1>1
  <2> HIDE DEF to
  <2> QED
    BY <1>5, <2>1
<1>6. step \in Steps(Len(to), S)
  <2> HIDE DEF to
  <2> QED
    BY <1>5 DEF Steps
<1>7. PICK f : Recurs(f, Len(to), S, s, step)
  <2> HIDE DEF to, step, added
  <2> QED
    BY <1>1, <1>6, Recursive
<1>8. \A k \in 1..Len(to) : f[k] = IF to[k] < Len(labelStack)
                                    THEN AddEdge(f[k - 1], current, Target(to[k]))
                                    ELSE f[k - 1]
  <2> SUFFICES ASSUME NEW k \in 1..Len(to)
               PROVE  f[k] = IF to[k] < Len(labelStack)
                             THEN AddEdge(f[k - 1], current, Target(to[k])) ELSE f[k - 1]
    OBVIOUS
  <2>1. f[k - 1] \in S /\ f[k] = step[<<k, f[k - 1]>>]
    <3>1. k - 1 \in 0..Len(to)
      BY <1>1
    <3> HIDE DEF to, step, added
    <3> QED
      BY <1>7, <3>1 DEF Recurs
  <2> HIDE DEF to, added
  <2> QED
    BY <2>1
<1>9. added = [k \in 0..Len(to) |->
                  IF k = 0 THEN s
                  ELSE IF to[k] < Len(labelStack) THEN AddEdge(added[k - 1], current, Target(to[k]))
                                                  ELSE added[k - 1]]
  <2>1. f = [k \in 0..Len(to) |->
                  IF k = 0 THEN s
                  ELSE IF to[k] < Len(labelStack) THEN AddEdge(f[k - 1], current, Target(to[k]))
                                                  ELSE f[k - 1]]
    <3> HIDE DEF to, step
    <3> QED
      BY <1>1, <1>7, <1>8 DEF Recurs
  <2> HIDE DEF to, step
  <2> QED
    BY <2>1
<1> HIDE DEF added, to
<1>10. \A k \in 0..Len(to) : added[k] \in S
  <2> DEFINE T == {k \in 0..Len(to) : added[k] \in S}
  <2>1. 0 \in T
    BY <1>1, <1>9
  <2>2. ASSUME NEW k \in 0..(Len(to) - 1), k \in T PROVE k + 1 \in T
    <3>1. k + 1 \in 0..Len(to) /\ k + 1 \in 1..Len(to) /\ (k + 1) - 1 = k /\ k + 1 # 0
      BY <1>1
    <3>2. added[k + 1] = IF to[k + 1] < Len(labelStack)
                         THEN AddEdge(added[k], current, Target(to[k + 1])) ELSE added[k]
      BY <1>9, <3>1
    <3> QED
      BY <1>5, <2>2, <3>1, <3>2
  <2> HIDE DEF T
  <2>3. 0..Len(to) \subseteq T
    BY <1>1, <2>1, <2>2, Induct
  <2> QED
    BY <2>3 DEF T
<1>11. AddBranches(s) = added[Len(to)]
  BY DEF AddBranches, added, to
<1>12. added \in [0..Len(to) -> S]
  BY <1>9, <1>10
<1>13. BranchEdges(added, s, to)
  <2>1. 0 \in 0..Len(to) /\ \A k \in 1..Len(to) : k \in 0..Len(to) /\ k # 0
    BY <1>1
  <2> QED
    BY <1>9, <1>11, <2>1 DEF BranchEdges
<1> QED
  BY <1>1, <1>12, <1>13 DEF to

\* What each addition preserves, they preserve together.
LEMMA AddBranchesInto ==
    ASSUME CfgTypeOK, pos <= Len(prog), NEW S, NEW s \in S,
           \A g \in S : \A d \in Nat :
               d < Len(labelStack) => AddEdge(g, current, Target(d)) \in S
    PROVE  AddBranches(s) \in S
<1> DEFINE m == Len(prog[pos].to)
<1>1. m \in Nat /\ \E f \in [0..m -> S] : f[m] = AddBranches(s)
  BY AddBranchesRun DEF BranchEdges
<1> HIDE DEF m
<1> QED
  BY <1>1

LEMMA AddBranchesType ==
    ASSUME NEW s, Graph(s), Len(s) >= Len(successors), CfgTypeOK, pos <= Len(prog)
    PROVE  Graph(AddBranches(s)) /\ Len(AddBranches(s)) = Len(s)
<1> DEFINE S == {g \in Seq(Seq(1..Len(s))) : Len(g) = Len(s)}
<1>1. \A g : g \in S <=> Graph(g) /\ Len(g) = Len(s)
  BY DEF Graph
<1>2. \A b \in Blocks : b \in 1..Len(s)
  BY DEF Graph, Blocks, CfgTypeOK
<1>3. \A g \in S : \A d \in Nat :
          d < Len(labelStack) => AddEdge(g, current, Target(d)) \in S
  <2> TAKE g \in S
  <2> TAKE d \in Nat
  <2> HAVE d < Len(labelStack)
  <2>1. Target(d) \in 1..Len(s) /\ current \in 1..Len(s)
    BY <1>2, TargetType DEF CfgTypeOK
  <2> HIDE DEF S
  <2> QED
    BY <1>1, <2>1, AddEdgeType
<1>4. s \in S
  BY <1>1
<1> HIDE DEF S
<1>5. AddBranches(s) \in S
  BY <1>3, <1>4, AddBranchesInto
<1> QED
  BY <1>1, <1>5
-----------------------------------------------------------------------------
(* what can be reached from the entry without passing a block              *)

\* A graph that is neither empty nor changed any more.
LEMMA BlocksFacts ==
    ASSUME Graph(successors)
    PROVE  /\ Len(successors) \in Nat /\ Entry \in Blocks /\ Exit \in Blocks
           /\ Blocks \subseteq Nat /\ None \notin Blocks
           /\ IsFiniteSet(Blocks) /\ Cardinality(Blocks) = Len(successors)
           /\ \A b \in Blocks : successors[b] \in Seq(Blocks)
<1>1. Len(successors) \in Nat /\ Len(successors) >= 2
  BY DEF Graph
<1>2. IsFiniteSet(Blocks) /\ Cardinality(Blocks) = Len(successors)
  <2> DEFINE n == Len(successors)
  <2>1. n \in Nat /\ n >= 2
    BY <1>1
  <2> HIDE DEF n
  <2>2. IsFiniteSet(1..n) /\ Cardinality(1..n) = IF 1 > n THEN 0 ELSE n - 1 + 1
    BY <2>1, FS_Interval
  <2>3. IsFiniteSet(1..n) /\ Cardinality(1..n) = n
    BY <2>1, <2>2
  <2> QED
    BY <2>3 DEF Blocks, n
<1>3. \A b \in Blocks : successors[b] \in Seq(Blocks)
  BY DEF Blocks, Graph
<1> QED
  BY <1>1, <1>2, <1>3, NoneAssumption DEF Blocks, Entry, Exit

\* The levels of the search that avoids a.
LEMMA AvoidingLevels ==
    ASSUME Graph(successors), NEW a
    PROVE  \E R \in [0..Len(successors) -> SUBSET Blocks] :
               /\ Avoiding(a) = R[Len(successors)]
               /\ R[0] = {Entry} \ {a}
               /\ \A k \in 1..Len(successors) : R[k] = Spread(R[k - 1]) \ {a}
<1> DEFINE n == Len(successors)
           R[k \in 0..n] == IF k = 0 THEN {Entry} \ {a} ELSE Spread(R[k - 1]) \ {a}
           step == [x \in (1..n) \X SUBSET Blocks |-> Spread(x[2]) \ {a}]
<1>1. n \in Nat /\ Entry \in Blocks
  BY BlocksFacts
<1>2. \A T \in SUBSET Blocks : Spread(T) \in SUBSET Blocks
  BY DEF Spread
<1> HIDE DEF n
<1>3. step \in Steps(n, SUBSET Blocks)
  BY <1>2 DEF Steps
<1>4. PICK f : Recurs(f, n, SUBSET Blocks, {Entry} \ {a}, step)
  <2> HIDE DEF step, R
  <2>1. {Entry} \ {a} \in SUBSET Blocks
    BY <1>1
  <2> QED
    BY <1>1, <1>3, <2>1, Recursive
<1>5. \A k \in 1..n : f[k] = Spread(f[k - 1]) \ {a}
  <2> SUFFICES ASSUME NEW k \in 1..n PROVE f[k] = Spread(f[k - 1]) \ {a}
    OBVIOUS
  <2>1. k - 1 \in 0..n
    BY <1>1
  <2>2. f[k - 1] \in SUBSET Blocks /\ f[k] = step[<<k, f[k - 1]>>]
    <3> HIDE DEF step, R
    <3> QED
      BY <1>4, <2>1 DEF Recurs
  <2> HIDE DEF R
  <2> QED
    BY <2>2
<1>6. R = [k \in 0..n |-> IF k = 0 THEN {Entry} \ {a} ELSE Spread(R[k - 1]) \ {a}]
  <2>1. f = [k \in 0..n |-> IF k = 0 THEN {Entry} \ {a} ELSE Spread(f[k - 1]) \ {a}]
    <3> HIDE DEF step, R
    <3> QED
      BY <1>1, <1>4, <1>5 DEF Recurs
  <2> HIDE DEF step
  <2> QED
    BY <2>1
<1> HIDE DEF R, step
<1>7. R[0] = {Entry} \ {a} /\ \A k \in 1..n : R[k] = Spread(R[k - 1]) \ {a}
  <2>1. 0 \in 0..n /\ \A k \in 1..n : k \in 0..n /\ k # 0
    BY <1>1
  <2> QED
    BY <1>6, <2>1
<1>8. \A k \in 0..n : R[k] \in SUBSET Blocks
  <2> DEFINE T == {k \in 0..n : R[k] \in SUBSET Blocks}
  <2>1. 0 \in T
    BY <1>1, <1>7
  <2>2. ASSUME NEW k \in 0..(n - 1), k \in T PROVE k + 1 \in T
    <3>1. k + 1 \in 0..n /\ k + 1 \in 1..n /\ (k + 1) - 1 = k
      BY <1>1
    <3>2. R[k + 1] = Spread(R[k]) \ {a}
      BY <1>7, <3>1
    <3> QED
      BY <1>2, <2>2, <3>1, <3>2
  <2> HIDE DEF T
  <2>3. 0..n \subseteq T
    BY <1>1, <2>1, <2>2, Induct
  <2> QED
    BY <2>3 DEF T
<1>9. R \in [0..n -> SUBSET Blocks]
  BY <1>6, <1>8
<1>10. Avoiding(a) = R[n]
  BY DEF Avoiding, R, n
<1> QED
  BY <1>7, <1>9, <1>10 DEF n

\* It is the least set that is closed under the edges that do not lead to a.
LEMMA AvoidingLeast ==
    ASSUME Graph(successors), NEW a, NEW S, a # Entry => Entry \in S,
           \A x \in S, y \in Blocks : Edge(x, y) /\ y # a => y \in S
    PROVE  Avoiding(a) \subseteq S
<1> DEFINE n == Len(successors)
<1>1. PICK R \in [0..n -> SUBSET Blocks] :
          /\ Avoiding(a) = R[n]
          /\ R[0] = {Entry} \ {a}
          /\ \A k \in 1..n : R[k] = Spread(R[k - 1]) \ {a}
  BY AvoidingLevels
<1>2. n \in Nat
  BY BlocksFacts
<1> DEFINE T == {k \in 0..n : R[k] \subseteq S}
<1> HIDE DEF n
<1>3. 0 \in T
  BY <1>1, <1>2
<1>4. ASSUME NEW k \in 0..(n - 1), k \in T PROVE k + 1 \in T
  <2>1. k + 1 \in 0..n /\ k + 1 \in 1..n /\ (k + 1) - 1 = k
    BY <1>2
  <2>2. R[k + 1] = Spread(R[k]) \ {a} /\ R[k] \subseteq S
    BY <1>1, <1>4, <2>1
  <2>3. R[k + 1] \subseteq S
    BY <2>2 DEF Spread
  <2> QED
    BY <2>1, <2>3
<1> HIDE DEF T
<1>5. 0..n \subseteq T
  BY <1>2, <1>3, <1>4, Induct
<1> QED
  BY <1>1, <1>2, <1>5 DEF T

\* After as many levels as there are blocks, nothing is left to be found.
LEMMA AvoidingClosed ==
    ASSUME Graph(successors), NEW a
    PROVE  /\ Avoiding(a) \subseteq Blocks /\ a \notin Avoiding(a)
           /\ a # Entry => Entry \in Avoiding(a)
           /\ \A x \in Avoiding(a), y \in Blocks : Edge(x, y) /\ y # a => y \in Avoiding(a)
<1> DEFINE n == Len(successors)
           Done(U) == Spread(U) \ {a} = U
<1>1. PICK R \in [0..n -> SUBSET Blocks] :
          /\ Avoiding(a) = R[n]
          /\ R[0] = {Entry} \ {a}
          /\ \A k \in 1..n : R[k] = Spread(R[k - 1]) \ {a}
  BY AvoidingLevels
<1>2. n \in Nat /\ Entry \in Blocks /\ IsFiniteSet(Blocks) /\ Cardinality(Blocks) = n
  BY BlocksFacts
<1> HIDE DEF n
<1> DEFINE T == {k \in 0..n : /\ a \notin R[k] /\ (a # Entry => Entry \in R[k])
                              /\ Done(R[k]) \/ Cardinality(R[k]) >= k + 1}
<1>3. 0 \in T
  <2>1. CASE a = Entry
    <3>1. R[0] = {} /\ Spread({}) = {}
      BY <1>1, <2>1 DEF Spread
    <3> QED
      BY <1>2, <3>1, <2>1
  <2>2. CASE a # Entry
    <3>1. R[0] = {Entry} /\ Cardinality({Entry}) = 1
      BY <1>1, <2>2, FS_Singleton
    <3> QED
      BY <1>2, <3>1, <2>2
  <2> QED
    BY <2>1, <2>2
<1>4. ASSUME NEW k \in 0..(n - 1), k \in T PROVE k + 1 \in T
  <2>1. k + 1 \in 0..n /\ k + 1 \in 1..n /\ (k + 1) - 1 = k /\ k \in 0..n
    BY <1>2
  <2>2. R[k + 1] = Spread(R[k]) \ {a} /\ R[k] \in SUBSET Blocks /\ R[k + 1] \in SUBSET Blocks
    BY <1>1, <2>1
  <2>3. a \notin R[k + 1] /\ R[k] \subseteq R[k + 1] /\ (a # Entry => Entry \in R[k + 1])
    BY <1>4, <2>2 DEF Spread
  <2>4. CASE Done(R[k])
    <3>1. R[k + 1] = R[k]
      BY <2>2, <2>4
    <3> QED
      BY <2>1, <2>3, <2>4, <3>1
  <2>5. CASE ~Done(R[k])
    <3>1. Cardinality(R[k]) >= k + 1 /\ R[k] # R[k + 1]
      BY <1>4, <2>2, <2>5
    <3>2. IsFiniteSet(R[k + 1])
      BY <1>2, <2>2, FS_Subset
    <3>3. /\ IsFiniteSet(R[k]) /\ Cardinality(R[k]) <= Cardinality(R[k + 1])
          /\ Cardinality(R[k]) # Cardinality(R[k + 1])
      BY <2>3, <3>1, <3>2, FS_Subset
    <3>4. Cardinality(R[k]) \in Nat /\ Cardinality(R[k + 1]) \in Nat
      BY <3>2, <3>3, FS_CardinalityType
    <3>5. Cardinality(R[k + 1]) >= (k + 1) + 1
      BY <3>1, <3>3, <3>4, <2>1
    <3> QED
      BY <2>1, <2>3, <3>5
  <2> QED
    BY <2>4, <2>5
<1> HIDE DEF T
<1>5. n \in T
  <2>1. 0..n \subseteq T
    BY <1>2, <1>3, <1>4, Induct
  <2> QED
    BY <1>2, <2>1
<1>6. Done(R[n])
  <2>1. R[n] \in SUBSET Blocks
    BY <1>1, <1>2
  <2>2. Cardinality(R[n]) <= n /\ Cardinality(R[n]) \in Nat
    BY <1>2, <2>1, FS_Subset, FS_CardinalityType
  <2> QED
    BY <1>2, <1>5, <2>2 DEF T
<1>7. /\ R[n] \subseteq Blocks /\ a \notin R[n] /\ (a # Entry => Entry \in R[n])
      /\ \A x \in R[n], y \in Blocks : Edge(x, y) /\ y # a => y \in R[n]
  BY <1>1, <1>2, <1>5, <1>6 DEF T, Spread
<1> QED
  BY <1>1, <1>7
-----------------------------------------------------------------------------
(* dominance, and the order of the blocks                                  *)

Reached == Avoiding(None)

LEMMA ReachedFacts ==
    ASSUME Graph(successors)
    PROVE  /\ Reached \subseteq Blocks /\ Entry \in Reached
           /\ \A x \in Reached, y \in Blocks : Edge(x, y) => y \in Reached
           /\ \A a : Avoiding(a) \subseteq Reached
<1>1. None \notin Blocks /\ None # Entry
  BY BlocksFacts
<1>2. /\ Reached \subseteq Blocks /\ Entry \in Reached
      /\ \A x \in Reached, y \in Blocks : Edge(x, y) => y \in Reached
  BY <1>1, AvoidingClosed DEF Reached
<1>3. ASSUME NEW a PROVE Avoiding(a) \subseteq Reached
  BY <1>2, AvoidingLeast
<1> QED
  BY <1>2, <1>3

\* A strict dominator dominates every predecessor that can be reached.
LEMMA DominatesPredecessor ==
    ASSUME Graph(successors), NEW b \in Reached, NEW p \in Reached, Edge(p, b),
           NEW a \in StrictDominators(b)
    PROVE  Dominates(a, p)
<1>1. a # b /\ b \notin Avoiding(a) /\ b \in Blocks
  BY ReachedFacts DEF StrictDominators, Dominates
<1>2. p \notin Avoiding(a)
  BY <1>1, AvoidingClosed
<1> QED
  BY <1>2 DEF Dominates, Reached

LEMMA EntryUndominated ==
    ASSUME Graph(successors), NEW a, Dominates(a, Entry)
    PROVE  a = Entry
BY AvoidingClosed DEF Dominates

Ended == {rpo[i] : i \in 1..Len(rpo)}

\* Once dfs has returned from the entry: every block that can be reached is
\* in the order once, behind one of its predecessors.
Sorted == /\ Graph(successors) /\ reachable = Reached
          /\ rpo \in Seq(Blocks) /\ Ended = reachable
          /\ \A i, j \in 1..Len(rpo) : rpo[i] = rpo[j] => i = j
          /\ rpo # <<>> /\ rpo[1] = Entry
          /\ \A i \in 2..Len(rpo) : \E j \in 1..(i - 1) : Edge(rpo[j], rpo[i])

LEMMA IndexFacts ==
    ASSUME Sorted
    PROVE  /\ Len(rpo) \in Nat /\ Len(rpo) >= 1
           /\ \A b \in reachable : Index(b) \in 1..Len(rpo) /\ rpo[Index(b)] = b
           /\ \A i \in 1..Len(rpo) : rpo[i] \in reachable /\ Index(rpo[i]) = i
           /\ Entry \in reachable /\ Index(Entry) = 1
<1>1. Len(rpo) \in Nat /\ Len(rpo) >= 1
  BY DEF Sorted
<1>2. \A i \in 1..Len(rpo) : rpo[i] \in reachable
  BY DEF Sorted, Ended
<1>3. ASSUME NEW b \in reachable PROVE Index(b) \in 1..Len(rpo) /\ rpo[Index(b)] = b
  <2>1. \E i \in 1..Len(rpo) : rpo[i] = b
    BY DEF Sorted, Ended
  <2> QED
    BY <2>1 DEF Index
<1>4. ASSUME NEW i \in 1..Len(rpo) PROVE Index(rpo[i]) = i
  <2>1. Index(rpo[i]) \in 1..Len(rpo) /\ rpo[Index(rpo[i])] = rpo[i]
    BY <1>2, <1>3
  <2> QED
    BY <2>1 DEF Sorted
<1>5. 1 \in 1..Len(rpo) /\ rpo[1] = Entry
  BY <1>1 DEF Sorted
<1> QED
  BY <1>1, <1>2, <1>3, <1>4, <1>5

\* What dominates a block stands no later in the order: the way to the block
\* through the predecessors before it meets all its dominators.
LEMMA DominatorsFirst ==
    ASSUME Sorted, NEW a \in reachable, NEW b \in reachable, Dominates(a, b)
    PROVE  Index(a) <= Index(b)
<1> DEFINE Bad == {i \in 1..Len(rpo) : Dominates(a, rpo[i]) /\ i < Index(a)}
<1>1. SUFFICES ASSUME Bad # {} PROVE FALSE
  <2>1. Index(a) \in 1..Len(rpo) /\ Index(b) \in 1..Len(rpo) /\ rpo[Index(b)] = b
    BY IndexFacts
  <2> QED
    BY <2>1, IndexFacts
<1>2. Bad \subseteq Nat
  BY IndexFacts
<1>3. PICK i \in Bad : \A j \in Bad : i <= j
  <2> HIDE DEF Bad
  <2> QED
    BY <1>1, <1>2, Least
<1>4. i \in 1..Len(rpo) /\ Dominates(a, rpo[i]) /\ i < Index(a) /\ rpo[i] \in reachable
  BY <1>3, IndexFacts
<1>5. rpo[i] # a
  BY <1>4, IndexFacts
<1>6. i # 1
  BY <1>4, <1>5, EntryUndominated DEF Sorted
<1>7. PICK j \in 1..(i - 1) : Edge(rpo[j], rpo[i])
  <2>1. i \in 2..Len(rpo)
    BY <1>4, <1>6, IndexFacts
  <2> QED
    BY <2>1 DEF Sorted
<1>8. j \in 1..Len(rpo) /\ j < i /\ j < Index(a) /\ rpo[j] \in reachable
  <2>1. Index(a) \in Nat /\ Len(rpo) \in Nat
    BY IndexFacts
  <2>2. j \in 1..Len(rpo) /\ j < i /\ j < Index(a)
    BY <1>4, <1>7, <2>1
  <2> QED
    BY <2>2, IndexFacts
<1>9. a \in StrictDominators(rpo[i])
  BY <1>4, <1>5 DEF StrictDominators, Sorted, Reached
<1>10. Dominates(a, rpo[j])
  BY <1>4, <1>7, <1>8, <1>9, DominatesPredecessor DEF Sorted
<1>11. j \in Bad
  BY <1>8, <1>10
<1> QED
  BY <1>3, <1>8, <1>11
-----------------------------------------------------------------------------
(* the tree of the immediate dominators found so far                       *)

Others == reachable \ {Entry}

\* Every block that was given a dominator was given a processed one that
\* stands before it and that none of its strict dominators passes by.
Tree == /\ idom \in [reachable -> reachable \cup {None}]
        /\ idom[Entry] = Entry
        /\ \A b \in Others : idom[b] # None =>
               /\ Index(idom[b]) < Index(b) /\ idom[idom[b]] # None
               /\ \A a \in StrictDominators(b) : Dominates(a, idom[b])

\* The walk up from b: what every set that holds b and is closed under idom
\* holds.
ClosedUp(S) == \A x \in S : idom[x] # None => idom[x] \in S
Upwards(b) == {a \in reachable : \A S \in SUBSET reachable : b \in S /\ ClosedUp(S) => a \in S}

LEMMA UpwardsFacts ==
    ASSUME idom \in [reachable -> reachable \cup {None}], NEW b \in reachable
    PROVE  /\ b \in Upwards(b) /\ Upwards(b) \subseteq reachable
           /\ ClosedUp(Upwards(b))
           /\ \A a \in Upwards(b) : Upwards(a) \subseteq Upwards(b)
           /\ \A a \in Upwards(b) : a = b \/ (idom[b] # None /\ a \in Upwards(idom[b]))
<1>1. b \in Upwards(b) /\ Upwards(b) \subseteq reachable
  BY DEF Upwards
<1>2. \A c \in reachable : ClosedUp(Upwards(c))
  BY DEF Upwards, ClosedUp
<1>3. \A a \in Upwards(b) : Upwards(a) \subseteq Upwards(b)
  BY DEF Upwards
<1>4. ASSUME NEW a \in Upwards(b), a # b PROVE idom[b] # None /\ a \in Upwards(idom[b])
  <2> DEFINE S == {b} \cup (IF idom[b] = None THEN {} ELSE Upwards(idom[b]))
  <2>1. S \in SUBSET reachable /\ b \in S
    BY DEF Upwards
  <2>2. ClosedUp(S)
    <3>1. CASE idom[b] = None
      BY <3>1 DEF ClosedUp
    <3>2. CASE idom[b] # None
      <4>1. idom[b] \in reachable /\ idom[b] \in Upwards(idom[b])
        BY <3>2 DEF Upwards
      <4>2. ClosedUp(Upwards(idom[b])) /\ S = {b} \cup Upwards(idom[b])
        BY <1>2, <3>2, <4>1
      <4> QED
        BY <4>1, <4>2 DEF ClosedUp
    <3> QED
      BY <3>1, <3>2
  <2>3. a \in S
    BY <2>1, <2>2 DEF Upwards
  <2> QED
    BY <1>4, <2>3
<1> QED
  BY <1>1, <1>2, <1>3, <1>4

\* When nothing changes any more, the walk up from a block meets nothing but
\* its dominators: what is not on the walk can be avoided.
LEMMA UpwardsDominate ==
    ASSUME Sorted, Tree,
           \A b \in Others, p \in reachable : Edge(p, b) => idom[b] # None /\ idom[b] \in Upwards(p),
           NEW b \in reachable, NEW a \in Upwards(b)
    PROVE  Dominates(a, b)
<1> DEFINE S == {x \in reachable : a \notin Upwards(x)}
<1>1. Graph(successors) /\ reachable = Reached /\ Entry \in reachable /\ reachable \subseteq Blocks
  BY ReachedFacts DEF Sorted
<1>2. idom \in [reachable -> reachable \cup {None}] /\ idom[Entry] = Entry
  BY DEF Tree
<1>3. ASSUME a # Entry PROVE Entry \in S
  <2>1. ClosedUp({Entry})
    BY <1>2 DEF ClosedUp
  <2> QED
    BY <1>1, <1>3, <2>1 DEF Upwards
<1>4. ASSUME NEW x \in S, NEW y \in Blocks, Edge(x, y), y # a PROVE y \in S
  <2>1. y \in reachable
    BY <1>1, <1>4, ReachedFacts
  <2>2. CASE y = Entry
    <3>1. a # Entry
      BY <1>4, <2>2
    <3> QED
      BY <1>3, <2>2, <3>1
  <2>3. CASE y # Entry
    <3>1. idom[y] # None /\ idom[y] \in Upwards(x)
      BY <1>4, <2>1, <2>3 DEF Others
    <3>2. ASSUME a \in Upwards(y) PROVE FALSE
      <4>1. a \in Upwards(idom[y])
        BY <1>2, <1>4, <2>1, <3>2, UpwardsFacts
      <4>2. a \in Upwards(x)
        BY <1>2, <1>4, <3>1, <4>1, UpwardsFacts
      <4> QED
        BY <1>4, <4>2
    <3> QED
      BY <2>1, <3>2
  <2> QED
    BY <2>2, <2>3
<1>5. Avoiding(a) \subseteq S
  <2> HIDE DEF S
  <2> QED
    BY <1>1, <1>3, <1>4, AvoidingLeast
<1> QED
  BY <1>1, <1>5 DEF Dominates, Reached
-----------------------------------------------------------------------------
(* buildCfg                                                                *)

\* The graph and what has been found out about it stay as they are.
LEMMA SameGraph ==
    ASSUME successors' = successors
    PROVE  /\ Blocks' = Blocks /\ Reached' = Reached
           /\ \A a : Avoiding(a)' = Avoiding(a)
           /\ \A a, b : Edge(a, b)' <=> Edge(a, b)
           /\ \A a, b : Dominates(a, b)' <=> Dominates(a, b)
           /\ \A b : StrictDominators(b)' = StrictDominators(b)
<1>1. \A a : Avoiding(a)' = Avoiding(a)
  BY DEF Avoiding, Spread, Blocks, Edge
<1> QED
  BY <1>1 DEF Reached, Blocks, Edge, Dominates, StrictDominators

Labels(n) == [target : 1..n, after : 1..n]

\* What every instruction leaves in order.
LEMMA Rest ==
    ASSUME CfgTypeOK, \E ops : Read(ops),
           Graph(successors'), Len(successors') >= Len(successors),
           terminating' \subseteq terminating \cup Blocks', loopHeaders' \subseteq loopHeaders \cup Blocks',
           labelStack' \in Seq(Labels(Len(successors'))), labelStack' # <<>>,
           current' \in Blocks'
    PROVE  CfgTypeOK'
<1>1. Blocks \subseteq Blocks' /\ Blocks' = 1..Len(successors')
  BY DEF Blocks, CfgTypeOK, Graph
<1>2. prog' \in Programs /\ pos' \in Nat \ {0} /\ home' = Append(home, current)
  BY DEF Read, CfgTypeOK
<1>3. home' \in Seq(Blocks')
  <2>1. home' \in Seq(Blocks)
    BY <1>2 DEF CfgTypeOK
  <2> QED
    BY <1>1, <2>1, SeqMonotonic
<1>4. successors' \in Seq(Seq(Blocks')) /\ Len(successors') >= 2
  BY <1>1 DEF Graph
<1>5. labelStack' \in Seq([target : Blocks', after : Blocks'])
  BY <1>1 DEF Labels
<1>6. terminating' \subseteq Blocks' /\ loopHeaders' \subseteq Blocks'
  BY <1>1 DEF CfgTypeOK
<1> QED
  BY <1>2, <1>3, <1>4, <1>5, <1>6 DEF CfgTypeOK

\* More blocks leave the labels what they are.
LEMMA LabelsGrow ==
    ASSUME CfgTypeOK, NEW n \in Nat, n >= Len(successors)
    PROVE  /\ labelStack \in Seq(Labels(n)) /\ labelStack # <<>>
           /\ Last(labelStack) \in Labels(n)
           /\ \A l \in Labels(n) : Append(labelStack, l) \in Seq(Labels(n)) /\ Append(labelStack, l) # <<>>
           /\ Front(labelStack) \in Seq(Labels(n)) /\ (Len(labelStack) > 1 => Front(labelStack) # <<>>)
<1>1. Labels(Len(successors)) \subseteq Labels(n)
  BY DEF Labels, CfgTypeOK
<1>2. labelStack \in Seq(Labels(Len(successors))) /\ labelStack # <<>>
  BY DEF CfgTypeOK, Blocks, Labels
<1>3. labelStack \in Seq(Labels(n))
  BY <1>1, <1>2, SeqMonotonic
<1>4. Last(labelStack) \in Labels(n)
  BY <1>2, <1>3 DEF Last
<1>5. ASSUME NEW l \in Labels(n)
      PROVE  Append(labelStack, l) \in Seq(Labels(n)) /\ Append(labelStack, l) # <<>>
  BY <1>3
<1>6. /\ Front(labelStack) \in Seq(Labels(n))
      /\ Len(labelStack) > 1 => Front(labelStack) # <<>>
  <2> DEFINE m == Len(labelStack) - 1
  <2>1. m \in Nat /\ \A i \in 1..m : labelStack[i] \in Labels(n)
    BY <1>2, <1>3
  <2>2. Front(labelStack) = SubSeq(labelStack, 1, m)
    BY DEF Front
  <2>3. SubSeq(labelStack, 1, m) \in Seq(Labels(n)) /\ (m >= 1 => Len(SubSeq(labelStack, 1, m)) = m)
    <3> HIDE DEF m
    <3> QED
      BY <2>1, SubSeqProperties
  <2>4. m >= 1 => SubSeq(labelStack, 1, m) # <<>>
    <3> HIDE DEF m
    <3>1. Len(<<>>) = 0
      OBVIOUS
    <3>2. ASSUME m >= 1, SubSeq(labelStack, 1, m) = <<>> PROVE FALSE
      <4>1. m = 0
        BY <2>3, <3>1, <3>2, Zenon
      <4> QED
        BY <3>2, <4>1
    <3> QED
      BY <3>2
  <2> QED
    BY <1>2, <2>1, <2>2, <2>3, <2>4
<1> QED
  BY <1>2, <1>3, <1>4, <1>5, <1>6

\* Every instruction leaves a graph.
LEMMA BuildType == CfgTypeOK /\ Build => CfgTypeOK'
<1> SUFFICES ASSUME CfgTypeOK, Build PROVE CfgTypeOK'
  OBVIOUS
<1> DEFINE n == Len(successors)
<1>1. /\ Graph(successors) /\ n \in Nat \ {0, 1} /\ current \in 1..n /\ Exit \in 1..n
      /\ Fresh = n + 1
  <2>1. n \in Nat /\ n >= 2 /\ successors \in Seq(Seq(1..n)) /\ current \in 1..n
    BY DEF CfgTypeOK, Blocks
  <2> QED
    <3>1. n \in Nat \ {0, 1} /\ Exit \in 1..n /\ Fresh = n + 1
      <4>1. n \in Nat /\ n >= 2
        BY <2>1
      <4>2. Fresh = n + 1
        BY DEF Fresh
      <4> HIDE DEF n
      <4> QED
        BY <4>1, <4>2 DEF Exit
    <3>2. Graph(successors)
      BY <2>1 DEF Graph
    <3> QED
      BY <2>1, <3>1, <3>2
<1>2. /\ Last(labelStack) \in Labels(n)
      /\ labelStack \in Seq(Labels(n)) /\ labelStack # <<>>
      /\ Front(labelStack) \in Seq(Labels(n)) /\ (Len(labelStack) > 1 => Front(labelStack) # <<>>)
  BY <1>1, LabelsGrow
<1>3. Last(labelStack).after \in 1..n
  BY <1>2 DEF Labels
<1>4. Blocks' = 1..Len(successors')
  BY DEF Blocks
<1>p. \E ops : Read(ops)
  BY DEF Build, ReadBlock, ReadLoop, ReadIf, ReadElse, ReadEnd, ReadLastEnd, ReadJump, ReadBrIf, ReadPlain
<1>5. ASSUME NEW k \in Nat
      PROVE  Graph(NewBlocks(successors, k)) /\ Len(NewBlocks(successors, k)) = n + k
  BY <1>1, NewBlocksType
<1>6. CASE ReadBlock
  <2>1. Graph(successors') /\ Len(successors') = n + 1
    BY <1>5, <1>6 DEF ReadBlock
  <2>2. labelStack' \in Seq(Labels(n + 1)) /\ labelStack' # <<>>
    <3>1. Label(Fresh, Fresh) \in Labels(n + 1)
      BY <1>1 DEF Label, Labels
    <3> QED
      BY <1>1, <1>6, <3>1, LabelsGrow DEF ReadBlock
  <2> QED
    BY <1>1, <1>4, <1>6, <1>p, <2>1, <2>2, Rest DEF ReadBlock
<1>7. CASE ReadLoop
  <2>1. Graph(successors') /\ Len(successors') = n + 2
    <3>1. Graph(NewBlocks(successors, 2)) /\ Len(NewBlocks(successors, 2)) = n + 2
      BY <1>5
    <3>2. current \in 1..(n + 2) /\ Fresh \in 1..(n + 2)
      BY <1>1
    <3> QED
      BY <1>7, <3>1, <3>2, AddEdgeType DEF ReadLoop
  <2>2. labelStack' \in Seq(Labels(n + 2)) /\ labelStack' # <<>>
    <3>1. Label(Fresh, Fresh + 1) \in Labels(n + 2)
      BY <1>1 DEF Label, Labels
    <3> QED
      BY <1>1, <1>7, <3>1, LabelsGrow DEF ReadLoop
  <2>3. loopHeaders' \subseteq loopHeaders \cup Blocks' /\ current' \in Blocks'
    BY <1>1, <1>4, <1>7, <2>1 DEF ReadLoop
  <2>4. terminating' = terminating
    BY <1>7 DEF ReadLoop
  <2>5. labelStack' \in Seq(Labels(Len(successors'))) /\ Len(successors') >= Len(successors)
    BY <1>1, <2>1, <2>2
  <2> QED
    BY <1>p, <2>1, <2>2, <2>3, <2>4, <2>5, Rest
<1>8. CASE ReadIf
  <2>1. Graph(successors') /\ Len(successors') = n + 2
    <3> DEFINE s == NewBlocks(successors, 2)
    <3>1. Graph(s) /\ Len(s) = n + 2
      BY <1>5
    <3>2. current \in 1..(n + 2) /\ Fresh \in 1..(n + 2) /\ Fresh + 1 \in 1..(n + 2)
      BY <1>1
    <3>3. successors' = AddEdge(AddEdge(s, current, Fresh), current, Fresh + 1)
      BY <1>8 DEF ReadIf
    <3> HIDE DEF s
    <3>4. Graph(AddEdge(s, current, Fresh)) /\ Len(AddEdge(s, current, Fresh)) = n + 2
      BY <3>1, <3>2, AddEdgeType
    <3> QED
      BY <3>2, <3>3, <3>4, AddEdgeType
  <2>2. labelStack' \in Seq(Labels(n + 2)) /\ labelStack' # <<>>
    <3>1. Label(Fresh + 1, Fresh + 1) \in Labels(n + 2)
      BY <1>1 DEF Label, Labels
    <3> QED
      BY <1>1, <1>8, <3>1, LabelsGrow DEF ReadIf
  <2> QED
    BY <1>1, <1>4, <1>8, <1>p, <2>1, <2>2, Rest DEF ReadIf
<1>9. CASE ReadElse
  <2>1. Graph(successors') /\ Len(successors') = n + 1
    <3>1. Graph(AddEdge(successors, current, Last(labelStack).after))
          /\ Len(AddEdge(successors, current, Last(labelStack).after)) = n
      BY <1>1, <1>3, AddEdgeType
    <3> QED
      BY <1>9, <3>1, NewBlocksType DEF ReadElse
  <2>2. labelStack' \in Seq(Labels(n + 1)) /\ labelStack' # <<>>
    BY <1>1, <1>9, LabelsGrow DEF ReadElse
  <2> QED
    BY <1>1, <1>4, <1>9, <1>p, <2>1, <2>2, Rest DEF ReadElse
<1>10. CASE ReadEnd
  <2>1. Graph(successors') /\ Len(successors') = n
    BY <1>1, <1>3, <1>10, AddEdgeType DEF ReadEnd
  <2> QED
    BY <1>1, <1>2, <1>3, <1>4, <1>10, <1>p, <2>1, Rest DEF ReadEnd
<1>11. CASE ReadLastEnd
  <2>1. Graph(successors') /\ Len(successors') = n
    BY <1>1, <1>11, AddEdgeType DEF ReadLastEnd
  <2> QED
    BY <1>1, <1>2, <1>4, <1>11, <1>p, <2>1, Rest DEF ReadLastEnd
<1>12. CASE ReadJump
  <2>1. Graph(successors') /\ Len(successors') = n + 1
    <3>1. pos <= Len(prog)
      BY <1>12 DEF ReadJump, Read
    <3>2. Graph(AddBranches(successors)) /\ Len(AddBranches(successors)) = n
      BY <1>1, <3>1, AddBranchesType
    <3>3. Graph(AddEdge(successors, current, Exit)) /\ Len(AddEdge(successors, current, Exit)) = n
      BY <1>1, AddEdgeType
    <3> QED
      BY <1>12, <3>2, <3>3, NewBlocksType DEF ReadJump
  <2>2. labelStack' \in Seq(Labels(n + 1)) /\ labelStack' # <<>>
    BY <1>1, <1>12, LabelsGrow DEF ReadJump
  <2> QED
    BY <1>1, <1>4, <1>12, <1>p, <2>1, <2>2, Rest DEF ReadJump
<1>13. CASE ReadBrIf
  <2>1. Graph(successors') /\ Len(successors') = n + 1
    <3>1. pos <= Len(prog)
      BY <1>13 DEF ReadBrIf, Read
    <3>2. Graph(AddBranches(successors)) /\ Len(AddBranches(successors)) = n
      BY <1>1, <3>1, AddBranchesType
    <3>3. /\ Graph(NewBlocks(AddBranches(successors), 1))
          /\ Len(NewBlocks(AddBranches(successors), 1)) = n + 1
      BY <3>2, NewBlocksType
    <3>4. current \in 1..(n + 1) /\ Fresh \in 1..(n + 1)
      BY <1>1
    <3> QED
      BY <1>13, <3>3, <3>4, AddEdgeType DEF ReadBrIf
  <2>2. labelStack' \in Seq(Labels(n + 1)) /\ labelStack' # <<>>
    BY <1>1, <1>13, LabelsGrow DEF ReadBrIf
  <2> QED
    BY <1>1, <1>4, <1>13, <1>p, <2>1, <2>2, Rest DEF ReadBrIf
<1>14. CASE ReadPlain
  BY <1>1, <1>2, <1>4, <1>14, <1>p, Rest DEF ReadPlain
<1> QED
  BY <1>6, <1>7, <1>8, <1>9, <1>10, <1>11, <1>12, <1>13, <1>14 DEF Build
-----------------------------------------------------------------------------
(* the search                                                              *)

\* What lies on a stack when its top is replaced, covered or taken off.
LEMMA OnTop ==
    ASSUME NEW S, NEW s \in Seq(S), NEW x \in S
    PROVE  /\ <<x>> \o s \in Seq(S) /\ Len(<<x>> \o s) = Len(s) + 1 /\ (<<x>> \o s)[1] = x
           /\ \A i \in 1..Len(s) : (<<x>> \o s)[i + 1] = s[i]
BY <<x>> \in Seq(S), Len(<<x>>) = 1

LEMMA Popped ==
    ASSUME NEW S, NEW s \in Seq(S), s # <<>>
    PROVE  /\ Tail(s) \in Seq(S) /\ Len(Tail(s)) = Len(s) - 1 /\ Len(s) >= 1 /\ s[1] \in S
           /\ \A i \in 1..(Len(s) - 1) : Tail(s)[i] = s[i + 1]
<1>1. Len(s) \in Nat /\ Len(s) # 0
  BY EmptySeq
<1>2. Len(Tail(s)) = Len(s) - 1 /\ Tail(s) \in Seq(S)
  BY <1>1
<1> QED
  BY <1>1, <1>2

Stacked == {stack[i][1] : i \in 1..Len(stack)}

Phases == /\ pc = "build" => reachable = {} /\ preds = {} /\ fingers = <<None, None>>
          /\ pc \in {"build", "reach"} => stack = <<>> /\ rpo = <<>> /\ visited = {}
          /\ pc = "reach" => Entry \in reachable /\ reachable \subseteq Reached
          /\ pc \in {"dfs", "sweep", "meet", "done"} => reachable = Reached

\* The stack is a path from the entry; a block that is not on it any more has
\* no successor left to be visited, and stands behind a predecessor, unless
\* that is still on the stack.
Searched ==
    /\ visited = Stacked \cup Ended /\ Stacked \cap Ended = {} /\ visited \subseteq reachable
    /\ \A i, j \in 1..Len(stack) : stack[i][1] = stack[j][1] => i = j
    /\ \A i, j \in 1..Len(rpo) : rpo[i] = rpo[j] => i = j
    /\ IF stack = <<>> THEN rpo # <<>> /\ rpo[1] = Entry ELSE stack[Len(stack)][1] = Entry
    /\ \A i \in 1..(Len(stack) - 1) : Edge(stack[i + 1][1], stack[i][1])
    /\ \A i \in 1..Len(stack) : \A k \in 1..(stack[i][2] - 1) :
          k \in 1..Len(successors[stack[i][1]]) => successors[stack[i][1]][k] \in visited
    /\ \A b \in Ended, c \in Blocks : Edge(b, c) => c \in visited
    /\ \A i \in 1..Len(rpo) : rpo[i] # Entry =>
          \/ \E j \in 1..(i - 1) : Edge(rpo[j], rpo[i])
          \/ \E a \in Stacked : Edge(a, rpo[i])

SearchInv == pc = "dfs" => Searched

\* What a search step needs of the types.
SearchType == /\ Graph(successors) /\ reachable = Reached
              /\ stack \in Seq(Blocks \X (Nat \ {0})) /\ rpo \in Seq(Blocks)

LEMMA TopFacts ==
    ASSUME SearchType, Searched, stack # <<>>
    PROVE  /\ Len(stack) \in Nat \ {0} /\ Block \in Blocks /\ Block \in Stacked /\ Block \in reachable
           /\ NextSuccessor \in Nat \ {0} /\ stack[1] = <<Block, NextSuccessor>>
           /\ \A i \in 1..Len(stack) : stack[i] \in Blocks \X (Nat \ {0}) /\ stack[i][1] \in Stacked
           /\ Later \in Blocks \X (Nat \ {0}) /\ Later[1] = Block /\ Later[2] = NextSuccessor + 1
           /\ successors[Block] \in Seq(Blocks)
<1>1. Len(stack) \in Nat \ {0}
  BY EmptySeq DEF SearchType
<1>2. \A i \in 1..Len(stack) : stack[i] \in Blocks \X (Nat \ {0}) /\ stack[i][1] \in Stacked
  BY DEF SearchType, Stacked
<1>3. 1 \in 1..Len(stack)
  BY <1>1
<1>4. /\ Block \in Blocks /\ Block \in Stacked /\ NextSuccessor \in Nat \ {0}
      /\ stack[1] = <<Block, NextSuccessor>>
  BY <1>2, <1>3 DEF Block, NextSuccessor
<1>5. Block \in reachable
  BY <1>4 DEF Searched
<1>6. Later \in Blocks \X (Nat \ {0}) /\ Later[1] = Block /\ Later[2] = NextSuccessor + 1
  BY <1>4 DEF Later
<1>7. successors[Block] \in Seq(Blocks)
  BY <1>4, BlocksFacts DEF SearchType
<1> QED
  BY <1>1, <1>2, <1>4, <1>5, <1>6, <1>7
-----------------------------------------------------------------------------
(* the steps of the search                                                 *)

\* The successor was visited before, as everything before it.
LEMMA DescendOver ==
    ASSUME SearchType, Searched, stack # <<>>, NextSuccessor <= Len(successors[Block]),
           successors[Block][NextSuccessor] \notin reachable \ visited,
           stack' = <<Later>> \o Tail(stack),
           UNCHANGED <<successors, reachable, visited, rpo>>
    PROVE  SearchType' /\ Searched'
<1> DEFINE X == Blocks \X (Nat \ {0})
           n == Len(stack)
<1>1. /\ n \in Nat \ {0} /\ stack[1] = <<Block, NextSuccessor>> /\ Block \in reachable
      /\ Later \in X /\ Later[1] = Block /\ Later[2] = NextSuccessor + 1
      /\ NextSuccessor \in Nat \ {0} /\ successors[Block] \in Seq(Blocks) /\ Block \in Blocks
  BY TopFacts
<1>2. /\ stack' \in Seq(X) /\ Len(stack') = n /\ stack'[1] = Later
      /\ \A i \in 2..n : stack'[i] = stack[i]
  <2>1. /\ Tail(stack) \in Seq(X) /\ Len(Tail(stack)) = n - 1
        /\ \A i \in 1..(n - 1) : Tail(stack)[i] = stack[i + 1]
    BY Popped DEF SearchType
  <2>2. /\ stack' \in Seq(X) /\ Len(stack') = Len(Tail(stack)) + 1 /\ stack'[1] = Later
        /\ \A i \in 1..Len(Tail(stack)) : stack'[i + 1] = Tail(stack)[i]
    <3> HIDE DEF X
    <3> QED
      BY <1>1, <2>1, OnTop
  <2>3. ASSUME NEW i \in 2..n PROVE stack'[i] = stack[i]
    <3>1. i - 1 \in 1..(n - 1) /\ (i - 1) + 1 = i
      BY <1>1
    <3> HIDE DEF n
    <3> QED
      BY <2>1, <2>2, <3>1
  <2> QED
    BY <1>1, <2>1, <2>2, <2>3
<1>3. /\ Blocks' = Blocks /\ Reached' = Reached /\ Ended' = Ended
      /\ \A a, b : Edge(a, b)' <=> Edge(a, b)
  BY SameGraph DEF Ended
<1> HIDE DEF n, X
<1>4. \A i \in 1..n : stack'[i][1] = stack[i][1]
  <2> TAKE i \in 1..n
  <2>1. i = 1 \/ i \in 2..n
    BY <1>1
  <2> QED
    BY <1>1, <1>2, <2>1
<1>5. Stacked' = Stacked
  <2>1. Stacked = {stack[i][1] : i \in 1..n} /\ Stacked' = {stack'[i][1] : i \in 1..n}
    BY <1>2 DEF Stacked, n
  <2> QED
    BY <1>4, <2>1
<1>6. successors[Block][NextSuccessor] \in visited
  <2>1. NextSuccessor \in 1..Len(successors[Block])
    BY <1>1
  <2>2. successors[Block][NextSuccessor] \in Blocks /\ Edge(Block, successors[Block][NextSuccessor])
    BY <1>1, <2>1 DEF Edge, ToSet
  <2> QED
    BY <1>1, <2>2, ReachedFacts DEF SearchType
<1>7. ASSUME NEW i \in 1..Len(stack'), NEW k \in 1..(stack'[i][2] - 1),
             k \in 1..Len(successors[stack'[i][1]])
      PROVE  successors[stack'[i][1]][k] \in visited
  <2>1. CASE i = 1
    <3>1. stack'[i][1] = Block /\ k \in 1..NextSuccessor
      BY <1>1, <1>2, <1>7, <2>1
    <3>2. CASE k = NextSuccessor
      BY <1>6, <3>1, <3>2
    <3>3. CASE k # NextSuccessor
      <4>1. 1 \in 1..n /\ k \in 1..(stack[1][2] - 1) /\ stack[1][1] = Block
        BY <1>1, <3>1, <3>3
      <4> QED
        BY <1>7, <3>1, <4>1 DEF Searched, n
    <3> QED
      BY <3>2, <3>3
  <2>2. CASE i # 1
    <3>1. i \in 2..n /\ i \in 1..n
      BY <1>1, <1>2, <2>2
    <3> QED
      BY <1>2, <1>7, <3>1 DEF Searched, n
  <2> QED
    BY <2>1, <2>2
<1>8. SearchType'
  BY <1>2, <1>3 DEF SearchType, Graph, X
<1>9. \A i \in 1..(n - 1) : Edge(stack'[i + 1][1], stack'[i][1])
  <2> TAKE i \in 1..(n - 1)
  <2>1. i \in 1..n /\ i + 1 \in 1..n
    BY <1>1
  <2> QED
    BY <1>4, <2>1 DEF Searched, n
<1>10. stack' # <<>> /\ stack'[n][1] = Entry
  <2>1. n \in 1..n /\ Len(stack') # 0
    BY <1>1, <1>2
  <2> QED
    BY <1>4, <2>1 DEF Searched, n
<1>11. \A i, j \in 1..n : stack'[i][1] = stack'[j][1] => i = j
  BY <1>4 DEF Searched, n
<1>12. /\ visited' = Stacked' \cup Ended' /\ Stacked' \cap Ended' = {} /\ visited' \subseteq reachable'
       /\ \A i, j \in 1..Len(rpo') : rpo'[i] = rpo'[j] => i = j
       /\ \A b \in Ended', c \in Blocks' : Edge(b, c) => c \in visited'
       /\ \A i \in 1..Len(rpo') : rpo'[i] # Entry =>
             \/ \E j \in 1..(i - 1) : Edge(rpo'[j], rpo'[i])
             \/ \E a \in Stacked' : Edge(a, rpo'[i])
  <2>1. visited' = visited /\ reachable' = reachable /\ rpo' = rpo
    OBVIOUS
  <2> QED
    BY <1>3, <1>5, <2>1 DEF Searched
<1>13. \A i \in 1..(Len(stack') - 1) : Edge(stack'[i + 1][1], stack'[i][1])
  BY <1>2, <1>9
<1>14. \A i \in 1..Len(stack') : \A k \in 1..(stack'[i][2] - 1) :
          k \in 1..Len(successors'[stack'[i][1]]) => successors'[stack'[i][1]][k] \in visited'
  BY <1>7
<1> QED
  BY <1>2, <1>8, <1>10, <1>11, <1>12, <1>13, <1>14 DEF Searched, Entry, Edge

\* What lies on a stack when its top is replaced and then covered.
LEMMA Covered ==
    ASSUME NEW S, NEW s \in Seq(S), s # <<>>, NEW x \in S, NEW y \in S
    PROVE  /\ <<x, y>> \o Tail(s) \in Seq(S) /\ Len(<<x, y>> \o Tail(s)) = Len(s) + 1
           /\ (<<x, y>> \o Tail(s))[1] = x /\ (<<x, y>> \o Tail(s))[2] = y
           /\ \A i \in 3..(Len(s) + 1) : (<<x, y>> \o Tail(s))[i] = s[i - 1]
<1> DEFINE t == Tail(s)
           w == <<x, y>>
<1>1. t \in Seq(S) /\ Len(t) = Len(s) - 1 /\ \A i \in 1..(Len(s) - 1) : t[i] = s[i + 1]
  BY Popped
<1>2. w \in Seq(S) /\ Len(w) = 2 /\ w[1] = x /\ w[2] = y
  OBVIOUS
<1> HIDE DEF t, w
<1>3. /\ w \o t \in Seq(S) /\ Len(w \o t) = Len(s) + 1 /\ (w \o t)[1] = x /\ (w \o t)[2] = y
      /\ \A i \in 1..(Len(s) - 1) : (w \o t)[2 + i] = t[i]
  <2>1. /\ w \o t \in Seq(S) /\ Len(w \o t) = Len(w) + Len(t)
        /\ \A i \in 1..(Len(w) + Len(t)) : (w \o t)[i] = IF i <= Len(w) THEN w[i] ELSE t[i - Len(w)]
    BY <1>1, <1>2, ConcatProperties
  <2>2. Len(s) \in Nat /\ Len(s) >= 1 /\ Len(w) + Len(t) = Len(s) + 1
    BY <1>1, <1>2, Popped
  <2>3. \A i \in 1..(Len(s) + 1) : (w \o t)[i] = IF i <= 2 THEN w[i] ELSE t[i - 2]
    BY <1>2, <2>1, <2>2
  <2>4. 1 \in 1..(Len(s) + 1) /\ 2 \in 1..(Len(s) + 1)
    BY <2>2
  <2>5. \A i \in 1..(Len(s) - 1) : 2 + i \in 1..(Len(s) + 1) /\ ~(2 + i <= 2) /\ (2 + i) - 2 = i
    BY <2>2
  <2> QED
    BY <1>2, <2>1, <2>2, <2>3, <2>4, <2>5
<1>4. ASSUME NEW i \in 3..(Len(s) + 1) PROVE (w \o t)[i] = s[i - 1]
  <2>1. i - 2 \in 1..(Len(s) - 1) /\ 2 + (i - 2) = i /\ (i - 2) + 1 = i - 1
    OBVIOUS
  <2>2. (w \o t)[2 + (i - 2)] = t[i - 2] /\ t[i - 2] = s[(i - 2) + 1]
    BY <1>1, <1>3, <2>1
  <2> QED
    BY <2>1, <2>2
<1> QED
  BY <1>3, <1>4 DEF w, t

\* A block is entered for the first time.
LEMMA DescendInto ==
    ASSUME SearchType, Searched, stack # <<>>, NextSuccessor <= Len(successors[Block]),
           NEW s, s = successors[Block][NextSuccessor], s \in reachable \ visited,
           stack' \in Seq(Blocks \X (Nat \ {0})), Len(stack') = Len(stack) + 1,
           stack'[1] = <<s, 1>>, stack'[2] = Later,
           \A i \in 3..(Len(stack) + 1) : stack'[i] = stack[i - 1],
           visited' = visited \cup {s},
           UNCHANGED <<successors, reachable, rpo>>
    PROVE  SearchType' /\ Searched'
<1> DEFINE X == Blocks \X (Nat \ {0})
           n == Len(stack)
<1>1. /\ n \in Nat \ {0} /\ stack[1] = <<Block, NextSuccessor>> /\ Block \in reachable
      /\ Later \in X /\ Later[1] = Block /\ Later[2] = NextSuccessor + 1
      /\ NextSuccessor \in Nat \ {0} /\ successors[Block] \in Seq(Blocks) /\ Block \in Blocks
      /\ Block \in Stacked
  BY TopFacts
<1>2. s \in Blocks /\ Edge(Block, s) /\ s \notin Stacked /\ s \notin Ended
  <2>1. NextSuccessor \in 1..Len(successors[Block])
    BY <1>1
  <2>2. s \in Blocks /\ Edge(Block, s)
    BY <1>1, <2>1 DEF Edge, ToSet
  <2> QED
    BY <2>2 DEF Searched
<1>3. <<s, 1>> \in X
  BY <1>2
<1>4. /\ stack' \in Seq(X) /\ Len(stack') = n + 1 /\ stack'[1] = <<s, 1>> /\ stack'[2] = Later
      /\ \A i \in 3..(n + 1) : stack'[i] = stack[i - 1]
  OBVIOUS
<1>5. /\ Blocks' = Blocks /\ Reached' = Reached /\ Ended' = Ended
      /\ \A a, b : Edge(a, b)' <=> Edge(a, b)
  BY SameGraph DEF Ended
<1> HIDE DEF n, X
<1>6. /\ stack'[1][1] = s
      /\ \A i \in 2..(n + 1) : stack'[i][1] = stack[i - 1][1]
      /\ \A i \in 1..n : i + 1 \in 2..(n + 1) /\ stack'[i + 1][1] = stack[i][1]
  <2>1. ASSUME NEW i \in 2..(n + 1) PROVE stack'[i][1] = stack[i - 1][1]
    <3>1. i = 2 \/ i \in 3..(n + 1)
      BY <1>1
    <3>2. CASE i = 2
      <4>1. stack'[2][1] = Block /\ stack[1][1] = Block
        BY <1>1, <1>4
      <4> QED
        BY <3>2, <4>1
    <3>3. CASE i \in 3..(n + 1)
      BY <1>4, <3>3
    <3> QED
      BY <3>1, <3>2, <3>3
  <2>2. ASSUME NEW i \in 1..n PROVE i + 1 \in 2..(n + 1) /\ (i + 1) - 1 = i
    BY <1>1
  <2> QED
    BY <1>4, <2>1, <2>2
<1>7. Stacked' = Stacked \cup {s}
  <2>1. Stacked = {stack[i][1] : i \in 1..n} /\ Stacked' = {stack'[i][1] : i \in 1..(n + 1)}
    BY <1>4 DEF Stacked, n
  <2>2. ASSUME NEW i \in 1..(n + 1) PROVE stack'[i][1] \in Stacked \cup {s}
    <3>1. i = 1 \/ (i \in 2..(n + 1) /\ i - 1 \in 1..n)
      BY <1>1
    <3> QED
      BY <1>6, <2>1, <3>1
  <2>3. ASSUME NEW i \in 1..n PROVE stack[i][1] \in Stacked'
    <3>1. i + 1 \in 1..(n + 1)
      BY <1>1
    <3> QED
      BY <1>6, <2>1, <3>1
  <2>4. s \in Stacked'
    <3>1. 1 \in 1..(n + 1)
      BY <1>1
    <3> QED
      BY <1>6, <2>1, <3>1
  <2>5. Stacked' \subseteq Stacked \cup {s}
    BY <2>1, <2>2
  <2>6. Stacked \subseteq Stacked'
    BY <2>1, <2>3
  <2> QED
    BY <2>4, <2>5, <2>6
<1>8. SearchType'
  BY <1>4, <1>5 DEF SearchType, Graph, X
<1>9. /\ visited' = Stacked' \cup Ended' /\ Stacked' \cap Ended' = {} /\ visited' \subseteq reachable'
      /\ \A i, j \in 1..Len(rpo') : rpo'[i] = rpo'[j] => i = j
      /\ \A b \in Ended', c \in Blocks' : Edge(b, c) => c \in visited'
      /\ \A i \in 1..Len(rpo') : rpo'[i] # Entry =>
            \/ \E j \in 1..(i - 1) : Edge(rpo'[j], rpo'[i])
            \/ \E a \in Stacked' : Edge(a, rpo'[i])
  <2>1. visited' = visited \cup {s} /\ reachable' = reachable /\ rpo' = rpo
    OBVIOUS
  <2>2. /\ visited' = Stacked' \cup Ended' /\ Stacked' \cap Ended' = {} /\ visited' \subseteq reachable'
        /\ Stacked \subseteq Stacked'
    BY <1>2, <1>5, <1>7, <2>1 DEF Searched
  <2>3. /\ \A i, j \in 1..Len(rpo) : rpo[i] = rpo[j] => i = j
        /\ \A b \in Ended, c \in Blocks : Edge(b, c) => c \in visited
        /\ \A i \in 1..Len(rpo) : rpo[i] # Entry =>
              \/ \E j \in 1..(i - 1) : Edge(rpo[j], rpo[i])
              \/ \E a \in Stacked : Edge(a, rpo[i])
    BY DEF Searched
  <2>4. \A i \in 1..Len(rpo) : rpo[i] # Entry =>
              \/ \E j \in 1..(i - 1) : Edge(rpo[j], rpo[i])
              \/ \E a \in Stacked' : Edge(a, rpo[i])
    BY <2>2, <2>3, Zenon
  <2> QED
    BY <1>5, <2>1, <2>2, <2>3, <2>4
<1>10. \A i, j \in 1..(n + 1) : stack'[i][1] = stack'[j][1] => i = j
  <2>1. ASSUME NEW i \in 2..(n + 1) PROVE i - 1 \in 1..n /\ stack'[i][1] = stack[i - 1][1]
    BY <1>1, <1>6
  <2>a. \A i, j \in 1..n : stack[i][1] = stack[j][1] => i = j
    BY DEF Searched, n
  <2>b. \A i \in 1..n : stack[i][1] \in Stacked
    BY DEF Stacked, n
  <2>2. ASSUME NEW i \in 2..(n + 1), NEW j \in 2..(n + 1), stack'[i][1] = stack'[j][1] PROVE i = j
    <3>1. stack[i - 1][1] = stack[j - 1][1] /\ i - 1 \in 1..n /\ j - 1 \in 1..n
      BY <2>1, <2>2
    <3>2. i - 1 = j - 1
      BY <2>a, <3>1
    <3> QED
      BY <1>1, <3>2
  <2>3. ASSUME NEW i \in 2..(n + 1) PROVE stack'[i][1] # stack'[1][1]
    <3>1. stack'[i][1] \in Stacked
      BY <2>1, <2>b
    <3> QED
      BY <1>2, <1>6, <3>1
  <2>4. \A i \in 1..(n + 1) : i = 1 \/ i \in 2..(n + 1)
    BY <1>1
  <2> QED
    BY <2>2, <2>3, <2>4
<1>11. stack' # <<>> /\ stack'[n + 1][1] = Entry
  <2>1. n \in 1..n /\ Len(stack') # 0
    BY <1>1, <1>4
  <2>2. stack[n][1] = Entry
    BY DEF Searched, n
  <2>3. stack'[n + 1][1] = stack[n][1]
    BY <1>6, <2>1
  <2>4. stack' # <<>>
    BY <2>1
  <2> QED
    BY <2>2, <2>3, <2>4
<1>12. \A i \in 1..n : Edge(stack'[i + 1][1], stack'[i][1])
  <2> TAKE i \in 1..n
  <2>1. CASE i = 1
    BY <1>1, <1>2, <1>4, <1>6, <2>1
  <2>2. CASE i # 1
    <3>1. i \in 2..(n + 1) /\ i - 1 \in 1..(n - 1) /\ (i - 1) + 1 = i
      BY <1>1, <2>2
    <3>2. Edge(stack[i][1], stack[i - 1][1])
      BY <3>1 DEF Searched, n
    <3> QED
      BY <1>6, <3>1, <3>2
  <2> QED
    BY <2>1, <2>2
<1>13. ASSUME NEW i \in 1..(n + 1), NEW k \in 1..(stack'[i][2] - 1),
              k \in 1..Len(successors[stack'[i][1]])
       PROVE  successors[stack'[i][1]][k] \in visited'
  <2>1. CASE i = 1
    <3>1. stack'[i][2] = 1
      BY <1>4, <2>1
    <3> QED
      BY <1>13, <3>1
  <2>2. CASE i = 2
    <3>1. stack'[i][1] = Block /\ k \in 1..NextSuccessor
      BY <1>1, <1>4, <1>13, <2>2
    <3>2. CASE k = NextSuccessor
      BY <3>1, <3>2
    <3>3. CASE k # NextSuccessor
      <4>1. 1 \in 1..n /\ k \in 1..(stack[1][2] - 1) /\ stack[1][1] = Block
        BY <1>1, <3>1, <3>3
      <4> QED
        BY <1>13, <3>1, <4>1 DEF Searched, n
    <3> QED
      BY <3>2, <3>3
  <2>3. CASE i # 1 /\ i # 2
    <3>1. i \in 3..(n + 1) /\ i - 1 \in 1..n
      BY <1>1, <2>3
    <3>2. stack'[i] = stack[i - 1]
      BY <1>4, <3>1
    <3> QED
      BY <1>13, <3>1, <3>2 DEF Searched, n
  <2> QED
    BY <2>1, <2>2, <2>3
<1>14. /\ \A i, j \in 1..Len(stack') : stack'[i][1] = stack'[j][1] => i = j
       /\ stack' # <<>> /\ stack'[Len(stack')][1] = Entry
       /\ \A i \in 1..(Len(stack') - 1) : Edge(stack'[i + 1][1], stack'[i][1])
       /\ \A i \in 1..Len(stack') : \A k \in 1..(stack'[i][2] - 1) :
             k \in 1..Len(successors[stack'[i][1]]) => successors[stack'[i][1]][k] \in visited'
  <2>1. Len(stack') = n + 1 /\ (n + 1) - 1 = n
    BY <1>1, <1>4
  <2> QED
    BY <1>10, <1>11, <1>12, <1>13, <2>1
<1> QED
  BY <1>8, <1>9, <1>14 DEF Searched, Entry, Edge

\* A block is left when all its successors have been visited.
LEMMA AscendFrom ==
    ASSUME SearchType, Searched, stack # <<>>, NextSuccessor > Len(successors[Block]),
           rpo' \in Seq(Blocks), Len(rpo') = Len(rpo) + 1, rpo'[1] = Block,
           \A i \in 1..Len(rpo) : rpo'[i + 1] = rpo[i],
           stack' \in Seq(Blocks \X (Nat \ {0})), Len(stack') = Len(stack) - 1,
           \A i \in 1..(Len(stack) - 1) : stack'[i] = stack[i + 1],
           UNCHANGED <<successors, reachable, visited>>
    PROVE  SearchType' /\ Searched'
<1> DEFINE n == Len(stack)
           m == Len(rpo)
<1>1. /\ n \in Nat \ {0} /\ stack[1] = <<Block, NextSuccessor>> /\ Block \in Blocks
      /\ Block \in Stacked /\ NextSuccessor \in Nat \ {0} /\ successors[Block] \in Seq(Blocks)
  BY TopFacts
<1>2. m \in Nat
  BY DEF SearchType
<1>3. Blocks' = Blocks /\ Reached' = Reached
  BY SameGraph
<1>4. SearchType'
  BY <1>3 DEF SearchType, Graph
<1>5. /\ \A i, j \in 1..n : stack[i][1] = stack[j][1] => i = j
      /\ \A i, j \in 1..m : rpo[i] = rpo[j] => i = j
      /\ \A i \in 1..(n - 1) : Edge(stack[i + 1][1], stack[i][1])
      /\ Stacked = {stack[i][1] : i \in 1..n} /\ Ended = {rpo[i] : i \in 1..m}
      /\ visited = Stacked \cup Ended /\ Stacked \cap Ended = {} /\ visited \subseteq reachable
      /\ stack[n][1] = Entry
  BY DEF Searched, Stacked, Ended
<1> HIDE DEF n, m
<1>6. \A i \in 1..(n - 1) : stack'[i] = stack[i + 1] /\ i \in 1..n /\ i + 1 \in 1..n
  <2>1. \A i \in 1..(n - 1) : stack'[i] = stack[i + 1]
    BY DEF n
  <2>2. \A i \in 1..(n - 1) : i \in 1..n /\ i + 1 \in 1..n
    BY <1>1
  <2> QED
    BY <2>1, <2>2
<1>7. Stacked' = Stacked \ {Block}
  <2>1. Stacked' = {stack'[i][1] : i \in 1..(n - 1)}
    BY DEF Stacked, n
  <2>2. ASSUME NEW i \in 1..(n - 1) PROVE stack'[i][1] \in Stacked \ {Block}
    <3>1. 1 \in 1..n /\ i + 1 # 1 /\ stack[1][1] = Block
      BY <1>1
    <3>2. i + 1 \in 1..n /\ stack'[i][1] = stack[i + 1][1]
      BY <1>6
    <3>3. stack[i + 1][1] \in Stacked /\ stack[i + 1][1] # Block
      BY <1>5, <3>1, <3>2
    <3> QED
      BY <3>2, <3>3
  <2>3. ASSUME NEW i \in 1..n, stack[i][1] # Block PROVE stack[i][1] \in Stacked'
    <3>1. i # 1
      BY <1>1, <2>3
    <3>2. i - 1 \in 1..(n - 1) /\ (i - 1) + 1 = i
      BY <1>1, <3>1
    <3>3. stack'[i - 1] = stack[i]
      BY <1>6, <3>2
    <3> QED
      BY <2>1, <3>2, <3>3
  <2>4. Stacked' \subseteq Stacked \ {Block}
    BY <2>1, <2>2
  <2>5. Stacked \ {Block} \subseteq Stacked'
    BY <1>5, <2>3
  <2> QED
    BY <2>4, <2>5
<1>8. Ended' = Ended \cup {Block}
  <2>1. Ended' = {rpo'[i] : i \in 1..(m + 1)}
    BY DEF Ended, m
  <2>2. ASSUME NEW i \in 1..(m + 1) PROVE rpo'[i] \in Ended \cup {Block}
    <3>1. i = 1 \/ (i - 1 \in 1..m /\ (i - 1) + 1 = i)
      BY <1>2
    <3>2. i - 1 \in 1..m /\ (i - 1) + 1 = i => rpo'[i] = rpo[i - 1]
      BY DEF m
    <3> QED
      BY <1>5, <3>1, <3>2
  <2>3. ASSUME NEW i \in 1..m PROVE rpo[i] \in Ended'
    <3>1. i + 1 \in 1..(m + 1)
      BY <1>2
    <3> QED
      BY <2>1, <3>1 DEF m
  <2>4. Block \in Ended'
    <3>1. 1 \in 1..(m + 1)
      BY <1>2
    <3> QED
      BY <2>1, <3>1
  <2>5. Ended' \subseteq Ended \cup {Block}
    BY <2>1, <2>2
  <2>6. Ended \subseteq Ended'
    BY <1>5, <2>3
  <2> QED
    BY <2>4, <2>5, <2>6
<1>9. visited' = Stacked' \cup Ended' /\ Stacked' \cap Ended' = {} /\ visited' \subseteq reachable'
  <2>1. visited' = visited /\ reachable' = reachable
    OBVIOUS
  <2>2. visited = Stacked \cup Ended /\ Stacked \cap Ended = {} /\ visited \subseteq reachable
    BY <1>5
  <2>3. visited = Stacked' \cup Ended'
    BY <1>1, <1>7, <1>8, <2>2
  <2>4. Stacked' \cap Ended' = {}
    BY <1>7, <1>8, <2>2
  <2> QED
    BY <2>1, <2>2, <2>3, <2>4
<1>10. \A i \in 1..m : rpo'[i + 1] = rpo[i] /\ i + 1 \in 1..(m + 1)
  BY <1>2 DEF m
<1>11. \A i \in 1..(m + 1) : i = 1 \/ (i - 1 \in 1..m /\ rpo'[i] = rpo[i - 1])
  <2> TAKE i \in 1..(m + 1)
  <2>1. i = 1 \/ (i - 1 \in 1..m /\ (i - 1) + 1 = i)
    BY <1>2
  <2> QED
    BY <1>10, <2>1
<1>12. \A i, j \in 1..(m + 1) : rpo'[i] = rpo'[j] => i = j
  <2>1. ASSUME NEW i \in 1..(m + 1), NEW j \in 1..(m + 1), i # 1, j # 1, rpo'[i] = rpo'[j]
        PROVE  i = j
    <3>1. i - 1 = j - 1
      BY <1>5, <1>11, <2>1
    <3> QED
      BY <1>2, <3>1
  <2>2. ASSUME NEW i \in 1..(m + 1), i # 1 PROVE rpo'[i] # rpo'[1]
    <3>1. rpo'[i] \in Ended
      BY <1>5, <1>11, <2>2
    <3>2. Block \notin Ended
      BY <1>1, <1>5
    <3> QED
      BY <3>1, <3>2
  <2> QED
    BY <2>1, <2>2
<1>13. \A i, j \in 1..(n - 1) : stack'[i][1] = stack'[j][1] => i = j
  <2> TAKE i, j \in 1..(n - 1)
  <2> HAVE stack'[i][1] = stack'[j][1]
  <2>a. i + 1 \in 1..n /\ j + 1 \in 1..n /\ stack[i + 1][1] = stack[j + 1][1]
    BY <1>6
  <2>b. \A k, l \in 1..n : stack[k][1] = stack[l][1] => k = l
    BY <1>5
  <2>1. i + 1 = j + 1
    BY <2>a, <2>b
  <2> QED
    BY <1>1, <2>1
<1>14. IF stack' = <<>> THEN rpo' # <<>> /\ rpo'[1] = Entry ELSE stack'[n - 1][1] = Entry
  <2>1. CASE n = 1
    <3>1. Len(stack') = 0 /\ stack' = <<>>
      BY <2>1, EmptySeq DEF n
    <3>2. Block = Entry
      BY <1>1, <1>5, <2>1
    <3>3. rpo' # <<>>
      <4>1. Len(rpo') # 0
        BY <1>2 DEF m
      <4> QED
        BY <4>1
    <3> QED
      BY <3>1, <3>2, <3>3
  <2>2. CASE n # 1
    <3>1. n - 1 \in 1..(n - 1) /\ (n - 1) + 1 = n
      BY <1>1, <2>2
    <3>2. stack' # <<>>
      <4>1. Len(stack') # 0
        BY <1>1, <2>2 DEF n
      <4> QED
        BY <4>1
    <3>3. stack'[n - 1][1] = Entry
      BY <1>5, <1>6, <3>1
    <3> QED
      BY <3>2, <3>3
  <2> QED
    BY <2>1, <2>2
<1>15. \A i \in 1..((n - 1) - 1) : Edge(stack'[i + 1][1], stack'[i][1])
  <2> TAKE i \in 1..((n - 1) - 1)
  <2>a. i \in 1..(n - 1) /\ i + 1 \in 1..(n - 1)
    BY <1>1
  <2>1. i \in 1..(n - 1) /\ i + 1 \in 1..(n - 1) /\ stack'[i] = stack[i + 1]
    BY <1>6, <2>a
  <2>2. stack'[i + 1] = stack[(i + 1) + 1]
    BY <1>6, <2>1
  <2> QED
    BY <1>5, <2>1, <2>2
<1>16. \A i \in 1..(n - 1) : \A k \in 1..(stack'[i][2] - 1) :
          k \in 1..Len(successors[stack'[i][1]]) => successors[stack'[i][1]][k] \in visited
  BY <1>6 DEF Searched, n
<1>17. \A b \in Ended', c \in Blocks' : Edge(b, c) => c \in visited
  <2>1. ASSUME NEW c \in Blocks, Edge(Block, c) PROVE c \in visited
    <3>1. PICK k \in 1..Len(successors[Block]) : successors[Block][k] = c
      BY <1>1, <2>1 DEF Edge, ToSet
    <3>2. 1 \in 1..n /\ k \in 1..(stack[1][2] - 1) /\ stack[1][1] = Block
      BY <1>1, <3>1
    <3> QED
      BY <3>1, <3>2 DEF Searched, n
  <2>2. \A b \in Ended, c \in Blocks : Edge(b, c) => c \in visited
    BY DEF Searched
  <2> QED
    BY <1>3, <1>8, <2>1, <2>2
<1>18. \A i \in 1..(m + 1) : rpo'[i] # Entry =>
          \/ \E j \in 1..(i - 1) : Edge(rpo'[j], rpo'[i])
          \/ \E a \in Stacked' : Edge(a, rpo'[i])
  <2> TAKE i \in 1..(m + 1)
  <2> HAVE rpo'[i] # Entry
  <2>1. CASE i = 1
    <3>1. n # 1
      BY <1>1, <1>5, <2>1
    <3>2. 1 \in 1..(n - 1) /\ 1 + 1 = 2
      BY <1>1, <3>1
    <3>3. Edge(stack[2][1], Block) /\ stack[2][1] \in Stacked /\ stack[2][1] # Block
      <4>1. 1 \in 1..n /\ 2 \in 1..n /\ 2 # 1 /\ stack[1][1] = Block
        BY <1>1, <3>1
      <4>2. Edge(stack[1 + 1][1], stack[1][1])
        BY <1>5, <3>2
      <4>3. stack[2][1] \in Stacked
        BY <1>5, <4>1
      <4>4. stack[2][1] # Block
        BY <1>5, <4>1
      <4> QED
        BY <3>2, <4>1, <4>2, <4>3, <4>4
    <3> QED
      BY <1>7, <2>1, <3>3
  <2>2. CASE i # 1
    <3>1. i - 1 \in 1..m /\ rpo'[i] = rpo[i - 1]
      BY <1>11, <2>2
    <3>2. \/ \E j \in 1..((i - 1) - 1) : Edge(rpo[j], rpo[i - 1])
          \/ \E a \in Stacked : Edge(a, rpo[i - 1])
      BY <3>1 DEF Searched, m
    <3>3. CASE \E j \in 1..((i - 1) - 1) : Edge(rpo[j], rpo[i - 1])
      <4>1. PICK j \in 1..((i - 1) - 1) : Edge(rpo[j], rpo[i - 1])
        BY <3>3
      <4>2. j \in 1..m /\ j + 1 \in 1..(i - 1)
        BY <1>2, <3>1
      <4>3. rpo'[j + 1] = rpo[j]
        BY <1>10, <4>2
      <4> QED
        BY <3>1, <4>1, <4>2, <4>3
    <3>4. CASE \E a \in Stacked : Edge(a, rpo[i - 1])
      <4>1. PICK a \in Stacked : Edge(a, rpo[i - 1])
        BY <3>4
      <4>2. CASE a = Block
        <5>1. 1 \in 1..(i - 1)
          BY <1>2, <2>2
        <5> QED
          BY <3>1, <4>1, <4>2, <5>1
      <4>3. CASE a # Block
        BY <1>7, <3>1, <4>1, <4>3
      <4> QED
        BY <4>2, <4>3
    <3> QED
      BY <3>2, <3>3, <3>4
  <2> QED
    BY <2>1, <2>2
<1>19. Len(stack') = n - 1 /\ Len(rpo') = m + 1 /\ visited' = visited /\ successors' = successors
  BY DEF n, m
<1> QED
  BY <1>4, <1>9, <1>12, <1>13, <1>14, <1>15, <1>16, <1>17, <1>18, <1>19 DEF Searched, Entry, Edge

\* When dfs has returned from the entry, the order is complete.
LEMMA SearchEnds ==
    ASSUME SearchType, Searched, stack = <<>>
    PROVE  Sorted
<1>1. Stacked = {}
  BY DEF Stacked
<1>2. Ended = visited /\ Ended \subseteq reachable
  BY <1>1 DEF Searched
<1>3. rpo \in Seq(Blocks) /\ Len(rpo) \in Nat /\ Len(rpo) # 0 /\ rpo[1] = Entry
  BY EmptySeq DEF SearchType, Searched
<1>4. Entry \in Ended
  <2>1. 1 \in 1..Len(rpo)
    BY <1>3
  <2> QED
    BY <1>3, <2>1 DEF Ended
<1>5. reachable \subseteq Ended
  <2>1. \A x \in Ended, y \in Blocks : Edge(x, y) /\ y # None => y \in Ended
    BY <1>2 DEF Searched
  <2> QED
    BY <1>4, <2>1, AvoidingLeast DEF SearchType, Reached
<1>6. \A i, j \in 1..Len(rpo) : rpo[i] = rpo[j] => i = j
  BY DEF Searched
<1>7. ASSUME NEW i \in 2..Len(rpo) PROVE \E j \in 1..(i - 1) : Edge(rpo[j], rpo[i])
  <2>1. i \in 1..Len(rpo) /\ 1 \in 1..Len(rpo) /\ i # 1
    BY <1>3
  <2>2. rpo[i] # Entry
    BY <1>3, <1>6, <2>1
  <2> QED
    BY <1>1, <2>1, <2>2 DEF Searched
<1>8. rpo # <<>>
  BY DEF Searched
<1> QED
  BY <1>2, <1>3, <1>5, <1>6, <1>7, <1>8 DEF Sorted, SearchType
-----------------------------------------------------------------------------
(* the sweeps                                                              *)

\* While the graph and the order stay, so does what is said about them.
LEMMA SameOrder ==
    ASSUME UNCHANGED <<successors, reachable, rpo>>
    PROVE  /\ Sorted' <=> Sorted
           /\ Others' = Others
           /\ \A b : Index(b)' = Index(b)
           /\ \A b : StrictDominators(b)' = StrictDominators(b)
           /\ \A a, b : Dominates(a, b)' <=> Dominates(a, b)
<1>1. /\ Blocks' = Blocks /\ Reached' = Reached
      /\ \A b : StrictDominators(b)' = StrictDominators(b)
      /\ \A a, b : Dominates(a, b)' <=> Dominates(a, b)
  BY SameGraph
<1>2. Sorted' <=> Sorted
  BY <1>1 DEF Sorted, Graph, Ended, Edge
<1>3. Others' = Others
  BY DEF Others
<1>4. \A b : Index(b)' = Index(b)
  BY DEF Index
<1> QED
  BY <1>1, <1>2, <1>3, <1>4

LEMMA SameTree ==
    ASSUME UNCHANGED <<successors, reachable, rpo, idom>>
    PROVE  /\ Tree' <=> Tree
           /\ \A b : Upwards(b)' = Upwards(b)
           /\ \A b : ProcessedPreds(b)' = ProcessedPreds(b)
<1>1. Tree' <=> Tree
  BY SameOrder DEF Tree
<1>2. \A b : Upwards(b)' = Upwards(b)
  BY DEF Upwards, ClosedUp
<1>3. \A b : ProcessedPreds(b)' = ProcessedPreds(b)
  BY DEF ProcessedPreds, Edge
<1> QED
  BY <1>1, <1>2, <1>3

Turn == rpo[at]

\* The sweep has given every block that it has passed a dominator.
Swept == /\ Sorted /\ Tree /\ at \in 1..(Len(rpo) + 1)
         /\ \A i \in 1..(at - 1) : idom[rpo[i]] # None

\* As long as nothing has changed: the dominator of every block that the
\* sweep has passed lies above each of its predecessors.
Fixed == \A i \in 1..(at - 1) : rpo[i] # Entry =>
            \A p \in ProcessedPreds(rpo[i]) : idom[rpo[i]] \in Upwards(p)

\* The fingers climb from predecessors of the block, past none of its strict
\* dominators, and what has been met lies below one of them.
Finger(f) == f \in reachable /\ idom[f] # None /\ \A a \in StrictDominators(Turn) : Dominates(a, f)

Met == /\ at <= Len(rpo) /\ Turn # Entry
       /\ fingers \in (Blocks \cup {None}) \X (Blocks \cup {None})
       /\ Finger(fingers[1]) /\ Finger(fingers[2])
       /\ preds \subseteq ProcessedPreds(Turn)
       /\ \E x \in {fingers[1], fingers[2]} \cup preds : Index(x) < Index(Turn)
       /\ \A p \in ProcessedPreds(Turn) \ preds : fingers[1] \in Upwards(p) \/ fingers[2] \in Upwards(p)

LEMMA TurnFacts ==
    ASSUME Swept, at <= Len(rpo)
    PROVE  /\ at \in 1..Len(rpo) /\ Turn \in reachable /\ Turn \in Blocks /\ Turn \in Reached
           /\ Index(Turn) = at
           /\ Graph(successors) /\ reachable = Reached /\ reachable \subseteq Blocks
           /\ idom \in [reachable -> reachable \cup {None}] /\ None \notin reachable
           /\ \A p \in ProcessedPreds(Turn) :
                 p \in reachable /\ Edge(p, Turn) /\ idom[p] # None /\ Finger(p) /\ p \in Nat
<1>1. at \in 1..Len(rpo)
  BY IndexFacts DEF Swept
<1>2. Turn \in reachable /\ Index(Turn) = at
  BY <1>1, IndexFacts DEF Swept, Turn
<1>3. Graph(successors) /\ reachable = Reached
  BY DEF Swept, Sorted
<1>4. reachable \subseteq Blocks /\ Blocks \subseteq Nat /\ None \notin Blocks
  BY <1>3, ReachedFacts, BlocksFacts
<1>5. ASSUME NEW p \in ProcessedPreds(Turn)
      PROVE  p \in reachable /\ Edge(p, Turn) /\ idom[p] # None /\ Finger(p) /\ p \in Nat
  <2>1. p \in reachable /\ Edge(p, Turn) /\ idom[p] # None
    BY DEF ProcessedPreds
  <2>2. \A a \in StrictDominators(Turn) : Dominates(a, p)
    BY <1>2, <1>3, <2>1, DominatesPredecessor
  <2> QED
    BY <1>4, <2>1, <2>2 DEF Finger
<1>6. idom \in [reachable -> reachable \cup {None}]
  BY DEF Swept, Tree
<1> QED
  BY <1>1, <1>2, <1>3, <1>4, <1>5, <1>6

\* A block behind the entry has a predecessor that the sweep has passed.
LEMMA PassedPredecessor ==
    ASSUME Swept, at <= Len(rpo), Turn # Entry
    PROVE  \E p \in ProcessedPreds(Turn) : Index(p) < Index(Turn)
<1>1. at \in 1..Len(rpo) /\ Len(rpo) \in Nat /\ Index(Turn) = at
  BY TurnFacts, IndexFacts DEF Swept
<1>2. at \in 2..Len(rpo)
  <2>1. at # 1
    BY DEF Turn, Swept, Sorted
  <2> QED
    BY <1>1, <2>1
<1>3. PICK j \in 1..(at - 1) : Edge(rpo[j], rpo[at])
  BY <1>2 DEF Swept, Sorted
<1>4. j \in 1..Len(rpo) /\ j < at
  BY <1>1, <1>3
<1>5. rpo[j] \in reachable /\ Index(rpo[j]) = j /\ idom[rpo[j]] # None
  BY <1>3, <1>4, IndexFacts DEF Swept
<1>6. rpo[j] \in ProcessedPreds(Turn)
  BY <1>3, <1>5 DEF ProcessedPreds, Turn
<1> QED
  BY <1>1, <1>4, <1>5, <1>6

LEMMA StepBeginSweeps ==
    ASSUME Sorted, idom' = [b \in reachable |-> IF b = Entry THEN Entry ELSE None],
           at' = 1, UNCHANGED <<successors, reachable, rpo>>
    PROVE  Swept' /\ Fixed'
<1>1. Sorted' /\ Entry \in reachable /\ None \notin reachable /\ Len(rpo) \in Nat
  <2>1. reachable \subseteq Blocks /\ None \notin Blocks
    BY ReachedFacts, BlocksFacts DEF Sorted
  <2> QED
    BY <2>1, SameOrder, IndexFacts
<1>2. Tree'
  <2>1. idom' \in [reachable -> reachable \cup {None}] /\ idom'[Entry] = Entry
    BY <1>1
  <2>2. \A b \in Others : idom'[b] = None
    BY DEF Others
  <2>3. Others' = Others /\ reachable' = reachable
    BY SameOrder
  <2> QED
    BY <2>1, <2>2, <2>3 DEF Tree, Entry
<1>3. at' \in 1..(Len(rpo') + 1) /\ 1..(at' - 1) = {}
  BY <1>1
<1> QED
  BY <1>1, <1>2, <1>3 DEF Swept, Fixed

LEMMA StepPassOver ==
    ASSUME Swept, at <= Len(rpo), Turn = Entry \/ ProcessedPreds(Turn) = {},
           at' = at + 1, UNCHANGED <<successors, reachable, rpo, idom>>
    PROVE  Swept' /\ (Fixed => Fixed')
<1>1. Turn = Entry
  BY PassedPredecessor
<1>2. at \in 1..Len(rpo) /\ Len(rpo) \in Nat
  BY TurnFacts, IndexFacts DEF Swept
<1>3. Sorted' /\ Tree'
  BY SameOrder, SameTree DEF Swept
<1>4. \A i \in 1..(at' - 1) : i = at \/ i \in 1..(at - 1)
  BY <1>2
<1>5. idom[rpo[at]] # None
  BY <1>1, IndexFacts, NoneAssumption DEF Swept, Tree, Turn, Entry
<1>6. \A i \in 1..(at' - 1) : idom'[rpo'[i]] # None
  BY <1>4, <1>5 DEF Swept
<1>7. at' \in 1..(Len(rpo') + 1)
  BY <1>2
<1>8. ASSUME Fixed PROVE Fixed'
  <2>1. \A i \in 1..(at' - 1) : rpo[i] # Entry =>
            \A p \in ProcessedPreds(rpo[i]) : idom[rpo[i]] \in Upwards(p)
    BY <1>1, <1>4, <1>8 DEF Fixed, Turn
  <2> QED
    BY <2>1, SameTree DEF Fixed, Entry
<1> QED
  BY <1>3, <1>6, <1>7, <1>8 DEF Swept

LEMMA StepVisit ==
    ASSUME Swept, at <= Len(rpo), Turn # Entry, ProcessedPreds(Turn) # {},
           NEW p, p = Min(ProcessedPreds(Turn)),
           fingers' = <<p, p>>, preds' = ProcessedPreds(Turn) \ {p},
           UNCHANGED <<successors, reachable, rpo, idom, at>>
    PROVE  Met'
<1>1. Turn' = Turn
  BY DEF Turn
<1>2. p \in ProcessedPreds(Turn)
  <2>1. ProcessedPreds(Turn) \subseteq Nat
    BY TurnFacts
  <2> QED
    BY <2>1, MinFacts
<1>3. Finger(p) /\ p \in reachable /\ p \in Blocks
  BY <1>2, TurnFacts
<1>4. /\ ProcessedPreds(Turn)' = ProcessedPreds(Turn)
      /\ \A b : Upwards(b)' = Upwards(b) /\ Index(b)' = Index(b)
      /\ \A f : Finger(f)' <=> Finger(f)
  <2>1. \A f : Finger(f)' <=> Finger(f)
    BY <1>1, SameOrder DEF Finger
  <2> QED
    BY <1>1, <2>1, SameTree, SameOrder
<1>5. fingers'[1] = p /\ fingers'[2] = p
  OBVIOUS
<1>6. fingers' \in (Blocks' \cup {None}) \X (Blocks' \cup {None})
  BY <1>3, SameGraph
<1>7. \E x \in {fingers'[1], fingers'[2]} \cup preds' : Index(x) < Index(Turn)
  BY <1>2, <1>5, PassedPredecessor
<1>8. p \in Upwards(p)
  BY <1>3, TurnFacts, UpwardsFacts
<1>9. \A q \in ProcessedPreds(Turn) \ preds' : fingers'[1] \in Upwards(q)
  BY <1>5, <1>8
<1>10. Finger(fingers'[1]) /\ Finger(fingers'[2]) /\ preds' \subseteq ProcessedPreds(Turn)
  BY <1>3, <1>5
<1> QED
  BY <1>1, <1>4, <1>6, <1>7, <1>9, <1>10 DEF Met, Entry

\* The next predecessor is met with what the ones before it have in common.
LEMMA StepIntersect ==
    ASSUME Swept, Met, fingers[1] = fingers[2], preds # {},
           NEW p, p = Min(preds),
           fingers' = <<p, fingers[1]>>, preds' = preds \ {p},
           UNCHANGED <<successors, reachable, rpo, idom, at>>
    PROVE  Met'
<1>1. Turn' = Turn /\ at <= Len(rpo)
  BY DEF Turn, Met
<1>2. p \in preds /\ p \in ProcessedPreds(Turn) /\ preds \subseteq ProcessedPreds(Turn)
  <2>1. preds \subseteq ProcessedPreds(Turn) /\ ProcessedPreds(Turn) \subseteq Nat
    BY <1>1, TurnFacts DEF Met
  <2> QED
    BY <2>1, MinFacts
<1>3. Finger(p) /\ p \in reachable /\ p \in Blocks /\ Finger(fingers[1])
  BY <1>1, <1>2, TurnFacts DEF Met
<1>4. /\ ProcessedPreds(Turn)' = ProcessedPreds(Turn)
      /\ \A b : Upwards(b)' = Upwards(b) /\ Index(b)' = Index(b)
      /\ \A f : Finger(f)' <=> Finger(f)
  <2>1. \A f : Finger(f)' <=> Finger(f)
    BY <1>1, SameOrder DEF Finger
  <2> QED
    BY <1>1, <2>1, SameTree, SameOrder
<1>5. fingers'[1] = p /\ fingers'[2] = fingers[1]
  OBVIOUS
<1>6. fingers' \in (Blocks' \cup {None}) \X (Blocks' \cup {None})
  <2>1. fingers[1] \in Blocks \cup {None}
    BY DEF Met
  <2> QED
    BY <1>3, <2>1, SameGraph
<1>7. \E x \in {fingers'[1], fingers'[2]} \cup preds' : Index(x) < Index(Turn)
  <2>1. PICK x \in {fingers[1], fingers[2]} \cup preds : Index(x) < Index(Turn)
    BY DEF Met
  <2>2. x \in {fingers'[1], fingers'[2]} \cup preds'
    BY <1>5, <2>1
  <2> QED
    BY <2>1, <2>2
<1>8. p \in Upwards(p)
  BY <1>1, <1>3, TurnFacts, UpwardsFacts
<1>9. \A q \in ProcessedPreds(Turn) \ preds' : fingers'[1] \in Upwards(q) \/ fingers'[2] \in Upwards(q)
  <2> TAKE q \in ProcessedPreds(Turn) \ preds'
  <2>1. CASE q = p
    BY <1>5, <1>8, <2>1
  <2>2. CASE q # p
    <3>1. fingers[1] \in Upwards(q) \/ fingers[2] \in Upwards(q)
      BY <2>2 DEF Met
    <3> QED
      BY <1>5, <3>1
  <2> QED
    BY <2>1, <2>2
<1>10. Finger(fingers'[1]) /\ Finger(fingers'[2]) /\ preds' \subseteq ProcessedPreds(Turn)
  BY <1>2, <1>3, <1>5
<1>11. at' <= Len(rpo') /\ Turn' # Entry'
  BY <1>1 DEF Met, Entry
<1> QED
  BY <1>1, <1>4, <1>6, <1>7, <1>9, <1>10, <1>11 DEF Met

\* The finger behind climbs: past no strict dominator of the block, since one
\* that it stands on would dominate the other finger, and stand before it.
LEMMA ClimbFinger ==
    ASSUME Swept, at <= Len(rpo), NEW f, NEW g, Finger(f), Finger(g), Index(f) > Index(g)
    PROVE  /\ Finger(idom[f]) /\ idom[f] \in Blocks /\ Index(idom[f]) < Index(f)
           /\ \A q \in reachable : f \in Upwards(q) => idom[f] \in Upwards(q)
<1>1. f \in reachable /\ g \in reachable /\ idom[f] # None
  BY DEF Finger
<1>2. /\ idom \in [reachable -> reachable \cup {None}] /\ reachable \subseteq Blocks
      /\ reachable = Reached
  BY TurnFacts
<1>3. f \in Others
  <2>1. Index(f) \in Nat /\ Index(g) \in Nat /\ Index(g) >= 1 /\ Index(Entry) = 1
    BY <1>1, IndexFacts DEF Swept
  <2>2. f # Entry
    BY <2>1
  <2> QED
    BY <1>1, <2>2 DEF Others
<1>4. /\ Index(idom[f]) < Index(f) /\ idom[idom[f]] # None
      /\ \A a \in StrictDominators(f) : Dominates(a, idom[f])
  BY <1>1, <1>3 DEF Swept, Tree
<1>5. idom[f] \in reachable
  BY <1>1, <1>2
<1>6. ASSUME NEW a \in StrictDominators(Turn) PROVE Dominates(a, idom[f])
  <2>1. Dominates(a, f) /\ Dominates(a, g) /\ a \in reachable
    BY <1>2 DEF Finger, StrictDominators, Reached
  <2>2. a # f
    <3>1. Index(a) <= Index(g)
      BY <1>1, <2>1, DominatorsFirst DEF Swept
    <3>2. Index(a) \in Nat /\ Index(f) \in Nat /\ Index(g) \in Nat
      BY <1>1, <2>1, IndexFacts DEF Swept
    <3> QED
      BY <3>1, <3>2
  <2>3. a \in StrictDominators(f)
    BY <1>2, <2>1, <2>2 DEF StrictDominators, Reached
  <2> QED
    BY <1>4, <2>3
<1>7. ASSUME NEW q \in reachable, f \in Upwards(q) PROVE idom[f] \in Upwards(q)
  BY <1>1, <1>2, <1>7, UpwardsFacts DEF ClosedUp
<1> QED
  BY <1>2, <1>4, <1>5, <1>6, <1>7 DEF Finger

LEMMA StepClimb ==
    ASSUME Swept, Met, NEW k \in {1, 2}, Index(fingers[k]) > Index(fingers[3 - k]),
           fingers' = [fingers EXCEPT ![k] = idom[@]],
           UNCHANGED <<successors, reachable, rpo, idom, at, preds>>
    PROVE  Met'
<1>1. Turn' = Turn /\ at <= Len(rpo)
  BY DEF Turn, Met
<1> DEFINE f == fingers[k]
           g == fingers[3 - k]
<1>2. 3 - k \in {1, 2} /\ 3 - k # k /\ {k, 3 - k} = {1, 2}
  OBVIOUS
<1>3. /\ fingers'[k] = idom[f] /\ fingers'[3 - k] = g
      /\ fingers' \in (Blocks \cup {None, idom[f]}) \X (Blocks \cup {None, idom[f]})
  <2>1. fingers \in (Blocks \cup {None}) \X (Blocks \cup {None})
    BY DEF Met
  <2>2. CASE k = 1
    BY <2>1, <2>2
  <2>3. CASE k = 2
    BY <2>1, <2>3
  <2> QED
    BY <2>2, <2>3
<1>4. Finger(f) /\ Finger(g)
  <2>1. k = 1 \/ k = 2
    OBVIOUS
  <2> QED
    BY <2>1 DEF Met
<1>5. /\ Finger(idom[f]) /\ idom[f] \in Blocks /\ Index(idom[f]) < Index(f)
      /\ \A q \in reachable : f \in Upwards(q) => idom[f] \in Upwards(q)
  <2> HIDE DEF f, g
  <2>1. Index(f) > Index(g)
    BY DEF f, g
  <2> QED
    BY <1>1, <1>4, <2>1, ClimbFinger
<1>6. /\ ProcessedPreds(Turn)' = ProcessedPreds(Turn)
      /\ \A b : Upwards(b)' = Upwards(b) /\ Index(b)' = Index(b)
      /\ \A h : Finger(h)' <=> Finger(h)
  <2>1. \A h : Finger(h)' <=> Finger(h)
    BY <1>1, SameOrder DEF Finger
  <2> QED
    BY <1>1, <2>1, SameTree, SameOrder
<1>7. fingers' \in (Blocks' \cup {None}) \X (Blocks' \cup {None})
  BY <1>3, <1>5, SameGraph
<1>8. {fingers[1], fingers[2]} = {f, g} /\ {fingers'[1], fingers'[2]} = {idom[f], g}
  <2>1. k = 1 \/ k = 2
    OBVIOUS
  <2> QED
    BY <1>3, <2>1
<1> HIDE DEF f, g
<1>9. Index(f) \in Nat /\ Index(idom[f]) \in Nat /\ Index(Turn) \in Nat
  <2>1. f \in reachable /\ idom[f] \in reachable /\ Turn \in reachable
    BY <1>1, <1>4, <1>5, TurnFacts DEF Finger
  <2> QED
    BY <2>1, IndexFacts DEF Swept
<1>10. \E x \in {fingers'[1], fingers'[2]} \cup preds' : Index(x) < Index(Turn)
  <2>1. PICK x \in {f, g} \cup preds : Index(x) < Index(Turn)
    BY <1>8 DEF Met
  <2>2. CASE x = f
    <3>1. Index(idom[f]) < Index(Turn)
      BY <1>5, <1>9, <2>1, <2>2
    <3> QED
      BY <1>8, <3>1
  <2>3. CASE x # f
    <3>1. x \in {fingers'[1], fingers'[2]} \cup preds'
      BY <1>8, <2>1, <2>3
    <3> QED
      BY <2>1, <3>1
  <2> QED
    BY <2>2, <2>3
<1>11. \A q \in ProcessedPreds(Turn) \ preds : \E h \in {fingers'[1], fingers'[2]} : h \in Upwards(q)
  <2> TAKE q \in ProcessedPreds(Turn) \ preds
  <2>1. q \in reachable
    BY DEF ProcessedPreds
  <2>2. PICK h \in {f, g} : h \in Upwards(q)
    BY <1>8 DEF Met
  <2> QED
    BY <1>5, <1>8, <2>1, <2>2
<1>12. Finger(fingers'[1]) /\ Finger(fingers'[2])
  <2>1. k = 1 \/ k = 2
    OBVIOUS
  <2> QED
    BY <1>3, <1>4, <1>5, <2>1
<1>13. at' <= Len(rpo') /\ Turn' # Entry' /\ preds' \subseteq ProcessedPreds(Turn)
  BY <1>1 DEF Met, Entry
<1>14. \A q \in ProcessedPreds(Turn) \ preds' : fingers'[1] \in Upwards(q) \/ fingers'[2] \in Upwards(q)
  BY <1>11
<1> QED
  BY <1>1, <1>6, <1>7, <1>10, <1>12, <1>13, <1>14 DEF Met

\* The block gets what its predecessors have in common.
LEMMA StepSettle ==
    ASSUME Swept, Met, ~changed => Fixed, fingers[1] = fingers[2], preds = {},
           idom' = [idom EXCEPT ![Turn] = fingers[1]], changed' = (changed \/ idom' # idom),
           at' = at + 1, UNCHANGED <<successors, reachable, rpo>>
    PROVE  Swept' /\ (~changed' => Fixed')
<1> DEFINE f == fingers[1]
<1>1. /\ at \in 1..Len(rpo) /\ Turn \in reachable /\ None \notin reachable
      /\ idom \in [reachable -> reachable \cup {None}] /\ Turn # Entry /\ Len(rpo) \in Nat
      /\ Entry \in reachable
  BY TurnFacts, IndexFacts DEF Met, Swept
<1>2. /\ f \in reachable /\ idom[f] # None /\ Index(f) < Index(Turn)
      /\ \A a \in StrictDominators(Turn) : Dominates(a, f)
      /\ \A q \in ProcessedPreds(Turn) : f \in Upwards(q)
  BY DEF Met, Finger
<1> HIDE DEF f
<1>3. /\ idom' \in [reachable -> reachable \cup {None}] /\ idom'[Turn] = f
      /\ \A b \in reachable : b # Turn => idom'[b] = idom[b]
  BY <1>1, <1>2 DEF f
<1>4. f # None /\ idom'[f] # None /\ \A b \in reachable : idom[b] # None => idom'[b] # None
  BY <1>1, <1>2, <1>3
<1>5. Sorted' /\ Others' = Others /\ reachable' = reachable
  BY SameOrder DEF Swept
<1>6. idom'[Entry] = Entry
  BY <1>1, <1>3 DEF Swept, Tree
<1>7. ASSUME NEW b \in Others, idom'[b] # None
      PROVE  /\ Index(idom'[b]) < Index(b) /\ idom'[idom'[b]] # None
             /\ \A a \in StrictDominators(b) : Dominates(a, idom'[b])
  <2>1. CASE b = Turn
    BY <1>2, <1>3, <1>4, <2>1
  <2>2. CASE b # Turn
    <3>1. b \in reachable /\ idom'[b] = idom[b] /\ idom[b] # None
      BY <1>3, <1>7, <2>2 DEF Others
    <3>2. /\ Index(idom[b]) < Index(b) /\ idom[idom[b]] # None
          /\ \A a \in StrictDominators(b) : Dominates(a, idom[b])
      BY <3>1 DEF Swept, Tree
    <3>3. idom[b] \in reachable
      BY <1>1, <3>1
    <3> QED
      BY <1>4, <3>1, <3>2, <3>3
  <2> QED
    BY <2>1, <2>2
<1>8. Tree'
  <2>1. /\ \A b : Index(b)' = Index(b)
        /\ \A b : StrictDominators(b)' = StrictDominators(b)
        /\ \A a, b : Dominates(a, b)' <=> Dominates(a, b)
    BY SameOrder
  <2>2. \A b \in Others' : idom'[b] # None =>
            /\ Index(idom'[b])  < Index(b) /\ idom'[idom'[b]] # None
            /\ \A a \in StrictDominators(b) : Dominates(a, idom'[b])
    BY <1>5, <1>7
  <2> QED
    BY <1>3, <1>5, <1>6, <2>1, <2>2 DEF Tree, Entry
<1>9. \A i \in 1..(at' - 1) : i = at \/ i \in 1..(at - 1)
  BY <1>1
<1>10. ASSUME NEW i \in 1..(at' - 1) PROVE idom'[rpo'[i]] # None
  <2>1. CASE i = at
    BY <1>3, <1>4, <2>1 DEF Turn
  <2>2. CASE i # at
    <3>1. i \in 1..(at - 1) /\ i \in 1..Len(rpo)
      BY <1>1, <1>9, <2>2
    <3>2. rpo[i] \in reachable /\ idom[rpo[i]] # None
      BY <3>1, IndexFacts DEF Swept
    <3> QED
      BY <1>4, <3>2
  <2> QED
    BY <2>1, <2>2
<1>11. at' \in 1..(Len(rpo') + 1)
  BY <1>1
<1>12. ASSUME ~changed' PROVE Fixed'
  <2>1. idom' = idom /\ Fixed
    BY <1>12
  <2>2. \A i \in 1..(at' - 1) : rpo[i] # Entry =>
            \A p \in ProcessedPreds(rpo[i]) : idom[rpo[i]] \in Upwards(p)
    <3> TAKE i \in 1..(at' - 1)
    <3>1. CASE i = at
      <4>1. rpo[i] = Turn /\ idom[Turn] = f
        BY <1>3, <2>1, <3>1 DEF Turn
      <4> QED
        BY <1>2, <4>1
    <3>2. CASE i # at
      BY <1>9, <2>1, <3>2 DEF Fixed
    <3> QED
      BY <3>1, <3>2
  <2> QED
    BY <2>1, <2>2, SameTree DEF Fixed, Entry
<1> QED
  BY <1>5, <1>8, <1>10, <1>11, <1>12 DEF Swept

\* A sweep that has changed nothing has found the immediate dominators.
LEMMA StepFinish ==
    ASSUME Swept, Fixed, at > Len(rpo), idom' = [idom EXCEPT ![Entry] = None],
           UNCHANGED <<successors, reachable, rpo>>
    PROVE  IdomsExact'
<1>1. /\ Sorted /\ Tree /\ reachable = Reached /\ Entry \in reachable /\ None \notin reachable
      /\ idom \in [reachable -> reachable \cup {None}] /\ Len(rpo) \in Nat
  <2>1. Sorted /\ Tree /\ reachable = Reached /\ Graph(successors)
    BY DEF Swept, Sorted
  <2>2. reachable \subseteq Blocks /\ None \notin Blocks
    BY <2>1, ReachedFacts, BlocksFacts
  <2> QED
    BY <2>1, <2>2, IndexFacts DEF Tree
<1>2. at = Len(rpo) + 1
  BY <1>1 DEF Swept
<1>3. ASSUME NEW b \in Others
      PROVE  idom[b] # None /\ \A p \in ProcessedPreds(b) : idom[b] \in Upwards(p)
  <2>1. b \in reachable /\ b # Entry
    BY DEF Others
  <2>2. Index(b) \in 1..Len(rpo) /\ rpo[Index(b)] = b
    BY <1>1, <2>1, IndexFacts
  <2>3. Index(b) \in 1..(at - 1)
    BY <1>1, <1>2, <2>2
  <2> QED
    BY <2>1, <2>2, <2>3 DEF Swept, Fixed
<1>4. \A p \in reachable : idom[p] # None
  BY <1>1, <1>3, NoneAssumption DEF Tree, Others, Entry
<1>5. \A b \in Others, p \in reachable : Edge(p, b) => idom[b] # None /\ idom[b] \in Upwards(p)
  BY <1>3, <1>4 DEF ProcessedPreds
<1>6. ASSUME NEW b \in Others
      PROVE  /\ idom[b] \in StrictDominators(b)
             /\ \A a \in StrictDominators(b) : Dominates(a, idom[b])
  <2>1. b \in reachable /\ idom[b] # None
    BY <1>3 DEF Others
  <2>2. /\ Index(idom[b]) < Index(b)
        /\ \A a \in StrictDominators(b) : Dominates(a, idom[b])
    BY <1>1, <2>1 DEF Tree
  <2>3. idom[b] \in reachable /\ idom[b] # b
    <3>1. idom[b] \in reachable
      BY <1>1, <2>1
    <3>2. Index(idom[b]) \in Nat
      BY <1>1, <3>1, IndexFacts
    <3>3. idom[b] # b
      BY <2>2, <3>2
    <3> QED
      BY <3>1, <3>3
  <2>4. idom[b] \in Upwards(b)
    BY <1>1, <2>1, UpwardsFacts DEF ClosedUp
  <2>5. Dominates(idom[b], b)
    BY <1>1, <1>5, <2>1, <2>4, UpwardsDominate
  <2> QED
    BY <1>1, <2>2, <2>3, <2>5 DEF StrictDominators, Reached
<1>7. /\ reachable' = reachable /\ Avoiding(None)' = reachable
      /\ \A b : StrictDominators(b)' = StrictDominators(b)
      /\ \A a, b : Dominates(a, b)' <=> Dominates(a, b)
  BY <1>1, SameGraph DEF Reached
<1>8. idom'[Entry] = None /\ \A b \in reachable : b # Entry => idom'[b] = idom[b]
  BY <1>1
<1>9. ASSUME NEW b \in reachable, b # Entry
      PROVE  /\ idom'[b] \in StrictDominators(b)
             /\ \A a \in StrictDominators(b) : Dominates(a, idom'[b])
  <2>1. b \in Others
    BY <1>9 DEF Others
  <2>2. idom'[b] = idom[b]
    BY <1>8, <1>9
  <2> QED
    BY <1>6, <2>1, <2>2
<1> QED
  BY <1>7, <1>8, <1>9 DEF IdomsExact, Entry
-----------------------------------------------------------------------------
(* the invariant                                                           *)

SweepInv == /\ pc \in {"sweep", "meet", "done"} => Sorted
            /\ pc \in {"sweep", "meet"} => Swept /\ (~changed => Fixed)
            /\ pc = "meet" => Met

Inv == TypeOK /\ Phases /\ SearchInv /\ SweepInv /\ IdomsExact

LEMMA InitInv == Init => Inv
<1> SUFFICES ASSUME Init PROVE Inv
  OBVIOUS
<1> USE DEF Init, BuilderInit
<1>1. CfgTypeOK
  <2>1. Len(successors) = 2 /\ Blocks = 1..2
    BY DEF Blocks
  <2>2. successors \in Seq(Seq(Blocks))
    <3>1. <<>> \in Seq(Blocks)
      OBVIOUS
    <3> HIDE DEF Blocks
    <3> QED
      BY <3>1
  <2>3. Label(Exit, Exit) \in [target : Blocks, after : Blocks]
    BY <2>1 DEF Label, Exit
  <2>4. labelStack \in Seq([target : Blocks, after : Blocks]) /\ labelStack # <<>>
    <3> HIDE DEF Blocks, Label
    <3> QED
      BY <2>3
  <2> QED
    BY <2>1, <2>2, <2>4 DEF CfgTypeOK, Exit, Entry
<1>2. TypeOK
  <2>1. fingers \in (Blocks \cup {None}) \X (Blocks \cup {None})
    OBVIOUS
  <2>2. stack \in Seq(Blocks \X (Nat \ {0})) /\ rpo \in Seq(Blocks)
    OBVIOUS
  <2> QED
    BY <1>1, <2>1, <2>2 DEF TypeOK
<1> QED
  BY <1>2 DEF Inv, Phases, SearchInv, SweepInv, IdomsExact

\* While the graph stays, so do the types that rest on it.
LEMMA SameTypes ==
    ASSUME TypeOK, UNCHANGED <<cfg, builder>>
    PROVE  /\ CfgTypeOK' /\ Blocks' = Blocks /\ Reached' = Reached /\ Graph(successors)
           /\ successors' = successors
<1>1. UNCHANGED <<prog, successors, terminating, loopHeaders, pos, labelStack, current, home>>
  BY DEF cfg, builder
<1>2. Blocks' = Blocks /\ Reached' = Reached
  BY <1>1, SameGraph
<1>3. CfgTypeOK'
  BY <1>1, <1>2 DEF TypeOK, CfgTypeOK
<1>4. Graph(successors)
  BY DEF TypeOK, CfgTypeOK, Graph, Blocks
<1> QED
  BY <1>1, <1>2, <1>3, <1>4

LEMMA ReadNextInv == Inv /\ ReadNext => Inv'
<1> SUFFICES ASSUME Inv, ReadNext PROVE Inv'
  OBVIOUS
<1>1. /\ pc = "build" /\ Build /\ pc' = pc
      /\ UNCHANGED <<reachable, stack, visited, rpo, idom, at, changed, preds, fingers>>
  BY DEF ReadNext, search, sweep, meeting
<1>2. CfgTypeOK'
  BY <1>1, BuildType DEF Inv, TypeOK
<1>3. /\ stack = <<>> /\ rpo = <<>> /\ visited = {} /\ reachable = {} /\ preds = {}
      /\ fingers = <<None, None>>
  BY <1>1 DEF Inv, Phases
<1>4. stack' \in Seq(Blocks' \X (Nat \ {0})) /\ rpo' \in Seq(Blocks')
  BY <1>1, <1>3
<1>5. fingers' \in (Blocks' \cup {None}) \X (Blocks' \cup {None})
  BY <1>1, <1>3
<1>6. TypeOK'
  <2>1. idom' \in {<<>>}
    BY <1>1 DEF Inv, TypeOK
  <2> QED
    BY <1>1, <1>2, <1>3, <1>4, <1>5, <2>1 DEF Inv, TypeOK
<1> QED
  BY <1>1, <1>3, <1>6 DEF Inv, Phases, SearchInv, SweepInv, IdomsExact

LEMMA FinishInv == Inv /\ Finish => Inv'
<1> SUFFICES ASSUME Inv, Finish PROVE Inv'
  OBVIOUS
<1>1. /\ pc = "build" /\ pc' = "reach" /\ reachable' = {Entry}
      /\ UNCHANGED <<cfg, builder>>
      /\ UNCHANGED <<stack, visited, rpo, idom, at, changed, preds, fingers>>
  BY DEF Finish, search, sweep, meeting
<1>2. CfgTypeOK' /\ Blocks' = Blocks /\ Reached' = Reached /\ Graph(successors)
  BY <1>1, SameTypes DEF Inv
<1>3. Entry \in Reached /\ Entry \in Blocks
  BY <1>2, ReachedFacts
<1>4. TypeOK'
  BY <1>1, <1>2, <1>3 DEF Inv, TypeOK
<1>5. Phases'
  BY <1>1, <1>2, <1>3 DEF Inv, Phases, Entry
<1> QED
  BY <1>1, <1>4, <1>5 DEF Inv, SearchInv, SweepInv, IdomsExact

LEMMA ReachInv == Inv /\ Reach => Inv'
<1> SUFFICES ASSUME Inv, Reach PROVE Inv'
  OBVIOUS
<1>1. /\ pc = "reach" /\ reachable' = Spread(reachable)
      /\ UNCHANGED <<cfg, builder>>
      /\ UNCHANGED <<rpo, idom, at, changed, preds, fingers>>
  BY DEF Reach, sweep, meeting
<1>2. /\ CfgTypeOK' /\ Blocks' = Blocks /\ Reached' = Reached /\ Graph(successors)
      /\ successors' = successors
  BY <1>1, SameTypes DEF Inv
<1>3. /\ Entry \in reachable /\ reachable \subseteq Reached
      /\ stack = <<>> /\ rpo = <<>> /\ visited = {}
  BY <1>1 DEF Inv, Phases
<1>4. /\ Reached \subseteq Blocks /\ Entry \in Reached
      /\ \A x \in Reached, y \in Blocks : Edge(x, y) => y \in Reached
  BY <1>2, ReachedFacts
<1>5. reachable \subseteq Spread(reachable) /\ Spread(reachable) \subseteq Reached
  BY <1>3, <1>4 DEF Spread
<1>6. CASE Spread(reachable) # reachable
  <2>1. pc' = pc /\ stack' = stack /\ visited' = visited
    BY <1>6 DEF Reach
  <2>2. TypeOK'
    BY <1>1, <1>2, <1>4, <1>5, <2>1 DEF Inv, TypeOK
  <2>3. Phases'
    BY <1>1, <1>2, <1>3, <1>5, <2>1 DEF Phases, Entry
  <2> QED
    BY <1>1, <2>1, <2>2, <2>3 DEF Inv, SearchInv, SweepInv, IdomsExact
<1>7. CASE Spread(reachable) = reachable
  <2>1. pc' = "dfs" /\ stack' = <<<<Entry, 1>>>> /\ visited' = {Entry}
    BY <1>7 DEF Reach
  <2>2. Reached \subseteq reachable
    <3>1. \A x \in reachable, y \in Blocks : Edge(x, y) /\ y # None => y \in reachable
      BY <1>7 DEF Spread
    <3> QED
      BY <1>2, <1>3, <3>1, AvoidingLeast DEF Reached
  <2>3. <<Entry, 1>> \in Blocks \X (Nat \ {0})
    BY <1>4
  <2>4. stack' \in Seq(Blocks \X (Nat \ {0})) /\ Len(stack') = 1 /\ stack'[1] = <<Entry, 1>>
    BY <2>1, <2>3
  <2>5. TypeOK'
    BY <1>1, <1>2, <1>4, <1>5, <2>1, <2>4 DEF Inv, TypeOK
  <2>6. Phases'
    BY <1>1, <1>2, <1>5, <2>1, <2>2 DEF Phases
  <2>7. rpo' = <<>> /\ Len(rpo') = 0 /\ stack' # <<>> /\ reachable' = reachable
    BY <1>1, <1>3, <1>7, <2>1
  <2>8. Stacked' = {Entry} /\ Ended' = {}
    BY <2>4, <2>7 DEF Stacked, Ended
  <2>9. Searched'
    <3>1. \A i \in 1..Len(stack') : i = 1 /\ stack'[i][1] = Entry /\ stack'[i][2] = 1
      BY <2>4
    <3>2. 1..(Len(stack') - 1) = {} /\ 1..Len(rpo') = {} /\ 1..(1 - 1) = {}
      BY <2>4, <2>7
    <3>3. \A i \in 1..Len(stack') : 1..(stack'[i][2] - 1) = {}
      BY <3>1
    <3> QED
      BY <1>3, <2>1, <2>4, <2>7, <2>8, <3>1, <3>2, <3>3 DEF Searched, Entry
  <2> QED
    BY <2>1, <2>5, <2>6, <2>9 DEF Inv, SearchInv, SweepInv, IdomsExact
<1> QED
  BY <1>6, <1>7

LEMMA DescendInv == Inv /\ Descend => Inv'
<1> SUFFICES ASSUME Inv, Descend PROVE Inv'
  OBVIOUS
<1>1. /\ pc = "dfs" /\ stack # <<>> /\ NextSuccessor <= Len(successors[Block]) /\ pc' = pc
      /\ UNCHANGED <<cfg, builder>>
      /\ UNCHANGED <<reachable, rpo, idom, at, changed, preds, fingers>>
  BY DEF Descend, sweep, meeting
<1>2. /\ CfgTypeOK' /\ Blocks' = Blocks /\ Reached' = Reached /\ Graph(successors)
      /\ successors' = successors
  BY <1>1, SameTypes DEF Inv
<1>3. Searched /\ SearchType
  BY <1>1, <1>2 DEF Inv, SearchInv, Phases, TypeOK, SearchType
<1>4. SearchType' /\ Searched'
  <2> DEFINE s == successors[Block][NextSuccessor]
             X == Blocks \X (Nat \ {0})
  <2>1. CASE s \in reachable \ visited
    <3>1. stack' = <<<<s, 1>>, Later>> \o Tail(stack) /\ visited' = visited \cup {s}
      BY <2>1 DEF Descend
    <3>2. <<s, 1>> \in X /\ Later \in X /\ stack \in Seq(X)
      BY <1>1, <1>3, <2>1, TopFacts DEF Inv, TypeOK, SearchType
    <3> HIDE DEF s, X
    <3>3. /\ stack' \in Seq(X) /\ Len(stack') = Len(stack) + 1
          /\ stack'[1] = <<s, 1>> /\ stack'[2] = Later
          /\ \A i \in 3..(Len(stack) + 1) : stack'[i] = stack[i - 1]
      BY <1>1, <3>1, <3>2, Covered
    <3> QED
      BY <1>1, <1>2, <1>3, <2>1, <3>1, <3>3, DescendInto DEF s, X
  <2>2. CASE s \notin reachable \ visited
    <3>1. stack' = <<Later>> \o Tail(stack) /\ visited' = visited
      BY <2>2 DEF Descend
    <3> QED
      BY <1>1, <1>2, <1>3, <2>2, <3>1, DescendOver
  <2> QED
    BY <2>1, <2>2
<1>5. visited' \subseteq Blocks
  <2>1. reachable' \subseteq Blocks
    BY <1>1 DEF Inv, TypeOK
  <2> QED
    BY <1>4, <2>1 DEF Searched
<1>6. TypeOK'
  BY <1>1, <1>2, <1>4, <1>5 DEF Inv, TypeOK, SearchType
<1>7. Phases'
  BY <1>1, <1>2 DEF Inv, Phases
<1> QED
  BY <1>1, <1>4, <1>6, <1>7 DEF Inv, SearchInv, SweepInv, IdomsExact

LEMMA AscendInv == Inv /\ Ascend => Inv'
<1> SUFFICES ASSUME Inv, Ascend PROVE Inv'
  OBVIOUS
<1>1. /\ pc = "dfs" /\ stack # <<>> /\ NextSuccessor > Len(successors[Block]) /\ pc' = pc
      /\ rpo' = <<Block>> \o rpo /\ stack' = Tail(stack)
      /\ UNCHANGED <<cfg, builder>>
      /\ UNCHANGED <<reachable, visited, idom, at, changed, preds, fingers>>
  BY DEF Ascend, sweep, meeting, Ordered
<1>2. /\ CfgTypeOK' /\ Blocks' = Blocks /\ Reached' = Reached /\ Graph(successors)
      /\ successors' = successors
  BY <1>1, SameTypes DEF Inv
<1>3. Searched /\ SearchType
  BY <1>1, <1>2 DEF Inv, SearchInv, Phases, TypeOK, SearchType
<1>4. SearchType' /\ Searched'
  <2> DEFINE X == Blocks \X (Nat \ {0})
  <2>1. stack \in Seq(X) /\ rpo \in Seq(Blocks) /\ Block \in Blocks
    BY <1>1, <1>3, TopFacts DEF SearchType
  <2>2. /\ rpo' \in Seq(Blocks) /\ Len(rpo') = Len(rpo) + 1 /\ rpo'[1] = Block
        /\ \A i \in 1..Len(rpo) : rpo'[i + 1] = rpo[i]
    BY <1>1, <2>1, OnTop
  <2>3. /\ stack' \in Seq(X) /\ Len(stack') = Len(stack) - 1
        /\ \A i \in 1..(Len(stack) - 1) : stack'[i] = stack[i + 1]
    <3> HIDE DEF X
    <3> QED
      BY <1>1, <2>1, Popped
  <2> QED
    BY <1>1, <1>2, <1>3, <2>2, <2>3, AscendFrom
<1>5. TypeOK'
  BY <1>1, <1>2, <1>4 DEF Inv, TypeOK, SearchType
<1>6. Phases'
  BY <1>1, <1>2 DEF Inv, Phases
<1> QED
  BY <1>1, <1>4, <1>5, <1>6 DEF Inv, SearchInv, SweepInv, IdomsExact

LEMMA BeginSweepsInv == Inv /\ BeginSweeps => Inv'
<1> SUFFICES ASSUME Inv, BeginSweeps PROVE Inv'
  OBVIOUS
<1>1. /\ pc = "dfs" /\ stack = <<>> /\ pc' = "sweep"
      /\ idom' = [b \in reachable |-> IF b = Entry THEN Entry ELSE None]
      /\ at' = 1 /\ changed' = FALSE
      /\ UNCHANGED <<cfg, builder>>
      /\ UNCHANGED <<reachable, stack, visited, rpo, preds, fingers>>
  BY DEF BeginSweeps, search, meeting
<1>2. /\ CfgTypeOK' /\ Blocks' = Blocks /\ Reached' = Reached /\ Graph(successors)
      /\ successors' = successors
  BY <1>1, SameTypes DEF Inv
<1>3. Searched /\ SearchType
  BY <1>1, <1>2 DEF Inv, SearchInv, Phases, TypeOK, SearchType
<1>4. Swept' /\ Fixed'
  BY <1>1, <1>2, <1>3, SearchEnds, StepBeginSweeps
<1>5. TypeOK'
  <2>1. idom' \in [reachable' -> reachable' \cup {None}]
    BY <1>4 DEF Swept, Tree
  <2> QED
    BY <1>1, <1>2, <2>1 DEF Inv, TypeOK
<1>6. Phases'
  BY <1>1, <1>2 DEF Inv, Phases
<1>7. SweepInv'
  BY <1>1, <1>4 DEF SweepInv, Swept
<1> QED
  BY <1>1, <1>5, <1>6, <1>7 DEF Inv, SearchInv, IdomsExact

\* What the steps of a sweep leave as it is.
LEMMA SweepFrame ==
    ASSUME Inv, pc \in {"sweep", "meet"}, pc' \in {"sweep", "meet", "done"},
           UNCHANGED <<cfg, builder, search>>,
           idom' \in [reachable -> reachable \cup {None}], at' \in Nat, changed' \in BOOLEAN,
           preds' \subseteq Blocks, fingers' \in (Blocks \cup {None}) \X (Blocks \cup {None})
    PROVE  /\ TypeOK' /\ Phases' /\ SearchInv' /\ Sorted'
           /\ UNCHANGED <<successors, reachable, rpo>>
<1>1. /\ CfgTypeOK' /\ Blocks' = Blocks /\ Reached' = Reached /\ successors' = successors
  BY SameTypes DEF Inv
<1>2. UNCHANGED <<reachable, stack, visited, rpo>>
  BY DEF search
<1>3. TypeOK'
  BY <1>1, <1>2 DEF Inv, TypeOK
<1>4. Phases' /\ SearchInv'
  BY <1>1, <1>2 DEF Inv, Phases, SearchInv
<1>5. Sorted'
  BY <1>1, <1>2, SameOrder DEF Inv, SweepInv
<1> QED
  BY <1>1, <1>2, <1>3, <1>4, <1>5

LEMMA PassOverInv == Inv /\ PassOver => Inv'
<1> SUFFICES ASSUME Inv, PassOver PROVE Inv'
  OBVIOUS
<1>1. /\ pc = "sweep" /\ at <= Len(rpo) /\ (Turn = Entry \/ ProcessedPreds(Turn) = {})
      /\ at' = at + 1 /\ pc' = pc
      /\ UNCHANGED <<cfg, builder, search>> /\ UNCHANGED <<idom, changed, preds, fingers>>
  BY DEF PassOver, meeting, Turn
<1>2. Swept /\ (~changed => Fixed)
  BY <1>1 DEF Inv, SweepInv
<1>3. TypeOK' /\ Phases' /\ SearchInv' /\ Sorted' /\ UNCHANGED <<successors, reachable, rpo>>
  BY <1>1, SweepFrame DEF Inv, TypeOK
<1>4. Swept' /\ (Fixed => Fixed')
  BY <1>1, <1>2, <1>3, StepPassOver
<1>5. SweepInv'
  BY <1>1, <1>2, <1>3, <1>4 DEF SweepInv
<1> QED
  BY <1>1, <1>3, <1>5 DEF Inv, IdomsExact

LEMMA VisitInv == Inv /\ Visit => Inv'
<1> SUFFICES ASSUME Inv, Visit PROVE Inv'
  OBVIOUS
<1> DEFINE p == Min(ProcessedPreds(Turn))
<1>1. /\ pc = "sweep" /\ at <= Len(rpo) /\ Turn # Entry /\ ProcessedPreds(Turn) # {}
      /\ fingers' = <<p, p>> /\ preds' = ProcessedPreds(Turn) \ {p} /\ pc' = "meet"
      /\ UNCHANGED <<cfg, builder, search>> /\ UNCHANGED <<idom, at, changed>>
  BY DEF Visit, sweep, Turn
<1>2. Swept /\ (~changed => Fixed)
  BY <1>1 DEF Inv, SweepInv
<1>3. p \in ProcessedPreds(Turn) /\ ProcessedPreds(Turn) \subseteq reachable /\ reachable \subseteq Blocks
  <2>1. ProcessedPreds(Turn) \subseteq Nat /\ reachable \subseteq Blocks
    BY <1>1, <1>2, TurnFacts
  <2> QED
    BY <1>1, <2>1, MinFacts DEF ProcessedPreds
<1> HIDE DEF p
<1>4. preds' \subseteq Blocks /\ fingers' \in (Blocks \cup {None}) \X (Blocks \cup {None})
  BY <1>1, <1>3
<1>5. TypeOK' /\ Phases' /\ SearchInv' /\ Sorted' /\ UNCHANGED <<successors, reachable, rpo>>
  BY <1>1, <1>4, SweepFrame DEF Inv, TypeOK
<1>6. Met'
  BY <1>1, <1>2, <1>5, StepVisit DEF p
<1>7. Swept' /\ (~changed' => Fixed')
  <2>1. Tree' /\ \A b : Upwards(b)' = Upwards(b) /\ ProcessedPreds(b)' = ProcessedPreds(b)
    BY <1>1, <1>2, <1>5, SameTree DEF Swept
  <2> QED
    BY <1>1, <1>2, <1>5, <2>1 DEF Swept, Fixed, Entry
<1> QED
  BY <1>1, <1>5, <1>6, <1>7 DEF Inv, SweepInv, IdomsExact

\* A step that moves the fingers leaves what the sweep has done.
LEMMA MeetFrame ==
    ASSUME Inv, pc = "meet", pc' = pc, UNCHANGED <<cfg, builder, search>>,
           UNCHANGED <<idom, at, changed>>, Met', preds' \subseteq preds
    PROVE  Inv'
<1>1. Swept /\ (~changed => Fixed) /\ Met
  BY DEF Inv, SweepInv
<1>2. Blocks' = Blocks
  BY SameTypes DEF Inv
<1>3. preds' \subseteq Blocks /\ fingers' \in (Blocks \cup {None}) \X (Blocks \cup {None})
  BY <1>2 DEF Inv, TypeOK, Met
<1>4. TypeOK' /\ Phases' /\ SearchInv' /\ Sorted' /\ UNCHANGED <<successors, reachable, rpo>>
  BY <1>3, SweepFrame DEF Inv, TypeOK
<1>5. Swept' /\ (~changed' => Fixed')
  <2>1. Tree' /\ \A b : Upwards(b)' = Upwards(b) /\ ProcessedPreds(b)' = ProcessedPreds(b)
    BY <1>1, <1>4, SameTree DEF Swept
  <2> QED
    BY <1>1, <1>4, <2>1 DEF Swept, Fixed, Entry
<1> QED
  BY <1>4, <1>5 DEF Inv, SweepInv, IdomsExact

LEMMA IntersectInv == Inv /\ Intersect => Inv'
<1> SUFFICES ASSUME Inv, Intersect PROVE Inv'
  OBVIOUS
<1> DEFINE p == Min(preds)
<1>1. /\ pc = "meet" /\ fingers[1] = fingers[2] /\ preds # {}
      /\ fingers' = <<p, fingers[1]>> /\ preds' = preds \ {p} /\ pc' = pc
      /\ UNCHANGED <<cfg, builder, search>> /\ UNCHANGED <<idom, at, changed>>
  BY DEF Intersect, sweep
<1>2. Swept /\ Met
  BY <1>1 DEF Inv, SweepInv
<1>3. UNCHANGED <<successors, reachable, rpo>>
  BY <1>1 DEF cfg, search
<1> HIDE DEF p
<1>4. Met'
  BY <1>1, <1>2, <1>3, StepIntersect DEF p
<1> QED
  BY <1>1, <1>4, MeetFrame

LEMMA ClimbInv == Inv /\ Climb => Inv'
<1> SUFFICES ASSUME Inv, Climb PROVE Inv'
  OBVIOUS
<1>1. /\ pc = "meet" /\ pc' = pc
      /\ UNCHANGED <<cfg, builder, search>> /\ UNCHANGED <<idom, at, changed, preds>>
  BY DEF Climb, sweep
<1>2. PICK k \in {1, 2} : /\ Index(fingers[k]) > Index(fingers[3 - k])
                          /\ fingers' = [fingers EXCEPT ![k] = idom[@]]
  BY DEF Climb, Behind
<1>3. Swept /\ Met
  BY <1>1 DEF Inv, SweepInv
<1>4. UNCHANGED <<successors, reachable, rpo>>
  BY <1>1 DEF cfg, search
<1>5. Met'
  BY <1>1, <1>2, <1>3, <1>4, StepClimb
<1> QED
  BY <1>1, <1>5, MeetFrame

LEMMA SettleInv == Inv /\ Settle => Inv'
<1> SUFFICES ASSUME Inv, Settle PROVE Inv'
  OBVIOUS
<1>1. /\ pc = "meet" /\ fingers[1] = fingers[2] /\ preds = {}
      /\ idom' = [idom EXCEPT ![Turn] = fingers[1]] /\ changed' = (changed \/ idom' # idom)
      /\ at' = at + 1 /\ pc' = "sweep"
      /\ UNCHANGED <<cfg, builder, search>> /\ UNCHANGED <<preds, fingers>>
  BY DEF Settle, Turn
<1>2. Swept /\ Met /\ (~changed => Fixed)
  BY <1>1 DEF Inv, SweepInv
<1>3. UNCHANGED <<successors, reachable, rpo>>
  BY <1>1 DEF cfg, search
<1>4. Swept' /\ (~changed' => Fixed')
  BY <1>1, <1>2, <1>3, StepSettle
<1>5. idom' \in [reachable -> reachable \cup {None}]
  BY <1>3, <1>4 DEF Swept, Tree
<1>6. changed' \in BOOLEAN /\ at' \in Nat
  <2>1. at \in Nat /\ changed \in BOOLEAN
    BY DEF Inv, TypeOK
  <2>2. changed' \in BOOLEAN
    BY <1>1, Zenon
  <2> QED
    BY <1>1, <2>1, <2>2
<1>7. TypeOK' /\ Phases' /\ SearchInv' /\ Sorted'
  BY <1>1, <1>5, <1>6, SweepFrame DEF Inv, TypeOK
<1> QED
  BY <1>1, <1>4, <1>7 DEF Inv, SweepInv, IdomsExact

LEMMA EndSweepInv == Inv /\ EndSweep => Inv'
<1> SUFFICES ASSUME Inv, EndSweep PROVE Inv'
  OBVIOUS
<1>1. /\ pc = "sweep" /\ at > Len(rpo)
      /\ UNCHANGED <<cfg, builder, search>> /\ UNCHANGED <<preds, fingers>>
  BY DEF EndSweep, meeting
<1>2. Swept /\ (~changed => Fixed) /\ Sorted
  BY <1>1 DEF Inv, SweepInv
<1>3. UNCHANGED <<successors, reachable, rpo>>
  BY <1>1 DEF cfg, search
<1>4. CASE changed
  <2>1. at' = 1 /\ changed' = FALSE /\ pc' = pc /\ idom' = idom
    BY <1>4 DEF EndSweep
  <2>2. TypeOK' /\ Phases' /\ SearchInv' /\ Sorted'
    BY <1>1, <1>2, <2>1, SweepFrame DEF Inv, TypeOK, Swept, Tree
  <2>3. Tree'
    BY <1>2, <1>3, <2>1, SameTree DEF Swept
  <2>4. Swept' /\ Fixed'
    <3>1. Len(rpo) \in Nat
      BY <1>2, IndexFacts
    <3>2. at' \in 1..(Len(rpo') + 1) /\ 1..(at' - 1) = {}
      BY <1>3, <2>1, <3>1
    <3> QED
      BY <2>2, <2>3, <3>2 DEF Swept, Fixed
  <2> QED
    BY <1>1, <2>1, <2>2, <2>4 DEF Inv, SweepInv, IdomsExact
<1>5. CASE ~changed
  <2>1. pc' = "done" /\ idom' = [idom EXCEPT ![Entry] = None] /\ at' = at /\ changed' = changed
    BY <1>5 DEF EndSweep
  <2>2. idom' \in [reachable -> reachable \cup {None}]
    BY <1>2, <2>1 DEF Swept, Tree
  <2>3. TypeOK' /\ Phases' /\ SearchInv' /\ Sorted'
    BY <1>1, <2>1, <2>2, SweepFrame DEF Inv, TypeOK
  <2>4. IdomsExact'
    BY <1>1, <1>2, <1>3, <1>5, <2>1, StepFinish
  <2> QED
    BY <2>1, <2>3, <2>4 DEF Inv, SweepInv
<1> QED
  BY <1>4, <1>5

LEMMA StutterInv == Inv /\ UNCHANGED vars => Inv'
<1> SUFFICES ASSUME Inv, UNCHANGED vars PROVE Inv'
  OBVIOUS
<1>1. /\ UNCHANGED <<cfg, builder>>
      /\ UNCHANGED <<successors, pc, reachable, stack, visited, rpo>>
      /\ UNCHANGED <<idom, at, changed, preds, fingers>>
  BY DEF vars, cfg, search, sweep, meeting
<1>2. CfgTypeOK' /\ Blocks' = Blocks /\ Reached' = Reached
  BY <1>1, SameTypes DEF Inv
<1>3. TypeOK' /\ Phases'
  BY <1>1, <1>2 DEF Inv, TypeOK, Phases
<1>4. SearchInv'
  <2>1. Stacked' = Stacked /\ Ended' = Ended /\ Entry' = Entry
    BY <1>1 DEF Stacked, Ended, Entry
  <2>2. \A a, b : Edge(a, b)' <=> Edge(a, b)
    BY <1>1, SameGraph
  <2>3. Searched' <=> Searched
    BY <1>1, <1>2, <2>1, <2>2 DEF Searched
  <2> QED
    BY <1>1, <2>3 DEF Inv, SearchInv
<1>5. SweepInv'
  <2>1. Sorted' <=> Sorted
    BY <1>1, SameOrder
  <2>2. /\ Tree' <=> Tree
        /\ \A b : Upwards(b)' = Upwards(b)
        /\ \A b : ProcessedPreds(b)' = ProcessedPreds(b)
    BY <1>1, SameTree
  <2>3. (Swept' <=> Swept) /\ (Fixed' <=> Fixed)
    BY <1>1, <2>1, <2>2 DEF Swept, Fixed, Entry
  <2>4. Met' <=> Met
    <3>1. Turn' = Turn
      BY <1>1 DEF Turn
    <3>2. \A f : Finger(f)' <=> Finger(f)
      BY <1>1, <3>1, SameOrder DEF Finger
    <3>3. \A b : Index(b)' = Index(b)
      BY <1>1, SameOrder
    <3> QED
      BY <1>1, <1>2, <2>2, <3>1, <3>2, <3>3 DEF Met, Entry
  <2> QED
    BY <1>1, <2>1, <2>3, <2>4 DEF Inv, SweepInv
<1>6. IdomsExact'
  <2>1. /\ \A a : Avoiding(a)' = Avoiding(a)
        /\ \A b : StrictDominators(b)' = StrictDominators(b)
        /\ \A a, b : Dominates(a, b)' <=> Dominates(a, b)
    BY <1>1, SameGraph
  <2> QED
    BY <1>1, <2>1 DEF Inv, IdomsExact, Entry
<1> QED
  BY <1>3, <1>4, <1>5, <1>6 DEF Inv

LEMMA NextInv == Inv /\ [Next]_vars => Inv'
BY ReadNextInv, FinishInv, ReachInv, DescendInv, AscendInv, BeginSweepsInv, PassOverInv,
   VisitInv, IntersectInv, ClimbInv, SettleInv, EndSweepInv, StutterInv DEF Next, Search, Sweep

LEMMA Invariance == Spec => []Inv
BY InitInv, NextInv, PTL DEF Spec

\* Every state has its type: the graph is one, whatever branches a body has
\* and wherever MAX_BLOCKS cuts it off, and the search and the sweeps stay
\* within its reachable blocks (buildCfg, reachableBlocks, computeDominators).
THEOREM TypeCorrect == Spec => []TypeOK
<1>1. Inv => TypeOK
  BY DEF Inv
<1> QED
  BY Invariance, <1>1, PTL

\* computeDominators is right for every function body: when the sweeps end,
\* each reachable block but the entry has a strict dominator that all its
\* other strict dominators dominate, irreducible and unfinished graphs
\* included.
THEOREM ImmediateDominators == Spec => []IdomsExact
<1>1. Inv => IdomsExact
  BY DEF Inv
<1> QED
  BY Invariance, <1>1, PTL
-----------------------------------------------------------------------------
(* dominance as an order                                                   *)

LEMMA DominatesSelf ==
    ASSUME Graph(successors), NEW b \in Reached
    PROVE  Dominates(b, b)
BY AvoidingClosed DEF Dominates, Reached

LEMMA DominatesThrough ==
    ASSUME Graph(successors), NEW a, NEW b, NEW c, Dominates(a, b), Dominates(b, c)
    PROVE  Dominates(a, c)
<1> DEFINE S == Avoiding(a) \cap Avoiding(b)
<1>1. b \notin Avoiding(a) /\ c \notin Avoiding(b) /\ c \in Reached
  BY DEF Dominates, Reached
<1>2. a # Entry => Entry \in S
  <2>1. ASSUME a # Entry PROVE Entry \in Avoiding(a) /\ b # Entry
    BY <1>1, <2>1, AvoidingClosed
  <2> QED
    BY <2>1, AvoidingClosed
<1>3. ASSUME NEW x \in S, NEW y \in Blocks, Edge(x, y), y # a PROVE y \in S
  <2>1. y \in Avoiding(a) /\ y # b
    BY <1>1, <1>3, AvoidingClosed
  <2> QED
    BY <1>3, <2>1, AvoidingClosed
<1>4. Avoiding(a) \subseteq S
  <2> HIDE DEF S
  <2> QED
    BY <1>2, <1>3, AvoidingLeast
<1> QED
  BY <1>1, <1>4 DEF Dominates, Reached

LEMMA DominatesOneWay ==
    ASSUME Sorted, NEW a \in reachable, NEW b \in reachable, Dominates(a, b), Dominates(b, a)
    PROVE  a = b
<1>1. Index(a) <= Index(b) /\ Index(b) <= Index(a)
  BY DominatorsFirst
<1>2. Index(a) \in Nat /\ Index(b) \in Nat /\ rpo[Index(a)] = a /\ rpo[Index(b)] = b
  BY IndexFacts
<1>3. Index(a) = Index(b)
  BY <1>1, <1>2
<1> QED
  BY <1>2, <1>3

\* What the sweeps leave, once they have ended.
Final == /\ Sorted /\ idom \in [reachable -> reachable \cup {None}] /\ idom[Entry] = None
         /\ \A b \in Others : /\ idom[b] \in StrictDominators(b)
                              /\ \A a \in StrictDominators(b) : Dominates(a, idom[b])

\* The immediate dominator stands between a block and its other dominators.
LEMMA Up ==
    ASSUME Final
    PROVE  /\ Graph(successors) /\ reachable = Reached /\ reachable \subseteq Blocks
           /\ None \notin reachable /\ Entry \in reachable
           /\ \A b \in reachable : b = Entry \/ b \in Others
           /\ \A b \in Others :
                 /\ idom[b] \in reachable /\ idom[b] # b /\ idom[b] # None /\ b \in reachable
                 /\ Dominates(idom[b], b) /\ Index(idom[b]) < Index(b)
                 /\ \A a \in reachable : Dominates(a, b) <=> a = b \/ Dominates(a, idom[b])
<1>1. Graph(successors) /\ reachable = Reached /\ Sorted
  BY DEF Final, Sorted
<1>2. reachable \subseteq Blocks /\ None \notin reachable /\ Entry \in reachable
  BY <1>1, ReachedFacts, BlocksFacts
<1>3. ASSUME NEW b \in Others
      PROVE  /\ idom[b] \in reachable /\ idom[b] # b /\ idom[b] # None /\ b \in reachable
             /\ Dominates(idom[b], b) /\ Index(idom[b]) < Index(b)
             /\ \A a \in reachable : Dominates(a, b) <=> a = b \/ Dominates(a, idom[b])
  <2>1. /\ b \in reachable /\ idom[b] \in reachable /\ idom[b] # b /\ Dominates(idom[b], b)
        /\ \A a \in reachable : Dominates(a, b) /\ a # b => Dominates(a, idom[b])
    BY <1>1 DEF Final, StrictDominators, Reached, Others
  <2>2. Index(idom[b]) < Index(b)
    <3>1. Index(idom[b]) <= Index(b)
      BY <1>1, <2>1, DominatorsFirst
    <3>2. Index(idom[b]) \in Nat /\ Index(b) \in Nat /\ Index(idom[b]) # Index(b)
      <4>1. rpo[Index(idom[b])] = idom[b] /\ rpo[Index(b)] = b
            /\ Index(idom[b]) \in Nat /\ Index(b) \in Nat
        BY <1>1, <2>1, IndexFacts
      <4> QED
        BY <2>1, <4>1
    <3> QED
      BY <3>1, <3>2
  <2>3. ASSUME NEW a \in reachable, Dominates(a, idom[b]) PROVE Dominates(a, b)
    BY <1>1, <2>1, <2>3, DominatesThrough
  <2>4. Dominates(b, b)
    BY <1>1, <2>1, DominatesSelf
  <2> QED
    BY <1>2, <2>1, <2>2, <2>3, <2>4
<1>4. \A b \in reachable : b = Entry \/ b \in Others
  BY DEF Others
<1> QED
  BY <1>1, <1>2, <1>3, <1>4

\* Two dominators of a block: one dominates the other.
LEMMA DominatorsInLine ==
    ASSUME Final, NEW a \in reachable, NEW b \in reachable, NEW c \in reachable,
           Dominates(a, c), Dominates(b, c)
    PROVE  Dominates(a, b) \/ Dominates(b, a)
<1> DEFINE Bad == {i \in 1..Len(rpo) : Dominates(a, rpo[i]) /\ Dominates(b, rpo[i])}
<1>1. Sorted
  BY DEF Final
<1>2. Bad \subseteq Nat /\ Index(c) \in Bad
  BY <1>1, IndexFacts
<1>3. PICK i \in Bad : \A j \in Bad : i <= j
  <2> HIDE DEF Bad
  <2> QED
    BY <1>2, Least
<1>4. /\ i \in 1..Len(rpo) /\ rpo[i] \in reachable /\ Index(rpo[i]) = i
      /\ Dominates(a, rpo[i]) /\ Dominates(b, rpo[i])
  BY <1>1, <1>3, IndexFacts
<1>5. CASE rpo[i] = a \/ rpo[i] = b
  BY <1>4, <1>5
<1>6. CASE rpo[i] # a /\ rpo[i] # b
  <2>1. rpo[i] \in Others
    <3>1. rpo[i] # Entry
      BY <1>4, <1>6, Up, EntryUndominated
    <3> QED
      BY <1>4, <3>1 DEF Others
  <2>2. /\ Dominates(a, idom[rpo[i]]) /\ Dominates(b, idom[rpo[i]])
        /\ idom[rpo[i]] \in reachable /\ Index(idom[rpo[i]]) < i
    BY <1>4, <1>6, <2>1, Up
  <2>3. Index(idom[rpo[i]]) \in 1..Len(rpo) /\ rpo[Index(idom[rpo[i]])] = idom[rpo[i]]
    BY <1>1, <2>2, IndexFacts
  <2>4. Index(idom[rpo[i]]) \in Bad
    BY <2>2, <2>3
  <2>5. i \in Nat /\ Index(idom[rpo[i]]) \in Nat /\ i <= Index(idom[rpo[i]])
    BY <1>3, <1>2, <2>4
  <2> QED
    BY <2>2, <2>5
<1> QED
  BY <1>5, <1>6

\* Below every block that is dominated strictly, there is a child on the way.
LEMMA Toward ==
    ASSUME Final, NEW b \in reachable, NEW c \in reachable, Dominates(b, c), b # c
    PROVE  \E x \in Children(b) : Dominates(x, c)
<1> DEFINE Between == {i \in 1..Len(rpo) : /\ Dominates(b, rpo[i]) /\ rpo[i] # b
                                           /\ Dominates(rpo[i], c)}
<1>1. Sorted
  BY DEF Final
<1>2. Between \subseteq Nat /\ Index(c) \in Between
  <2>1. Index(c) \in 1..Len(rpo) /\ rpo[Index(c)] = c /\ Dominates(c, c)
    BY <1>1, IndexFacts, Up, DominatesSelf
  <2> QED
    BY <2>1
<1>3. PICK i \in Between : \A j \in Between : i <= j
  <2> HIDE DEF Between
  <2> QED
    BY <1>2, Least
<1> DEFINE x == rpo[i]
<1>4. /\ i \in 1..Len(rpo) /\ x \in reachable /\ Index(x) = i
      /\ Dominates(b, x) /\ x # b /\ Dominates(x, c)
  BY <1>1, <1>3, IndexFacts
<1>5. x \in Others
  <2>1. x # Entry
    BY <1>4, Up, EntryUndominated
  <2> QED
    BY <1>4, <2>1 DEF Others
<1> HIDE DEF x
<1>6. /\ idom[x] \in reachable /\ Dominates(b, idom[x]) /\ Index(idom[x]) < i /\ Dominates(idom[x], x)
  BY <1>4, <1>5, Up
<1>7. Dominates(idom[x], c)
  BY <1>4, <1>6, Up, DominatesThrough
<1>8. idom[x] = b
  <2>1. Index(idom[x]) \in 1..Len(rpo) /\ rpo[Index(idom[x])] = idom[x]
    BY <1>1, <1>6, IndexFacts
  <2>2. ASSUME idom[x] # b PROVE FALSE
    <3>1. Index(idom[x]) \in Between
      BY <1>6, <1>7, <2>1, <2>2
    <3>2. i \in Nat /\ Index(idom[x]) \in Nat /\ i <= Index(idom[x])
      BY <1>2, <1>3, <3>1
    <3> QED
      BY <1>6, <3>2
  <2> QED
    BY <2>2
<1>9. x \in Children(b)
  BY <1>4, <1>8 DEF Children
<1> QED
  BY <1>4, <1>9
-----------------------------------------------------------------------------
(* what is read off the tree                                               *)

Doms(b) == {a \in reachable : Dominates(a, b)}

\* The walk to the root meets exactly the dominators.
LEMMA AncestorsDominate ==
    ASSUME Final, NEW b \in reachable
    PROVE  Ancestors(b) = Doms(b)
<1> DEFINE n == Len(rpo)
           A[k \in 0..n] == IF k = 0 THEN {b} ELSE A[k - 1] \cup ({idom[a] : a \in A[k - 1]} \ {None})
           step == [x \in (1..n) \X SUBSET reachable |-> x[2] \cup ({idom[a] : a \in x[2]} \ {None})]
<1>1. n \in Nat /\ Sorted /\ idom \in [reachable -> reachable \cup {None}]
  BY IndexFacts DEF Final
<1>2. \A T \in SUBSET reachable : T \cup ({idom[a] : a \in T} \ {None}) \in SUBSET reachable
  BY <1>1
<1> HIDE DEF n
<1>3. step \in Steps(n, SUBSET reachable)
  BY <1>2 DEF Steps
<1>4. PICK f : Recurs(f, n, SUBSET reachable, {b}, step)
  <2> HIDE DEF step, A
  <2> QED
    BY <1>1, <1>3, Recursive
<1>5. \A k \in 1..n : f[k] = f[k - 1] \cup ({idom[a] : a \in f[k - 1]} \ {None})
  <2> SUFFICES ASSUME NEW k \in 1..n
               PROVE  f[k] = f[k - 1] \cup ({idom[a] : a \in f[k - 1]} \ {None})
    OBVIOUS
  <2>1. k - 1 \in 0..n
    BY <1>1
  <2>2. f[k - 1] \in SUBSET reachable /\ f[k] = step[<<k, f[k - 1]>>]
    <3> HIDE DEF step, A
    <3> QED
      BY <1>4, <2>1 DEF Recurs
  <2> HIDE DEF A
  <2> QED
    BY <2>2
<1>6. A = [k \in 0..n |->
               IF k = 0 THEN {b} ELSE A[k - 1] \cup ({idom[a] : a \in A[k - 1]} \ {None})]
  <2>1. f = [k \in 0..n |->
               IF k = 0 THEN {b} ELSE f[k - 1] \cup ({idom[a] : a \in f[k - 1]} \ {None})]
    <3> HIDE DEF step, A
    <3> QED
      BY <1>1, <1>4, <1>5 DEF Recurs
  <2> HIDE DEF step
  <2> QED
    BY <2>1
<1>7. Ancestors(b) = A[n]
  BY DEF Ancestors, A, n
<1> HIDE DEF A, step
<1>8. /\ A[0] = {b}
      /\ \A k \in 0..(n - 1) : A[k + 1] = A[k] \cup ({idom[a] : a \in A[k]} \ {None})
  <2>1. 0 \in 0..n /\ \A k \in 0..(n - 1) : k + 1 \in 0..n /\ k + 1 # 0 /\ (k + 1) - 1 = k
    BY <1>1
  <2> QED
    BY <1>6, <2>1
<1>9. /\ b \in Doms(b) /\ Doms(b) \subseteq reachable
      /\ \A a \in Doms(b) : idom[a] # None => idom[a] \in Doms(b)
  <2>1. b \in Doms(b)
    BY Up, DominatesSelf DEF Doms
  <2>2. ASSUME NEW a \in Doms(b), idom[a] # None PROVE idom[a] \in Doms(b)
    <3>1. a \in reachable /\ Dominates(a, b)
      BY DEF Doms
    <3>2. a \in Others
      BY <2>2, <3>1, Up DEF Final
    <3>3. idom[a] \in reachable /\ Dominates(idom[a], a)
      BY <3>2, Up
    <3> QED
      BY <3>1, <3>3, Up, DominatesThrough DEF Doms
  <2> QED
    BY <2>1, <2>2 DEF Doms
<1>10. \A k \in 0..n : A[k] \subseteq Doms(b)
  <2> DEFINE T == {k \in 0..n : A[k] \subseteq Doms(b)}
  <2>1. 0 \in T
    BY <1>1, <1>8, <1>9
  <2>2. ASSUME NEW k \in 0..(n - 1), k \in T PROVE k + 1 \in T
    <3>1. k + 1 \in 0..n
      BY <1>1
    <3> QED
      BY <1>8, <1>9, <2>2, <3>1
  <2> HIDE DEF T
  <2>3. 0..n \subseteq T
    BY <1>1, <2>1, <2>2, Induct
  <2> QED
    BY <2>3 DEF T
<1>11. ASSUME NEW a \in Doms(b) PROVE a \in A[n]
  <2> DEFINE Near(k) == a \in A[k] \/ \E x \in A[k] : Dominates(a, x) /\ Index(x) <= n - k
             T == {k \in 0..n : Near(k)}
  <2>1. 0 \in T
    <3>1. Index(b) \in 1..n /\ Dominates(a, b)
      BY <1>1, IndexFacts DEF Doms, n
    <3> QED
      BY <1>1, <1>8, <3>1
  <2>2. ASSUME NEW k \in 0..(n - 1), k \in T PROVE k + 1 \in T
    <3>1. k + 1 \in 0..n /\ k \in 0..n
      BY <1>1
    <3>2. CASE a \in A[k]
      BY <1>8, <3>1, <3>2
    <3>3. CASE a \notin A[k]
      <4>1. PICK x \in A[k] : Dominates(a, x) /\ Index(x) <= n - k
        BY <2>2, <3>3
      <4>2. x \in reachable /\ a \in reachable /\ x # a
        BY <1>9, <1>10, <3>1, <3>3, <4>1 DEF Doms
      <4>3. x \in Others
        BY <4>1, <4>2, Up, EntryUndominated
      <4>4. /\ idom[x] # None /\ idom[x] \in reachable /\ Dominates(a, idom[x])
            /\ Index(idom[x]) < Index(x)
        BY <4>1, <4>2, <4>3, Up
      <4>5. Index(x) \in Nat /\ Index(idom[x]) \in Nat
        BY <1>1, <4>2, <4>4, IndexFacts
      <4>6. Index(idom[x]) <= n - (k + 1)
        BY <1>1, <4>1, <4>4, <4>5
      <4>7. idom[x] \in A[k + 1]
        BY <1>8, <4>1, <4>4
      <4> QED
        BY <3>1, <4>4, <4>6, <4>7
    <3> QED
      BY <3>2, <3>3
  <2>3. n \in T
    <3> HIDE DEF T
    <3>1. 0..n \subseteq T
      BY <1>1, <2>1, <2>2, Induct
    <3> QED
      BY <1>1, <3>1
  <2>4. ASSUME NEW x \in A[n] PROVE ~(Index(x) <= n - n)
    <3>1. x \in reachable
      BY <1>1, <1>9, <1>10
    <3> QED
      BY <1>1, <3>1, IndexFacts
  <2> QED
    BY <2>3, <2>4
<1>12. A[n] \subseteq Doms(b)
  BY <1>1, <1>10
<1> QED
  BY <1>7, <1>11, <1>12

\* A block has one strict dominator more than its immediate dominator.
LEMMA CountDominators ==
    ASSUME Final
    PROVE  /\ \A b \in reachable : /\ IsFiniteSet(StrictDominators(b))
                                   /\ Cardinality(StrictDominators(b)) \in 0..(Index(b) - 1)
                                   /\ Cardinality(StrictDominators(b)) \in 0..Len(rpo)
           /\ Cardinality(StrictDominators(Entry)) = 0
           /\ \A b \in Others : Cardinality(StrictDominators(b))
                                    = Cardinality(StrictDominators(idom[b])) + 1
<1>1. Sorted /\ Len(rpo) \in Nat
  BY IndexFacts DEF Final
<1>2. ASSUME NEW b \in reachable
      PROVE  /\ IsFiniteSet(StrictDominators(b)) /\ Cardinality(StrictDominators(b)) \in Nat
             /\ \A a : a \in StrictDominators(b) <=> a \in reachable /\ a # b /\ Dominates(a, b)
  <2>1. \A a : a \in StrictDominators(b) <=> a \in reachable /\ a # b /\ Dominates(a, b)
    BY Up DEF StrictDominators, Reached
  <2>2. StrictDominators(b) \subseteq Blocks /\ IsFiniteSet(Blocks)
    BY <2>1, Up, BlocksFacts
  <2> QED
    BY <2>1, <2>2, FS_Subset, FS_CardinalityType
<1>3. Cardinality(StrictDominators(Entry)) = 0
  <2>1. StrictDominators(Entry) = {}
    BY Up, EntryUndominated DEF StrictDominators
  <2> QED
    BY <2>1, FS_EmptySet
<1>4. ASSUME NEW b \in Others
      PROVE  Cardinality(StrictDominators(b)) = Cardinality(StrictDominators(idom[b])) + 1
  <2>1. /\ b \in reachable /\ idom[b] \in reachable /\ idom[b] # b /\ Dominates(idom[b], b)
        /\ \A a \in reachable : Dominates(a, b) <=> a = b \/ Dominates(a, idom[b])
    BY Up
  <2>2. ~Dominates(b, idom[b])
    BY <1>1, <2>1, DominatesOneWay
  <2>3. Dominates(idom[b], idom[b])
    BY <2>1, Up, DominatesSelf
  <2>4. StrictDominators(b) = StrictDominators(idom[b]) \cup {idom[b]}
    <3>1. \A a : a \in StrictDominators(b) <=> a \in StrictDominators(idom[b]) \/ a = idom[b]
      <4> TAKE a
      <4>1. a \in StrictDominators(b) <=> a \in reachable /\ a # b /\ Dominates(a, b)
        BY <1>2, <2>1
      <4>2. a \in StrictDominators(idom[b]) <=> a \in reachable /\ a # idom[b] /\ Dominates(a, idom[b])
        BY <1>2, <2>1
      <4> QED
        BY <2>1, <2>2, <2>3, <4>1, <4>2
    <3> QED
      BY <3>1
  <2>5. idom[b] \notin StrictDominators(idom[b])
    BY DEF StrictDominators
  <2> QED
    BY <1>2, <2>1, <2>4, <2>5, FS_AddElement
<1>5. \A b \in reachable : Cardinality(StrictDominators(b)) \in 0..(Index(b) - 1)
  <2> DEFINE Bad == {i \in 1..Len(rpo) : ~(Cardinality(StrictDominators(rpo[i])) <= i - 1)}
  <2>1. SUFFICES ASSUME Bad # {} PROVE FALSE
    <3>1. ASSUME NEW b \in reachable PROVE Cardinality(StrictDominators(b)) \in 0..(Index(b) - 1)
      <4>1. Index(b) \in 1..Len(rpo) /\ rpo[Index(b)] = b
        BY <1>1, IndexFacts
      <4>2. Cardinality(StrictDominators(b)) <= Index(b) - 1
        BY <2>1, <4>1
      <4> QED
        BY <1>2, <4>1, <4>2
    <3> QED
      BY <3>1
  <2>2. PICK i \in Bad : \A j \in Bad : i <= j
    <3>1. Bad \subseteq Nat
      OBVIOUS
    <3> HIDE DEF Bad
    <3> QED
      BY <2>1, <3>1, Least
  <2>3. i \in 1..Len(rpo) /\ rpo[i] \in reachable /\ Index(rpo[i]) = i
    BY <1>1, <2>2, IndexFacts
  <2>4. CASE rpo[i] = Entry
    <3>1. i = 1
      BY <1>1, <2>3, <2>4, IndexFacts
    <3> QED
      BY <1>3, <2>2, <2>4, <3>1
  <2>5. CASE rpo[i] # Entry
    <3>1. rpo[i] \in Others
      BY <2>3, <2>5 DEF Others
    <3> DEFINE a == idom[rpo[i]]
    <3>2. a \in reachable /\ Index(a) < i
      BY <2>3, <3>1, Up
    <3>3. Cardinality(StrictDominators(rpo[i])) = Cardinality(StrictDominators(a)) + 1
      BY <1>4, <3>1
    <3> HIDE DEF a
    <3>4. Index(a) \in 1..Len(rpo) /\ rpo[Index(a)] = a
      BY <1>1, <3>2, IndexFacts
    <3>5. Index(a) \notin Bad
      <4>1. i \in Nat /\ Index(a) \in Nat
        BY <2>3, <3>4
      <4> HIDE DEF Bad
      <4> QED
        BY <2>2, <3>2, <4>1
    <3>6. Cardinality(StrictDominators(a)) <= Index(a) - 1
      BY <3>4, <3>5
    <3>7. Cardinality(StrictDominators(a)) \in Nat /\ Index(a) \in Nat /\ i \in Nat
      BY <1>2, <2>3, <3>2, <3>4
    <3>8. Cardinality(StrictDominators(rpo[i])) <= i - 1
      BY <3>2, <3>3, <3>6, <3>7
    <3> QED
      BY <2>2, <3>8
  <2> QED
    BY <2>4, <2>5
<1>6. \A b \in reachable : Cardinality(StrictDominators(b)) \in 0..Len(rpo)
  <2> TAKE b \in reachable
  <2>1. Index(b) \in 1..Len(rpo)
    BY <1>1, IndexFacts
  <2> QED
    BY <1>1, <1>5, <2>1
<1> QED
  BY <1>2, <1>3, <1>4, <1>5, <1>6
-----------------------------------------------------------------------------
(* depths                                                                  *)

\* The strict dominators, counted.
Dominators(b) == Cardinality(StrictDominators(b))

\* The levels of the tree are the blocks with as many strict dominators.
LEMMA Levels ==
    ASSUME Final
    PROVE  \A k \in 0..Len(rpo) : Level[k] = {b \in reachable : Dominators(b) = k}
<1> DEFINE n == Len(rpo)
           L == SUBSET reachable
           step == [x \in (1..n) \X L |-> UNION {Children(a) : a \in x[2]}]
<1>1. n \in Nat /\ Entry \in reachable
  BY Up, IndexFacts DEF Final
<1> HIDE DEF n
<1>2. step \in Steps(n, L)
  BY DEF Steps, Children
<1>3. PICK f : Recurs(f, n, L, {Entry}, step)
  <2>1. {Entry} \in L
    BY <1>1
  <2> HIDE DEF step, L
  <2> QED
    BY <1>1, <1>2, <2>1, Recursive
<1>4. \A k \in 1..n : f[k] = UNION {Children(a) : a \in f[k - 1]}
  <2> SUFFICES ASSUME NEW k \in 1..n PROVE f[k] = UNION {Children(a) : a \in f[k - 1]}
    OBVIOUS
  <2>1. k - 1 \in 0..n
    BY <1>1
  <2>2. f[k - 1] \in L /\ f[k] = step[<<k, f[k - 1]>>]
    <3> HIDE DEF step, L
    <3> QED
      BY <1>3, <2>1 DEF Recurs
  <2> QED
    BY <2>2
<1>5. f = [k \in 0..n |-> IF k = 0 THEN {Entry} ELSE UNION {Children(a) : a \in f[k - 1]}]
  <2>1. f \in [0..n -> L] /\ f[0] = {Entry}
    BY <1>3 DEF Recurs
  <2> HIDE DEF step, L
  <2> QED
    BY <1>1, <1>4, <2>1
<1>6. Level = [k \in 0..n |-> IF k = 0 THEN {Entry} ELSE UNION {Children(a) : a \in Level[k - 1]}]
  <2> HIDE DEF step
  <2> QED
    BY <1>5 DEF Level, n
<1>7. /\ Level[0] = {Entry}
      /\ \A k \in 0..(n - 1) : Level[k + 1] = UNION {Children(a) : a \in Level[k]}
  <2>1. 0 \in 0..n /\ \A k \in 0..(n - 1) : k + 1 \in 0..n /\ k + 1 # 0 /\ (k + 1) - 1 = k
    BY <1>1
  <2> QED
    BY <1>6, <2>1
<1>8. /\ \A b \in reachable : Dominators(b) \in Nat
      /\ Dominators(Entry) = 0
      /\ \A b \in Others : Dominators(b) = Dominators(idom[b]) + 1
  BY CountDominators DEF Dominators
<1> DEFINE Exact(k) == Level[k] = {b \in reachable : Dominators(b) = k}
           T == {k \in 0..n : Exact(k)}
<1>9. 0 \in T
  <2>1. \A b \in reachable : Dominators(b) = 0 => b = Entry
    <3> TAKE b \in reachable
    <3>1. CASE b \in Others
      <4>1. idom[b] \in reachable
        BY <3>1, Up
      <4> QED
        BY <1>8, <3>1, <4>1
    <3> QED
      BY <3>1, Up
  <2> QED
    BY <1>1, <1>7, <1>8, <2>1
<1>10. ASSUME NEW k \in 0..(n - 1), k \in T PROVE k + 1 \in T
  <2>1. k + 1 \in 0..n /\ Level[k + 1] = UNION {Children(a) : a \in Level[k]}
    BY <1>1, <1>7
  <2>2. ASSUME NEW b \in Level[k + 1] PROVE b \in reachable /\ Dominators(b) = k + 1
    <3>1. PICK a \in Level[k] : b \in Children(a)
      BY <2>1, <2>2
    <3>2. a \in reachable /\ Dominators(a) = k /\ b \in reachable /\ idom[b] = a
      BY <1>10, <3>1 DEF Children
    <3>3. b \in Others
      BY <3>2, Up DEF Final
    <3> QED
      BY <1>8, <3>2, <3>3
  <2>3. ASSUME NEW b \in reachable, Dominators(b) = k + 1 PROVE b \in Level[k + 1]
    <3>1. b \in Others
      BY <1>8, <2>3, Up
    <3>2. idom[b] \in reachable /\ Dominators(idom[b]) = k
      BY <1>8, <2>3, <3>1, Up
    <3>3. idom[b] \in Level[k] /\ b \in Children(idom[b])
      BY <1>10, <3>2 DEF Children
    <3> QED
      BY <2>1, <3>3
  <2> QED
    BY <2>1, <2>2, <2>3
<1> HIDE DEF T
<1>11. 0..n \subseteq T
  BY <1>1, <1>9, <1>10, Induct
<1> QED
  BY <1>11 DEF T, n

LEMMA Depths ==
    ASSUME Final, NEW b \in reachable
    PROVE  Depth(b) = Cardinality(StrictDominators(b))
<1>1. Dominators(b) \in 0..Len(rpo)
  BY CountDominators DEF Dominators
<1>2. \A k \in 0..Len(rpo) : b \in Level[k] <=> k = Dominators(b)
  BY Levels
<1> QED
  BY <1>1, <1>2 DEF Depth, Dominators
-----------------------------------------------------------------------------
(* subtree sizes                                                           *)

\* What a block dominates, and the part of it that hangs on the children
\* among the last k blocks of the order.
Dominated(b) == {c \in reachable : Dominates(b, c)}
Part(b, k) == {c \in reachable : \E x \in Children(b) : Index(x) > Len(rpo) - k /\ Dominates(x, c)}

\* The size of a block after k additions.
PartialSize(b, k) == IF Index(b) > Len(rpo) - k THEN Cardinality(Dominated(b))
                                                ELSE Cardinality(Part(b, k))

LEMMA PartFacts ==
    ASSUME Final, NEW b \in reachable, NEW k
    PROVE  /\ IsFiniteSet(Part(b, k)) /\ Cardinality(Part(b, k)) \in Nat
           /\ IsFiniteSet(Dominated(b)) /\ Cardinality(Dominated(b)) \in Nat
           /\ PartialSize(b, k) \in Nat
<1>1. Part(b, k) \subseteq Blocks /\ Dominated(b) \subseteq Blocks /\ IsFiniteSet(Blocks)
  BY Up, BlocksFacts DEF Part, Dominated
<1> QED
  BY <1>1, FS_Subset, FS_CardinalityType DEF PartialSize

LEMMA ChildFacts ==
    ASSUME Final, NEW b \in reachable, NEW x \in Children(b)
    PROVE  /\ x \in Others /\ x \in reachable /\ idom[x] = b /\ x # b
           /\ Dominates(b, x) /\ Index(b) < Index(x)
<1>1. x \in reachable /\ idom[x] = b
  BY DEF Children
<1>2. x \in Others
  BY <1>1, Up DEF Final
<1> QED
  BY <1>1, <1>2, Up

\* The blocks that two children dominate are different ones.
LEMMA ChildrenApart ==
    ASSUME Final, NEW b \in reachable, NEW x \in Children(b), NEW y \in Children(b),
           NEW c \in reachable, Dominates(x, c), Dominates(y, c)
    PROVE  x = y
<1>1. /\ x \in Others /\ x \in reachable /\ idom[x] = b /\ x # b /\ Dominates(b, x)
      /\ y \in Others /\ y \in reachable /\ idom[y] = b /\ y # b /\ Dominates(b, y)
  BY ChildFacts
<1>2. Dominates(x, y) \/ Dominates(y, x)
  BY <1>1, DominatorsInLine
<1>3. ASSUME Dominates(x, y), x # y PROVE FALSE
  <2>1. Dominates(x, b)
    BY <1>1, <1>3, Up
  <2> QED
    BY <1>1, <2>1, DominatesOneWay DEF Final
<1>4. ASSUME Dominates(y, x), x # y PROVE FALSE
  <2>1. Dominates(y, b)
    BY <1>1, <1>4, Up
  <2> QED
    BY <1>1, <2>1, DominatesOneWay DEF Final
<1> QED
  BY <1>2, <1>3, <1>4

\* Once all its children are added up, a block misses only itself.
LEMMA PartComplete ==
    ASSUME Final, NEW k \in 0..(Len(rpo) - 1), NEW b \in reachable, Index(b) = Len(rpo) - k
    PROVE  Cardinality(Part(b, k)) + 1 = Cardinality(Dominated(b))
<1>1. Dominates(b, b)
  BY Up, DominatesSelf
<1>2. b \notin Part(b, k)
  <2>1. SUFFICES ASSUME NEW x \in Children(b), Dominates(x, b) PROVE FALSE
    BY DEF Part
  <2>2. x \in reachable /\ x # b /\ Dominates(b, x)
    BY ChildFacts
  <2> QED
    BY <2>1, <2>2, DominatesOneWay DEF Final
<1>3. Dominated(b) = Part(b, k) \cup {b}
  <2>1. ASSUME NEW c \in Part(b, k) PROVE c \in Dominated(b)
    <3>1. PICK x \in Children(b) : Dominates(x, c)
      BY <2>1 DEF Part
    <3>2. Dominates(b, x) /\ c \in reachable
      BY <2>1, ChildFacts DEF Part
    <3> QED
      BY <3>1, <3>2, Up, DominatesThrough DEF Dominated
  <2>2. ASSUME NEW c \in Dominated(b), c # b PROVE c \in Part(b, k)
    <3>1. c \in reachable /\ Dominates(b, c)
      BY <2>2 DEF Dominated
    <3>2. PICK x \in Children(b) : Dominates(x, c)
      BY <2>2, <3>1, Toward
    <3>3. Index(x) > Len(rpo) - k
      <4>1. Index(b) < Index(x)
        BY ChildFacts
      <4> QED
        BY <4>1
    <3> QED
      BY <3>1, <3>2, <3>3 DEF Part
  <2> QED
    BY <1>1, <2>1, <2>2 DEF Dominated
<1> QED
  BY <1>2, <1>3, PartFacts, FS_AddElement

\* The addition of a block gives its parent one more complete child.
LEMMA PartGrows ==
    ASSUME Final, NEW k \in 0..(Len(rpo) - 1), NEW b \in Others, Index(b) = Len(rpo) - k
    PROVE  Cardinality(Part(idom[b], k + 1))
               = Cardinality(Part(idom[b], k)) + Cardinality(Dominated(b))
<1> DEFINE a == idom[b]
<1>1. a \in reachable /\ b \in reachable /\ b \in Children(a) /\ Sorted /\ Len(rpo) \in Nat
  BY Up, IndexFacts DEF Children, Final
<1>2. \A x \in Children(a) : Index(x) > Len(rpo) - (k + 1) <=> Index(x) > Len(rpo) - k \/ x = b
  <2> TAKE x \in Children(a)
  <2>1. x \in reachable
    BY DEF Children
  <2>2. rpo[Index(x)] = x /\ rpo[Index(b)] = b /\ Index(x) \in Nat
    BY <1>1, <2>1, IndexFacts
  <2>3. Index(x) = Len(rpo) - k <=> x = b
    BY <2>2
  <2> QED
    BY <1>1, <2>2, <2>3
<1>3. Part(a, k + 1) = Part(a, k) \cup Dominated(b)
  BY <1>1, <1>2 DEF Part, Dominated
<1>4. Part(a, k) \cap Dominated(b) = {}
  <2>1. SUFFICES ASSUME NEW c \in reachable, NEW x \in Children(a), Index(x) > Len(rpo) - k,
                        Dominates(x, c), Dominates(b, c)
                 PROVE  FALSE
    BY DEF Part, Dominated
  <2>2. x = b
    BY <1>1, <2>1, ChildrenApart
  <2> QED
    BY <1>1, <2>1, <2>2
<1>5. IsFiniteSet(Part(a, k)) /\ IsFiniteSet(Dominated(b))
  BY <1>1, PartFacts
<1>6. Cardinality(Part(a, k + 1)) = Cardinality(Part(a, k)) + Cardinality(Dominated(b))
                                     - Cardinality(Part(a, k) \cap Dominated(b))
  BY <1>3, <1>5, FS_Union
<1>7. Cardinality(Part(a, k)) \in Nat /\ Cardinality(Dominated(b)) \in Nat
  BY <1>1, PartFacts
<1>8. Cardinality(Part(a, k) \cap Dominated(b)) = 0
  BY <1>4, FS_EmptySet
<1>9. Cardinality(Part(a, k + 1)) = Cardinality(Part(a, k)) + Cardinality(Dominated(b))
  BY <1>6, <1>7, <1>8
<1> QED
  BY <1>9
-----------------------------------------------------------------------------

\* One addition keeps the sizes what they should be.
LEMMA AdditionExact ==
    ASSUME Final, NEW k \in 0..(Len(rpo) - 1), NEW size \in [reachable -> Nat],
           \A b \in reachable : size[b] = PartialSize(b, k)
    PROVE  /\ AddToParent(size, rpo[Len(rpo) - k]) \in [reachable -> Nat]
           /\ \A c \in reachable :
                 AddToParent(size, rpo[Len(rpo) - k])[c] = PartialSize(c, k + 1)
<1> DEFINE b == rpo[Len(rpo) - k]
           own == size[b] + 1
<1>1. Sorted /\ Len(rpo) \in Nat
  BY IndexFacts DEF Final
<1>2. b \in reachable /\ Index(b) = Len(rpo) - k
  <2>1. Len(rpo) - k \in 1..Len(rpo)
    BY <1>1
  <2> QED
    BY <1>1, <2>1, IndexFacts
<1> HIDE DEF b
<1>3. own = Cardinality(Dominated(b)) /\ own \in Nat
  <2>1. size[b] = Cardinality(Part(b, k))
    BY <1>1, <1>2 DEF PartialSize
  <2> QED
    BY <1>2, <2>1, PartComplete, PartFacts
<1> HIDE DEF own
<1>4. AddToParent(size, b) = [c \in reachable |-> IF c = b THEN own
                                                  ELSE IF c = idom[b] THEN size[c] + own
                                                  ELSE size[c]]
  BY DEF AddToParent, own
<1>5. AddToParent(size, b) \in [reachable -> Nat]
  BY <1>3, <1>4
<1>6. ASSUME NEW c \in reachable PROVE AddToParent(size, b)[c] = PartialSize(c, k + 1)
  <2>1. CASE c = b
    BY <1>1, <1>2, <1>3, <1>4, <2>1 DEF PartialSize
  <2>2. CASE c # b /\ c = idom[b]
    <3>1. b \in Others
      BY <1>2, <1>6, <2>2, Up DEF Final
    <3>2. Index(c) < Index(b) /\ Index(c) \in Nat
      BY <1>1, <1>6, <2>2, <3>1, Up, IndexFacts
    <3>3. /\ PartialSize(c, k) = Cardinality(Part(c, k))
          /\ PartialSize(c, k + 1) = Cardinality(Part(c, k + 1))
      BY <1>1, <1>2, <3>2 DEF PartialSize
    <3>4. Cardinality(Part(c, k + 1)) = Cardinality(Part(c, k)) + Cardinality(Dominated(b))
      BY <1>2, <2>2, <3>1, PartGrows
    <3> QED
      BY <1>3, <1>4, <2>2, <3>3, <3>4
  <2>3. CASE c # b /\ c # idom[b]
    <3>1. AddToParent(size, b)[c] = PartialSize(c, k)
      BY <1>4, <2>3
    <3>2. Index(c) \in Nat /\ Index(c) # Len(rpo) - k
      <4>1. rpo[Index(c)] = c /\ rpo[Index(b)] = b /\ Index(c) \in Nat
        BY <1>1, <1>2, IndexFacts
      <4> QED
        BY <1>2, <2>3, <4>1
    <3>3. Index(c) > Len(rpo) - (k + 1) <=> Index(c) > Len(rpo) - k
      BY <1>1, <3>2
    <3>4. Part(c, k + 1) = Part(c, k)
      <4>1. \A x \in Children(c) : Index(x) > Len(rpo) - (k + 1) <=> Index(x) > Len(rpo) - k
        <5> TAKE x \in Children(c)
        <5>1. x \in reachable /\ x # b
          BY <2>3 DEF Children
        <5>2. rpo[Index(x)] = x /\ rpo[Index(b)] = b /\ Index(x) \in Nat
          BY <1>1, <1>2, <5>1, IndexFacts
        <5>3. Index(x) # Len(rpo) - k
          BY <1>2, <5>1, <5>2
        <5> QED
          BY <1>1, <5>2, <5>3
      <4> QED
        BY <4>1 DEF Part
    <3> QED
      BY <3>1, <3>3, <3>4 DEF PartialSize
  <2> QED
    BY <2>1, <2>2, <2>3
<1> QED
  BY <1>5, <1>6 DEF b

LEMMA Sizes ==
    ASSUME Final
    PROVE  \A b \in reachable : SubtreeSize[b] = Cardinality(Dominated(b))
<1> DEFINE n == Len(rpo)
           S == [reachable -> Nat]
           zero == [b \in reachable |-> 0]
           size[k \in 0..n] == IF k = 0 THEN zero ELSE AddToParent(size[k - 1], rpo[n + 1 - k])
           step == [x \in (1..n) \X S |-> AddToParent(x[2], rpo[n + 1 - x[1]])]
<1>1. n \in Nat /\ Sorted
  BY IndexFacts DEF Final
<1>2. \A k \in 1..n : \A f \in S : AddToParent(f, rpo[n + 1 - k]) \in S
  <2> TAKE k \in 1..n
  <2> TAKE f \in S
  <2>1. rpo[n + 1 - k] \in reachable
    <3>1. n + 1 - k \in 1..n
      BY <1>1
    <3> QED
      BY <1>1, <3>1, IndexFacts
  <2> QED
    BY <2>1 DEF AddToParent
<1>3. SubtreeSize = size[n]
  BY DEF SubtreeSize, size, n, zero
<1> HIDE DEF n
<1>4. zero \in S /\ \A b \in reachable : zero[b] = 0
  OBVIOUS
<1> HIDE DEF zero
<1>5. step \in Steps(n, S)
  <2> HIDE DEF S, size
  <2> QED
    BY <1>2 DEF Steps
<1>6. PICK f : Recurs(f, n, S, zero, step)
  <2> HIDE DEF step, S, size
  <2> QED
    BY <1>1, <1>4, <1>5, Recursive
<1>7. \A k \in 1..n : f[k] = AddToParent(f[k - 1], rpo[n + 1 - k])
  <2> SUFFICES ASSUME NEW k \in 1..n PROVE f[k] = AddToParent(f[k - 1], rpo[n + 1 - k])
    OBVIOUS
  <2>1. k - 1 \in 0..n
    BY <1>1
  <2>2. f[k - 1] \in S /\ f[k] = step[<<k, f[k - 1]>>]
    <3> HIDE DEF step, S, size
    <3> QED
      BY <1>6, <2>1 DEF Recurs
  <2> HIDE DEF size, S
  <2> QED
    BY <2>2
<1>8. size = [k \in 0..n |-> IF k = 0 THEN zero ELSE AddToParent(size[k - 1], rpo[n + 1 - k])]
  <2>1. f = [k \in 0..n |-> IF k = 0 THEN zero ELSE AddToParent(f[k - 1], rpo[n + 1 - k])]
    <3>1. f \in [0..n -> S] /\ f[0] = zero
      BY <1>6 DEF Recurs
    <3> HIDE DEF step, S, size
    <3> QED
      BY <1>1, <1>7, <3>1
  <2> HIDE DEF step
  <2> QED
    BY <2>1
<1> HIDE DEF size, step
<1>9. /\ size[0] = zero
      /\ \A k \in 0..(n - 1) : size[k + 1] = AddToParent(size[k], rpo[n - k])
  <2>1. 0 \in 0..n
    BY <1>1
  <2>2. ASSUME NEW k \in 0..(n - 1)
        PROVE  /\ k + 1 \in 0..n /\ k + 1 # 0 /\ (k + 1) - 1 = k /\ n + 1 - (k + 1) = n - k
    BY <1>1, <2>2
  <2>3. size[0] = zero
    BY <1>8, <2>1
  <2>4. ASSUME NEW k \in 0..(n - 1) PROVE size[k + 1] = AddToParent(size[k], rpo[n - k])
    <3>1. size[k + 1] = AddToParent(size[(k + 1) - 1], rpo[n + 1 - (k + 1)])
      BY <1>8, <2>2
    <3> QED
      BY <2>2, <3>1
  <2> QED
    BY <2>3, <2>4
<1> DEFINE Exact(k) == size[k] \in S /\ \A b \in reachable : size[k][b] = PartialSize(b, k)
           T == {k \in 0..n : Exact(k)}
<1>10. 0 \in T
  <2>1. ASSUME NEW b \in reachable PROVE PartialSize(b, 0) = 0
    <3>1. Index(b) \in Nat /\ Index(b) <= n
      BY <1>1, IndexFacts DEF n
    <3>2. Part(b, 0) = {}
      <4>1. \A x \in Children(b) : ~(Index(x) > n - 0)
        <5> TAKE x \in Children(b)
        <5>1. Index(x) \in 1..n
          BY <1>1, IndexFacts DEF Children, n
        <5> QED
          BY <1>1, <5>1
      <4> QED
        BY <4>1 DEF Part, n
    <3> QED
      BY <1>1, <3>1, <3>2, FS_EmptySet DEF PartialSize, n
  <2> QED
    BY <1>1, <1>4, <1>9, <2>1
<1>11. ASSUME NEW k \in 0..(n - 1), k \in T PROVE k + 1 \in T
  <2>1. k + 1 \in 0..n /\ size[k + 1] = AddToParent(size[k], rpo[n - k])
    BY <1>1, <1>9
  <2>2. Exact(k + 1)
    BY <1>11, <2>1, AdditionExact DEF n
  <2> QED
    BY <2>1, <2>2
<1> HIDE DEF T
<1>12. 0..n \subseteq T
  BY <1>1, <1>10, <1>11, Induct
<1>13. n \in 0..n
  BY <1>1
<1>14. ASSUME NEW b \in reachable PROVE PartialSize(b, n) = Cardinality(Dominated(b))
  <2>1. Index(b) > n - n
    <3>1. Index(b) \in 1..n
      BY <1>1, IndexFacts DEF n
    <3> QED
      BY <1>1, <3>1
  <2> QED
    BY <2>1 DEF PartialSize, n
<1> QED
  BY <1>3, <1>12, <1>13, <1>14 DEF T
-----------------------------------------------------------------------------
(* no way of going round for ever                                          *)

\* What a step of buildCfg does to the edges: only the current block gets
\* more, and a new block has none.
Grown(s, t) == /\ Len(t) >= Len(s)
               /\ \A b \in 1..Len(s) : b # current => t[b] = s[b]
               /\ \A b \in 1..Len(t) : b > Len(s) => t[b] = <<>>

Leads(s, a, b) == b \in ToSet(s[a])

LEMMA AddEdgeGrows ==
    ASSUME CfgTypeOK, NEW s, NEW t, Graph(s), Graph(t), Grown(s, t), current \in 1..Len(s),
           NEW b \in 1..Len(t)
    PROVE  /\ Graph(AddEdge(t, current, b)) /\ Len(AddEdge(t, current, b)) = Len(t)
           /\ Grown(s, AddEdge(t, current, b))
           /\ Leads(AddEdge(t, current, b), current, b)
<1> DEFINE u == AddEdge(t, current, b)
<1>1. current \in 1..Len(t) /\ Len(s) \in Nat /\ Len(t) \in Nat /\ current \in Nat
  BY DEF Grown, Graph
<1>2. Graph(u) /\ Len(u) = Len(t)
  BY <1>1, AddEdgeType
<1>3. \A x \in 1..Len(t) : x # current => u[x] = t[x]
  <2>1. DOMAIN t = 1..Len(t)
    BY DEF Graph
  <2> QED
    BY <2>1 DEF AddEdge
<1>4. Leads(u, current, b)
  <2>1. CASE b \in ToSet(t[current])
    BY <2>1 DEF AddEdge, Leads
  <2>2. CASE b \notin ToSet(t[current])
    <3>1. t[current] \in Seq(1..Len(t))
      BY <1>1 DEF Graph
    <3>2. u[current] = Append(t[current], b)
      <4>1. DOMAIN t = 1..Len(t)
        BY DEF Graph
      <4> QED
        BY <1>1, <2>2, <4>1 DEF AddEdge
    <3>3. Len(u[current]) \in DOMAIN u[current] /\ u[current][Len(u[current])] = b
      BY <3>1, <3>2
    <3> QED
      BY <3>3 DEF Leads, ToSet
  <2> QED
    BY <2>1, <2>2
<1>5. Grown(s, u)
  <2>1. Len(u) >= Len(s)
    BY <1>2 DEF Grown
  <2>2. ASSUME NEW x \in 1..Len(s), x # current PROVE u[x] = s[x]
    <3>1. x \in 1..Len(t)
      BY <1>1 DEF Grown
    <3> QED
      BY <1>3, <2>2, <3>1 DEF Grown
  <2>3. ASSUME NEW x \in 1..Len(u), x > Len(s) PROVE u[x] = <<>>
    <3>1. x # current /\ x \in 1..Len(t)
      BY <1>1, <1>2, <2>3
    <3> QED
      BY <1>3, <2>3, <3>1 DEF Grown
  <2> HIDE DEF u
  <2> QED
    BY <2>1, <2>2, <2>3 DEF Grown
<1> QED
  BY <1>2, <1>4, <1>5

LEMMA NewBlocksGrow ==
    ASSUME NEW s, NEW t, Graph(s), Graph(t), Grown(s, t), NEW k \in Nat
    PROVE  /\ Graph(NewBlocks(t, k)) /\ Len(NewBlocks(t, k)) = Len(t) + k
           /\ Grown(s, NewBlocks(t, k))
           /\ \A b \in (Len(t) + 1)..(Len(t) + k) : NewBlocks(t, k)[b] = <<>>
           /\ \A b \in 1..Len(t) : NewBlocks(t, k)[b] = t[b]
<1> DEFINE new == [i \in 1..k |-> <<>>]
           u == NewBlocks(t, k)
<1>1. Graph(u) /\ Len(u) = Len(t) + k /\ Len(t) \in Nat /\ Len(s) \in Nat
  BY NewBlocksType DEF Graph
<1>2. \A b \in 1..Len(t) : u[b] = t[b]
  <2>1. t \in Seq(Seq(1..Len(t))) /\ new \in Seq({<<>>})
    BY DEF Graph
  <2> HIDE DEF new
  <2>2. \A b \in 1..Len(t) : (t \o new)[b] = t[b]
    BY <2>1
  <2> QED
    BY <2>2 DEF NewBlocks, new
<1>3. \A b \in (Len(t) + 1)..(Len(t) + k) : u[b] = <<>>
  <2>1. t \in Seq(Seq(1..Len(t))) /\ new \in Seq({<<>>}) /\ Len(new) = k
        /\ \A i \in 1..k : new[i] = <<>>
    BY DEF Graph
  <2> HIDE DEF new
  <2>2. ASSUME NEW b \in (Len(t) + 1)..(Len(t) + k) PROVE (t \o new)[b] = <<>>
    <3>1. (t \o new)[b] = new[b - Len(t)] /\ b - Len(t) \in 1..k
      BY <1>1, <2>1
    <3> QED
      BY <2>1, <3>1
  <2> QED
    BY <2>2 DEF NewBlocks, new
<1> HIDE DEF u, new
<1>4. Grown(s, u)
  <2>1. Len(u) >= Len(s)
    BY <1>1 DEF Grown
  <2>2. ASSUME NEW x \in 1..Len(s), x # current PROVE u[x] = s[x]
    <3>1. x \in 1..Len(t)
      BY <1>1 DEF Grown
    <3> QED
      BY <1>2, <2>2, <3>1 DEF Grown
  <2>3. ASSUME NEW x \in 1..Len(u), x > Len(s) PROVE u[x] = <<>>
    <3>1. CASE x \in 1..Len(t)
      BY <1>2, <2>3, <3>1 DEF Grown
    <3>2. CASE x \notin 1..Len(t)
      <4>1. x \in (Len(t) + 1)..(Len(t) + k)
        BY <1>1, <3>2
      <4> QED
        BY <1>3, <4>1
    <3> QED
      BY <3>1, <3>2
  <2> QED
    BY <2>1, <2>2, <2>3 DEF Grown
<1> QED
  BY <1>1, <1>2, <1>3, <1>4 DEF u
-----------------------------------------------------------------------------

LEMMA AddBranchesGrow ==
    ASSUME CfgTypeOK, pos <= Len(prog)
    PROVE  /\ Graph(AddBranches(successors)) /\ Len(AddBranches(successors)) = Len(successors)
           /\ Grown(successors, AddBranches(successors))
<1> DEFINE S == {g \in Seq(Seq(Blocks)) : Len(g) = Len(successors) /\ Grown(successors, g)}
<1>1. Graph(successors) /\ current \in 1..Len(successors) /\ Len(successors) \in Nat
  BY DEF CfgTypeOK, Graph, Blocks
<1>2. \A g : g \in S <=> Graph(g) /\ Len(g) = Len(successors) /\ Grown(successors, g)
  BY <1>1 DEF Graph, Blocks
<1>3. successors \in S
  <2>1. Grown(successors, successors)
    BY <1>1 DEF Grown
  <2> QED
    BY <1>1, <1>2, <2>1
<1> HIDE DEF S
<1>4. \A g \in S : \A d \in Nat :
          d < Len(labelStack) => AddEdge(g, current, Target(d)) \in S
  <2> TAKE g \in S
  <2> TAKE d \in Nat
  <2> HAVE d < Len(labelStack)
  <2>1. Target(d) \in 1..Len(g)
    BY <1>2, TargetType DEF Blocks
  <2>2. Graph(g) /\ Len(g) = Len(successors) /\ Grown(successors, g)
    BY <1>2
  <2> QED
    BY <1>1, <1>2, <2>1, <2>2, AddEdgeGrows
<1>5. AddBranches(successors) \in S
  BY <1>3, <1>4, AddBranchesInto
<1> QED
  BY <1>2, <1>5

\* What follows an open construct has no edges yet, and nobody is filling it.
Awaited(l) == successors[l.after] = <<>> /\ l.after # current

\* The exit is where the function's own label leads; the blocks that wait
\* behind the other labels are different ones.
Waiting == /\ Exit \in terminating /\ labelStack[1].after = Exit
           /\ \A i \in 2..Len(labelStack) : Awaited(labelStack[i])
           /\ \A i, j \in 2..Len(labelStack) :
                 labelStack[i].after = labelStack[j].after => i = j

\* Blocks that go on, each to others among them.
Trap(S) == /\ S # {} /\ S \subseteq Blocks /\ S \cap terminating = {}
           /\ \A b \in S : successors[b] # <<>> /\ \A c \in Blocks : Edge(b, c) => c \in S

\* There are none: an edge is only ever added to a block that ends there, or
\* that has still to be filled.
Endless == \E S \in SUBSET Blocks : Trap(S)
Building == Waiting /\ ~Endless

\* The current block ends in a jump, has got no edge, or has got one to a
\* block without edges or to one that ends in a jump.
Ends(t, jumps) == \/ current \in jumps
                  \/ t[current] = successors[current]
                  \/ \E b \in 1..Len(t) : Leads(t, current, b) /\ (t[b] = <<>> \/ b \in jumps)

LEMMA NoTrap ==
    ASSUME CfgTypeOK, ~Endless, Graph(successors'), Grown(successors, successors'),
           terminating \subseteq terminating', Ends(successors', terminating')
    PROVE  ~Endless'
<1> SUFFICES ASSUME NEW S, Trap(S)' PROVE FALSE
  BY DEF Endless
<1>1. current \in Blocks /\ Len(successors) \in Nat /\ Len(successors') \in Nat
  <2>1. current \in Blocks /\ successors \in Seq(Seq(Blocks))
    BY DEF CfgTypeOK
  <2>2. successors' \in Seq(Seq(1..Len(successors')))
    BY DEF Graph
  <2> QED
    BY <2>1, <2>2
<1>2. /\ S # {} /\ S \subseteq 1..Len(successors') /\ S \cap terminating' = {}
      /\ \A b \in S : /\ successors'[b] # <<>>
                      /\ \A c \in 1..Len(successors') : c \in ToSet(successors'[b]) => c \in S
  BY DEF Trap, Blocks, Edge
<1>3. S \subseteq Blocks
  BY <1>1, <1>2 DEF Grown, Blocks
<1>4. \A b \in S : successors'[b] = successors[b]
  <2>1. CASE current \in terminating' \/ successors'[current] = successors[current]
    BY <1>2, <1>3, <2>1 DEF Grown, Blocks
  <2>2. CASE \E b \in 1..Len(successors') :
                /\ Leads(successors', current, b)
                /\ successors'[b] = <<>> \/ b \in terminating'
    <3>1. current \notin S
      BY <1>2, <2>2 DEF Leads
    <3> QED
      BY <1>3, <3>1 DEF Grown, Blocks
  <2> QED
    BY <2>1, <2>2 DEF Ends
<1>5. \A c \in Blocks : c \in 1..Len(successors')
  BY <1>1 DEF Grown, Blocks
<1>6. Trap(S)
  BY <1>2, <1>3, <1>4, <1>5 DEF Trap, Edge
<1> QED
  BY <1>6 DEF Endless, Trap
-----------------------------------------------------------------------------

LEMMA LabelFacts ==
    ASSUME CfgTypeOK
    PROVE  /\ labelStack \in Seq([target : Blocks, after : Blocks])
           /\ Len(labelStack) \in Nat /\ Len(labelStack) >= 1
           /\ \A i \in 1..Len(labelStack) : labelStack[i].after \in Blocks
           /\ Last(labelStack) = labelStack[Len(labelStack)]
<1>1. labelStack \in Seq([target : Blocks, after : Blocks]) /\ labelStack # <<>>
  BY DEF CfgTypeOK
<1>2. Len(labelStack) \in Nat /\ Len(labelStack) >= 1
  BY <1>1, EmptySeq
<1>3. \A i \in 1..Len(labelStack) : labelStack[i].after \in Blocks
  <2> TAKE i \in 1..Len(labelStack)
  <2>1. labelStack[i] \in [target : Blocks, after : Blocks]
    BY <1>1, ElementOfSeq
  <2> QED
    BY <2>1
<1> QED
  BY <1>1, <1>2, <1>3 DEF Last

\* The rows of the waiting blocks are still empty after a step.
LEMMA StillEmpty ==
    ASSUME CfgTypeOK, Waiting, Grown(successors, successors'), NEW i \in 2..Len(labelStack)
    PROVE  /\ labelStack[i].after \in Blocks /\ labelStack[i].after # current
           /\ successors'[labelStack[i].after] = <<>>
<1>1. labelStack[i].after \in Blocks /\ Awaited(labelStack[i])
  BY LabelFacts DEF Waiting
<1> QED
  BY <1>1 DEF Awaited, Grown, Blocks

\* A step that keeps the labels, or opens a construct.
LEMMA WaitingStays ==
    ASSUME CfgTypeOK, Waiting, Grown(successors, successors'), Len(successors') \in Nat,
           terminating \subseteq terminating', current' \in {current, Fresh},
           \/ labelStack' = labelStack
           \/ \E t : \E a \in {Fresh, Fresh + 1} :
                 /\ labelStack' = Append(labelStack, Label(t, a))
                 /\ a <= Len(successors') /\ a # current'
    PROVE  Waiting'
<1>1. Len(successors) \in Nat /\ current \in Blocks /\ Fresh \notin Blocks /\ Fresh + 1 \notin Blocks
  <2>1. Len(successors) \in Nat /\ current \in Blocks
    BY DEF CfgTypeOK
  <2> QED
    BY <2>1 DEF Fresh, Blocks
<1>2. \A i \in 2..Len(labelStack) : /\ successors'[labelStack[i].after] = <<>>
                                    /\ labelStack[i].after # current'
                                    /\ labelStack[i].after \in Blocks
  BY <1>1, StillEmpty
<1>3. Exit \in terminating' /\ labelStack[1].after = Exit
  BY DEF Waiting
<1>4. \A i, j \in 2..Len(labelStack) : labelStack[i].after = labelStack[j].after => i = j
  BY DEF Waiting
<1>5. CASE labelStack' = labelStack
  BY <1>2, <1>3, <1>4, <1>5 DEF Waiting, Awaited, Exit
<1>6. ASSUME NEW t, NEW a \in {Fresh, Fresh + 1}, labelStack' = Append(labelStack, Label(t, a)),
             a <= Len(successors'), a # current'
      PROVE  Waiting'
  <2> DEFINE n == Len(labelStack)
  <2>1. n \in Nat /\ n >= 1
    BY LabelFacts
  <2>2. /\ Len(labelStack') = n + 1 /\ labelStack'[n + 1] = Label(t, a)
        /\ \A i \in 1..n : labelStack'[i] = labelStack[i]
    BY <1>6, LabelFacts
  <2>3. labelStack'[n + 1].after = a
    BY <2>2 DEF Label
  <2>4. successors'[a] = <<>>
    <3>1. a \in 1..Len(successors') /\ a > Len(successors)
      BY <1>1, <1>6 DEF Fresh
    <3> QED
      BY <3>1 DEF Grown
  <2> HIDE DEF n
  <2>5. \A i \in 2..(n + 1) : i = n + 1 \/ (i \in 2..n /\ labelStack'[i] = labelStack[i])
    BY <2>1, <2>2
  <2>6. labelStack'[1].after = Exit'
    BY <1>3, <2>1, <2>2 DEF Exit
  <2>7. \A i \in 2..(n + 1) : Awaited(labelStack[i])'
    BY <1>2, <1>6, <2>3, <2>4, <2>5 DEF Awaited, n
  <2>8. \A i, j \in 2..(n + 1) : labelStack'[i].after = labelStack'[j].after => i = j
    <3> TAKE i, j \in 2..(n + 1)
    <3>1. \A k \in 2..n : labelStack[k].after # a
      BY <1>1, <1>2, <1>6 DEF n
    <3> QED
      BY <1>4, <2>3, <2>5, <3>1 DEF n
  <2> QED
    BY <1>3, <2>2, <2>6, <2>7, <2>8 DEF Waiting, Exit
<1> QED
  BY <1>5, <1>6

\* A step that closes a construct.
LEMMA WaitingPopped ==
    ASSUME CfgTypeOK, Waiting, Grown(successors, successors'),
           terminating' = terminating, Len(labelStack) > 1,
           labelStack' = Front(labelStack), current' = Last(labelStack).after
    PROVE  Waiting'
<1> DEFINE n == Len(labelStack)
<1>1. n \in Nat /\ n > 1 /\ current' = labelStack[n].after
  BY LabelFacts
<1>2. Len(labelStack') = n - 1 /\ \A i \in 1..(n - 1) : labelStack'[i] = labelStack[i]
  <2>1. labelStack' = SubSeq(labelStack, 1, n - 1)
    BY DEF Front
  <2>2. labelStack \in Seq([target : Blocks, after : Blocks])
    BY LabelFacts
  <2> QED
    BY <1>1, <2>1, <2>2
<1>3. \A i, j \in 2..n : labelStack[i].after = labelStack[j].after => i = j
  BY DEF Waiting
<1>4. \A i \in 2..n : successors'[labelStack[i].after] = <<>>
  BY StillEmpty
<1> HIDE DEF n
<1>5. \A i \in 2..(n - 1) : i \in 2..n /\ i # n /\ n \in 2..n /\ labelStack'[i] = labelStack[i]
  BY <1>1, <1>2
<1>6. \A i \in 2..(n - 1) : Awaited(labelStack[i])'
  BY <1>1, <1>3, <1>4, <1>5 DEF Awaited
<1>7. \A i, j \in 2..(n - 1) : labelStack'[i].after = labelStack'[j].after => i = j
  BY <1>3, <1>5
<1>8. Exit' \in terminating' /\ labelStack'[1].after = Exit'
  BY <1>1, <1>2 DEF Waiting, Exit
<1> QED
  BY <1>2, <1>6, <1>7, <1>8 DEF Waiting
-----------------------------------------------------------------------------

\* No instruction closes a trap.
LEMMA BuildBuilding == CfgTypeOK /\ Building /\ Build => Building'
<1> SUFFICES ASSUME CfgTypeOK, Waiting, ~Endless, Build PROVE Building'
  BY DEF Building
<1> DEFINE n == Len(successors)
           s == successors
           after == Last(labelStack).after
<1>1. n \in Nat /\ n >= 2 /\ current \in 1..n /\ Fresh = n + 1 /\ Exit \in 1..n /\ Graph(s)
  <2>1. n \in Nat /\ n >= 2 /\ successors \in Seq(Seq(1..n)) /\ current \in 1..n
    BY DEF CfgTypeOK, Blocks
  <2>2. Graph(s) /\ Fresh = n + 1
    BY <2>1 DEF Graph, Fresh
  <2> HIDE DEF n
  <2> QED
    BY <2>1, <2>2 DEF Exit
<1>2. Grown(s, s)
  <2> HIDE DEF n
  <2> QED
    BY <1>1 DEF Grown, n
<1>3. /\ after \in 1..n
      /\ after \in terminating \/ (s[after] = <<>> /\ after # current)
  <2>1. Len(labelStack) \in Nat /\ Len(labelStack) >= 1 /\ after = labelStack[Len(labelStack)].after
    BY LabelFacts
  <2>2. after \in 1..n
    BY <2>1, LabelFacts DEF Blocks
  <2>3. CASE Len(labelStack) = 1
    BY <2>1, <2>2, <2>3 DEF Waiting
  <2>4. CASE Len(labelStack) > 1
    <3>1. Len(labelStack) \in 2..Len(labelStack)
      BY <2>1, <2>4
    <3> QED
      BY <2>1, <2>2, <3>1 DEF Waiting, Awaited
  <2>5. Len(labelStack) = 1 \/ Len(labelStack) > 1
    <3>1. Len(labelStack) \in Nat /\ Len(labelStack) >= 1
      BY <2>1
    <3>2. \A m \in Nat : m >= 1 => m = 1 \/ m > 1
      OBVIOUS
    <3> QED
      BY <3>1, <3>2, Zenon
  <2> HIDE DEF after, n, s
  <2> QED
    BY <2>2, <2>3, <2>4, <2>5
<1> HIDE DEF after
<1>4. Graph(NewBlocks(s, 1)) /\ Len(NewBlocks(s, 1)) = n + 1 /\ Grown(s, NewBlocks(s, 1))
      /\ Graph(NewBlocks(s, 2)) /\ Len(NewBlocks(s, 2)) = n + 2 /\ Grown(s, NewBlocks(s, 2))
      /\ NewBlocks(s, 1)[current] = s[current]
  BY <1>1, <1>2, NewBlocksGrow
<1>5. ASSUME NEW t, Graph(t), Grown(s, t), NEW b \in 1..Len(t)
      PROVE  /\ Graph(AddEdge(t, current, b)) /\ Len(AddEdge(t, current, b)) = Len(t)
             /\ Grown(s, AddEdge(t, current, b)) /\ Leads(AddEdge(t, current, b), current, b)
  BY <1>1, <1>5, AddEdgeGrows
<1>6. ASSUME NEW t, Grown(s, t), NEW b \in 1..Len(t), b > n PROVE t[b] = <<>>
  BY <1>6 DEF Grown
<1>7. ASSUME NEW t, Graph(t), Grown(s, t), Leads(t, current, after)
      PROVE  Ends(t, terminating)
  <2>1. after \in 1..Len(t)
    BY <1>1, <1>3, <1>7 DEF Grown, Graph
  <2>2. after \in terminating \/ t[after] = <<>>
    BY <1>3, <1>7 DEF Grown
  <2> QED
    BY <1>7, <2>1, <2>2 DEF Ends
<1> HIDE DEF n, s
<1>8. ASSUME Graph(successors'), Grown(s, successors'), terminating \subseteq terminating',
             Ends(successors', terminating'), Waiting'
      PROVE  Building'
  BY <1>8, NoTrap DEF Building, s
<1>9. ASSUME Graph(successors'), Grown(s, successors'), terminating \subseteq terminating',
             Ends(successors', terminating'), current' \in {current, Fresh}, labelStack' = labelStack
      PROVE  Building'
  <2>1. Len(successors') \in Nat
    BY <1>9 DEF Graph
  <2>2. Waiting'
    BY <1>9, <2>1, WaitingStays DEF s
  <2> QED
    BY <1>8, <1>9, <2>2
<1>10. CASE ReadBlock
  <2>1. /\ successors' = NewBlocks(s, 1) /\ terminating' = terminating /\ current' = current
        /\ labelStack' = Append(labelStack, Label(Fresh, Fresh))
    BY <1>10 DEF ReadBlock, s
  <2>2. Ends(successors', terminating')
    BY <1>4, <2>1 DEF Ends, s
  <2>3. Fresh # current /\ Fresh <= Len(successors') /\ Len(successors') \in Nat
    BY <1>1, <1>4, <2>1
  <2>4. Waiting'
    BY <1>4, <2>1, <2>3, WaitingStays DEF s
  <2> QED
    BY <1>4, <1>8, <2>1, <2>2, <2>4
<1>11. CASE ReadLoop
  <2>1. /\ successors' = AddEdge(NewBlocks(s, 2), current, Fresh) /\ terminating' = terminating
        /\ current' = Fresh /\ labelStack' = Append(labelStack, Label(Fresh, Fresh + 1))
    BY <1>11 DEF ReadLoop, s
  <2>2. Fresh \in 1..(n + 2) /\ Fresh > n /\ Fresh + 1 # Fresh /\ Fresh + 1 <= n + 2 /\ n + 2 \in Nat
    BY <1>1
  <2>3. /\ Graph(successors') /\ Len(successors') = n + 2 /\ Grown(s, successors')
        /\ Leads(successors', current, Fresh)
    BY <1>4, <1>5, <2>1, <2>2
  <2>4. Ends(successors', terminating')
    BY <1>6, <2>2, <2>3 DEF Ends
  <2>5. Waiting'
    BY <2>1, <2>2, <2>3, WaitingStays DEF s
  <2> QED
    BY <1>8, <2>1, <2>3, <2>4, <2>5
<1>12. CASE ReadIf
  <2> DEFINE t == AddEdge(NewBlocks(s, 2), current, Fresh)
  <2>1. /\ successors' = AddEdge(t, current, Fresh + 1) /\ terminating' = terminating
        /\ current' = Fresh /\ labelStack' = Append(labelStack, Label(Fresh + 1, Fresh + 1))
    BY <1>12 DEF ReadIf, s
  <2>2. /\ Fresh \in 1..(n + 2) /\ Fresh + 1 \in 1..(n + 2) /\ Fresh + 1 > n
        /\ Fresh + 1 # Fresh /\ Fresh + 1 <= n + 2 /\ n + 2 \in Nat
    BY <1>1
  <2>3. Graph(t) /\ Len(t) = n + 2 /\ Grown(s, t)
    BY <1>4, <1>5, <2>2
  <2> HIDE DEF t
  <2>4. /\ Graph(successors') /\ Len(successors') = n + 2 /\ Grown(s, successors')
        /\ Leads(successors', current, Fresh + 1)
    BY <1>5, <2>1, <2>2, <2>3
  <2>5. Ends(successors', terminating')
    BY <1>6, <2>2, <2>4 DEF Ends
  <2>6. Waiting'
    BY <2>1, <2>2, <2>4, WaitingStays DEF s
  <2> QED
    BY <1>8, <2>1, <2>4, <2>5, <2>6
<1>13. CASE ReadElse
  <2> DEFINE t == AddEdge(s, current, after)
  <2>1. /\ successors' = NewBlocks(t, 1) /\ terminating' = terminating
        /\ current' = Fresh /\ labelStack' = labelStack
    BY <1>13 DEF ReadElse, s, after
  <2>2. Graph(t) /\ Len(t) = n /\ Grown(s, t) /\ Leads(t, current, after)
    BY <1>1, <1>2, <1>3, <1>5 DEF n, s
  <2> HIDE DEF t
  <2>3. Graph(successors') /\ Grown(s, successors') /\ successors'[current] = t[current]
    <3>1. current \in 1..Len(t)
      BY <1>1, <2>2
    <3>2. Graph(NewBlocks(t, 1)) /\ Grown(s, NewBlocks(t, 1))
      BY <1>1, <2>2, NewBlocksGrow
    <3>3. NewBlocks(t, 1)[current] = t[current]
      <4>1. 1 \in Nat /\ Graph(s) /\ Graph(t) /\ Grown(s, t)
        BY <1>1, <2>2
      <4>2. \A b \in 1..Len(t) : NewBlocks(t, 1)[b] = t[b]
        BY <4>1, NewBlocksGrow, SMT
      <4> QED
        BY <3>1, <4>2
    <3> QED
      BY <2>1, <3>1, <3>2, <3>3
  <2>4. Ends(successors', terminating')
    BY <1>7, <2>1, <2>2, <2>3 DEF Leads
  <2> QED
    BY <1>9, <2>1, <2>3, <2>4
<1>14. CASE ReadEnd
  <2>1. /\ successors' = IF current \in terminating THEN s ELSE AddEdge(s, current, after)
        /\ terminating' = terminating /\ Len(labelStack) > 1
        /\ labelStack' = Front(labelStack) /\ current' = Last(labelStack).after
    BY <1>14 DEF ReadEnd, s, after
  <2>2. Graph(successors') /\ Grown(s, successors') /\ Ends(successors', terminating')
    <3>1. CASE current \in terminating
      BY <1>1, <1>2, <2>1, <3>1 DEF Ends
    <3>2. CASE current \notin terminating
      <4>1. /\ Graph(successors') /\ Grown(s, successors')
            /\ Leads(successors', current, after)
        BY <1>1, <1>2, <1>3, <1>5, <2>1, <3>2 DEF n, s
      <4> QED
        BY <1>7, <2>1, <4>1
    <3> QED
      BY <3>1, <3>2
  <2>3. Waiting'
    BY <2>1, <2>2, WaitingPopped DEF s
  <2> QED
    BY <1>8, <2>1, <2>2, <2>3
<1>15. CASE ReadLastEnd
  <2>1. /\ successors' = AddEdge(s, current, Exit) /\ terminating' = terminating
        /\ labelStack' = labelStack /\ current' = current
    BY <1>15 DEF ReadLastEnd, s
  <2>2. /\ Graph(successors') /\ Len(successors') = n /\ Grown(s, successors')
        /\ Leads(successors', current, Exit)
    BY <1>1, <1>2, <1>5, <2>1 DEF n, s
  <2>3. Ends(successors', terminating')
    BY <1>1, <2>1, <2>2 DEF Ends, Waiting
  <2> QED
    BY <1>9, <2>1, <2>2, <2>3
<1>16. pos <= Len(prog)
  BY DEF Build, ReadBlock, ReadLoop, ReadIf, ReadElse, ReadEnd, ReadLastEnd, ReadJump, ReadBrIf,
         ReadPlain, Read
<1>17. Graph(AddBranches(s)) /\ Len(AddBranches(s)) = n /\ Grown(s, AddBranches(s))
  BY <1>16, AddBranchesGrow DEF s, n
<1>18. CASE ReadJump
  <2> DEFINE t == IF prog[pos].op = "return" THEN AddEdge(s, current, Exit) ELSE AddBranches(s)
  <2>1. /\ successors' = NewBlocks(t, 1) /\ terminating' = terminating \cup {current}
        /\ current' = Fresh /\ labelStack' = labelStack
    BY <1>18 DEF ReadJump, s
  <2>2. Graph(t) /\ Grown(s, t)
    <3>1. Graph(AddEdge(s, current, Exit)) /\ Grown(s, AddEdge(s, current, Exit))
      BY <1>1, <1>2, <1>5 DEF n, s
    <3> QED
      BY <1>17, <3>1
  <2> HIDE DEF t
  <2>3. Graph(successors') /\ Grown(s, successors')
    BY <1>1, <2>1, <2>2, NewBlocksGrow
  <2>4. Ends(successors', terminating')
    BY <2>1 DEF Ends
  <2> QED
    BY <1>9, <2>1, <2>3, <2>4
<1>19. CASE ReadBrIf
  <2> DEFINE t == NewBlocks(AddBranches(s), 1)
  <2>1. /\ successors' = AddEdge(t, current, Fresh) /\ terminating' = terminating
        /\ current' = Fresh /\ labelStack' = labelStack
    BY <1>19 DEF ReadBrIf, s
  <2>2. Graph(t) /\ Len(t) = n + 1 /\ Grown(s, t)
    BY <1>1, <1>17, NewBlocksGrow
  <2> HIDE DEF t
  <2>3. Fresh \in 1..(n + 1) /\ Fresh > n
    BY <1>1
  <2>4. /\ Graph(successors') /\ Len(successors') = n + 1 /\ Grown(s, successors')
        /\ Leads(successors', current, Fresh)
    BY <1>5, <2>1, <2>2, <2>3
  <2>5. Ends(successors', terminating')
    BY <1>6, <2>3, <2>4 DEF Ends
  <2> QED
    BY <1>9, <2>1, <2>4, <2>5
<1>20. CASE ReadPlain
  <2>1. successors' = s /\ terminating' = terminating /\ labelStack' = labelStack /\ current' = current
    BY <1>20 DEF ReadPlain, s
  <2>2. Ends(successors', terminating')
    BY <2>1 DEF Ends, s
  <2> QED
    BY <1>1, <1>2, <1>9, <2>1, <2>2
<1> QED
  BY <1>10, <1>11, <1>12, <1>13, <1>14, <1>15, <1>18, <1>19, <1>20 DEF Build
-----------------------------------------------------------------------------
(* the report                                                              *)

LEMMA InitBuilding == Init => Building
<1> SUFFICES ASSUME Init PROVE Building
  OBVIOUS
<1>1. /\ successors = <<<<>>, <<>>>> /\ terminating = {Exit} /\ current = Entry
      /\ labelStack = <<Label(Exit, Exit)>>
  BY DEF Init, BuilderInit
<1>2. Waiting
  BY <1>1 DEF Waiting, Label
<1>3. ASSUME NEW S, Trap(S) PROVE FALSE
  <2>1. PICK b \in S : b \in Blocks /\ successors[b] # <<>>
    BY <1>3 DEF Trap
  <2>2. b \in 1..2
    BY <1>1, <2>1 DEF Blocks
  <2> QED
    BY <1>1, <2>1, <2>2
<1> QED
  BY <1>2, <1>3 DEF Building, Endless

LEMMA NextBuilding == Inv /\ Building /\ [Next]_vars => Building'
<1> SUFFICES ASSUME Inv, Building, [Next]_vars PROVE Building'
  OBVIOUS
<1>1. CASE ReadNext
  BY <1>1, BuildBuilding DEF ReadNext, Inv, TypeOK
<1>2. ASSUME UNCHANGED <<cfg, builder>> PROVE Building'
  <2>1. UNCHANGED <<successors, terminating, labelStack, current>>
    BY <1>2 DEF cfg, builder
  <2>2. Blocks' = Blocks /\ \A a, b : Edge(a, b)' <=> Edge(a, b)
    BY <2>1, SameGraph
  <2>3. Waiting'
    BY <2>1 DEF Building, Waiting, Awaited, Exit
  <2>4. \A S : Trap(S)' <=> Trap(S)
    BY <2>1, <2>2 DEF Trap
  <2> QED
    BY <2>3, <2>4 DEF Building, Endless, Trap
<1> QED
  BY <1>1, <1>2 DEF Next, Search, Sweep, vars, Finish, Reach, Descend, Ascend, BeginSweeps, PassOver,
     Visit, Intersect, Climb, Settle, EndSweep

\* Whatever was built, some block that can be reached counts as an exit.
LEMMA ExitReached ==
    ASSUME CfgTypeOK, Building, Final
    PROVE  ExitIds # {}
<1>1. /\ reachable = Reached /\ reachable \subseteq Blocks /\ Entry \in reachable
      /\ \A x \in reachable, y \in Blocks : Edge(x, y) => y \in reachable
  BY Up, ReachedFacts
<1>2. ~Trap(reachable)
  BY <1>1 DEF Building, Endless
<1>3. PICK b \in reachable : successors[b] = <<>> \/ b \in terminating
  BY <1>1, <1>2 DEF Trap
<1> QED
  BY <1>3 DEF ExitIds

LEMMA FinalReached == Inv /\ pc = "done" => Final
<1> SUFFICES ASSUME Inv, pc = "done" PROVE Final
  OBVIOUS
<1>1. Sorted /\ idom \in [reachable -> reachable \cup {None}]
  BY DEF Inv, SweepInv, TypeOK
<1>2. \A b \in reachable : IF b = Entry THEN idom[b] = None
          ELSE /\ idom[b] \in StrictDominators(b)
               /\ \A a \in StrictDominators(b) : Dominates(a, idom[b])
  BY DEF Inv, IdomsExact
<1>3. Entry \in reachable
  BY <1>1, IndexFacts
<1> QED
  BY <1>1, <1>2, <1>3 DEF Final, Others

LEMMA Measured ==
    ASSUME CfgTypeOK, Building, Final
    PROVE  MeasuresExact
<1>1. \A b \in reachable : /\ Depth(b) = Cardinality(StrictDominators(b))
                            /\ SubtreeSize[b] = Cardinality({c \in reachable : Dominates(b, c)})
  BY Depths, Sizes DEF Dominated
<1>2. \A b \in reachable : \A a : a \in Ancestors(b) <=> a \in reachable /\ Dominates(a, b)
  BY AncestorsDominate DEF Doms
<1>3. LoopHeaderDominators = UNION {StrictDominators(h) : h \in loopHeaders \cap reachable}
  <2>1. ASSUME NEW h \in loopHeaders \cap reachable PROVE Ancestors(h) \ {h} = StrictDominators(h)
    BY <1>2, Up DEF StrictDominators, Reached
  <2> QED
    BY <2>1 DEF LoopHeaderDominators
<1>4. ExitDominators \ ExitIds = {a \in reachable \ ExitIds : \A e \in ExitIds : Dominates(a, e)}
  <2>1. ExitIds \subseteq reachable
    BY DEF ExitIds
  <2> QED
    BY <1>2, <2>1, ExitReached DEF ExitDominators
<1> QED
  BY <1>1, <1>3, <1>4 DEF MeasuresExact

\* What computeDominators reports about the tree is true of the graph, for
\* every function body: the depths and the subtree sizes count dominators
\* and dominated blocks, and the two lists are what dominates the loop
\* headers and, of the other blocks, what dominates every exit, of which
\* there is always one.
THEOREM Measures == Spec => []MeasuresExact
<1>1. Init => Inv /\ Building
  BY InitInv, InitBuilding
<1>2. (Inv /\ Building) /\ [Next]_vars => (Inv /\ Building)'
  BY NextInv, NextBuilding
<1>3. Inv /\ Building => MeasuresExact
  <2>1. CASE pc = "done"
    BY <2>1, FinalReached, Measured DEF Inv, TypeOK
  <2>2. CASE pc # "done"
    BY <2>2 DEF MeasuresExact
  <2> QED
    BY <2>1, <2>2
<1> QED
  BY <1>1, <1>2, <1>3, PTL DEF Spec
-----------------------------------------------------------------------------
(* constructs that nest                                                    *)

Body(p) == p \in Seq(Instruction) /\ WellFormed(p)

\* One more instruction counts for itself.
LEMMA BeforeStep ==
    ASSUME NEW p, NEW i \in Nat, i >= 1, NEW ops
    PROVE  /\ Before(p, i, ops) \in Nat
           /\ Before(p, i + 1, ops) = Before(p, i, ops) + IF p[i].op \in ops THEN 1 ELSE 0
<1> DEFINE S == {j \in 1..(i - 1) : p[j].op \in ops}
           T == {j \in 1..i : p[j].op \in ops}
<1>1. IsFiniteSet(S) /\ Cardinality(S) \in Nat
  <2>1. IsFiniteSet(1..(i - 1)) /\ S \subseteq 1..(i - 1)
    BY FS_Interval
  <2> QED
    BY <2>1, FS_Subset, FS_CardinalityType
<1>2. T = IF p[i].op \in ops THEN S \cup {i} ELSE S
  OBVIOUS
<1>3. i \notin S
  OBVIOUS
<1>4. Before(p, i, ops) = Cardinality(S) /\ Before(p, i + 1, ops) = Cardinality(T)
  <2>1. (i + 1) - 1 = i
    OBVIOUS
  <2> QED
    BY <2>1 DEF Before
<1> HIDE DEF S, T
<1>5. CASE p[i].op \in ops
  <2>1. Cardinality(S \cup {i}) = Cardinality(S) + 1
    BY <1>1, <1>3, FS_AddElement
  <2> QED
    BY <1>1, <1>2, <1>4, <1>5, <2>1
<1>6. CASE p[i].op \notin ops
  BY <1>1, <1>2, <1>4, <1>6
<1> QED
  BY <1>5, <1>6

\* An opener encloses what follows, an "end" stops to.
LEMMA HeightStep ==
    ASSUME NEW p, Body(p), NEW i \in 1..Len(p)
    PROVE  /\ Height(p, i) \in Nat /\ Height(p, i) >= 1 /\ Height(p, i + 1) \in Nat
           /\ Height(p, i + 1) = IF p[i].op \in Openers THEN Height(p, i) + 1
                                 ELSE IF p[i].op = "end" THEN Height(p, i) - 1
                                 ELSE Height(p, i)
<1>1. i \in Nat /\ i >= 1 /\ Len(p) \in Nat
  BY DEF Body
<1> DEFINE a == Before(p, i, Openers)
           b == Before(p, i, {"end"})
<1>2. /\ a \in Nat /\ b \in Nat
      /\ Before(p, i + 1, Openers) = a + IF p[i].op \in Openers THEN 1 ELSE 0
      /\ Before(p, i + 1, {"end"}) = b + IF p[i].op \in {"end"} THEN 1 ELSE 0
  BY <1>1, BeforeStep
<1>3. Height(p, i) = 1 + a - b
  BY DEF Height
<1>4. Height(p, i + 1) = 1 + Before(p, i + 1, Openers) - Before(p, i + 1, {"end"})
  BY DEF Height
<1>5. "end" \notin Openers
  BY DEF Openers
<1>6. Height(p, i) >= 1
  BY DEF Body, WellFormed
<1> HIDE DEF a, b
<1>7. CASE p[i].op \in Openers
  BY <1>2, <1>3, <1>4, <1>5, <1>6, <1>7
<1>8. CASE p[i].op = "end"
  BY <1>2, <1>3, <1>4, <1>5, <1>6, <1>8
<1>9. CASE p[i].op \notin Openers /\ p[i].op # "end"
  BY <1>2, <1>3, <1>4, <1>6, <1>9
<1> QED
  BY <1>7, <1>8, <1>9

\* Every place of a body has a height, and only the one behind it has none.
LEMMA Heights ==
    ASSUME NEW p, Body(p)
    PROVE  /\ Len(p) \in Nat /\ Len(p) >= 1 /\ Out(p) = Len(p) + 1
           /\ Height(p, 1) = 1 /\ Height(p, Out(p)) = 0
           /\ \A i \in 1..Out(p) : Height(p, i) \in Nat
           /\ \A i \in 1..Len(p) : Height(p, i) >= 1
<1>1. Len(p) \in Nat /\ Len(p) >= 1
  <2>1. p \in Seq(Instruction) /\ p # <<>>
    BY DEF Body, WellFormed
  <2> QED
    BY <2>1, EmptySeq
<1>2. \A ops : Before(p, 1, ops) = 0
  <2> TAKE ops
  <2>1. {j \in 1..(1 - 1) : p[j].op \in ops} = {}
    OBVIOUS
  <2> QED
    BY <2>1, FS_EmptySet DEF Before
<1>3. Height(p, 1) = 1
  BY <1>2 DEF Height
<1>4. Height(p, Out(p)) = 0
  BY DEF Body, WellFormed
<1>5. \A i \in 1..Len(p) : Height(p, i) \in Nat /\ Height(p, i) >= 1
  BY HeightStep
<1>6. Out(p) = Len(p) + 1
  BY DEF Out
<1> QED
  BY <1>1, <1>3, <1>4, <1>5, <1>6

\* A construct has an end, which is not that of the function.
LEMMA EndFacts ==
    ASSUME NEW p, Body(p), NEW o \in 1..Len(p), p[o].op \in Openers
    PROVE  /\ EndOf(p, o) \in (o + 1)..(Len(p) - 1) /\ p[EndOf(p, o)].op = "end"
           /\ Height(p, EndOf(p, o)) = Height(p, o) + 1
           /\ \A j \in (o + 1)..EndOf(p, o) : Height(p, j) > Height(p, o)
<1> DEFINE h == Height(p, o)
           Low == {j \in (o + 1)..Out(p) : Height(p, j) <= h}
           IsEnd(e) == /\ p[e].op = "end" /\ Height(p, e) = h + 1
                       /\ \A j \in (o + 1)..(e - 1) : p[j].op = "end" => Height(p, j) > h + 1
<1>1. /\ Len(p) \in Nat /\ Out(p) = Len(p) + 1 /\ Height(p, Out(p)) = 0 /\ o \in Nat
      /\ h \in Nat /\ h >= 1 /\ Height(p, o + 1) = h + 1
      /\ \A i \in 1..Out(p) : Height(p, i) \in Nat
      /\ \A i \in 1..Len(p) : Height(p, i) >= 1
  <2>1. h \in Nat /\ h >= 1 /\ Height(p, o + 1) = h + 1
    BY HeightStep
  <2> HIDE DEF h
  <2> QED
    BY <2>1, Heights
<1> HIDE DEF h
<1>2. Low \subseteq Nat /\ Out(p) \in Low
  BY <1>1
<1>3. PICK m \in Low : \A j \in Low : m <= j
  <2> HIDE DEF Low
  <2> QED
    BY <1>2, Least
<1> DEFINE e == m - 1
<1>4. m \in (o + 1)..Out(p) /\ Height(p, m) <= h /\ m # o + 1
  BY <1>1, <1>3
<1>5. e \in (o + 1)..Len(p) /\ m = e + 1 /\ e \in 1..Len(p) /\ e \in (o + 1)..Out(p) /\ e \in Nat
  BY <1>1, <1>4
<1>6. \A j \in (o + 1)..e : Height(p, j) > h
  <2> TAKE j \in (o + 1)..e
  <2>1. j \in (o + 1)..Out(p) /\ j < m /\ j \in Nat /\ m \in Nat /\ Height(p, j) \in Nat
    BY <1>1, <1>5
  <2>2. j \notin Low
    <3> HIDE DEF Low
    <3> QED
      BY <1>3, <2>1
  <2> QED
    BY <1>1, <2>1, <2>2
<1> HIDE DEF e, Low
<1>7. p[e].op = "end" /\ Height(p, e) = h + 1
  <2>1. Height(p, e) > h /\ Height(p, e) \in Nat /\ Height(p, e + 1) <= h
    BY <1>1, <1>4, <1>5, <1>6
  <2>2. /\ Height(p, e + 1) \in Nat
        /\ Height(p, e + 1) = IF p[e].op \in Openers THEN Height(p, e) + 1
                              ELSE IF p[e].op = "end" THEN Height(p, e) - 1
                              ELSE Height(p, e)
    BY <1>5, HeightStep
  <2> QED
    BY <1>1, <2>1, <2>2
<1>8. \A j \in (o + 1)..(e - 1) : p[j].op = "end" => Height(p, j) > h + 1
  <2> SUFFICES ASSUME NEW j \in (o + 1)..(e - 1), p[j].op = "end" PROVE Height(p, j) > h + 1
    OBVIOUS
  <2>1. j \in (o + 1)..e /\ j + 1 \in (o + 1)..e /\ j \in 1..Len(p)
    BY <1>1, <1>5
  <2>2. Height(p, j + 1) > h
    BY <1>6, <2>1
  <2>3. Height(p, j + 1) = Height(p, j) - 1 /\ Height(p, j) \in Nat
    BY <2>1, HeightStep DEF Openers
  <2> QED
    BY <1>1, <2>2, <2>3
<1>9. IsEnd(e)
  BY <1>7, <1>8
<1>10. ASSUME NEW f \in (o + 1)..Len(p), IsEnd(f) PROVE f = e
  <2>1. f \in Nat /\ e \in Nat
    BY <1>1, <1>5
  <2>2. ASSUME f < e PROVE FALSE
    <3>1. f \in (o + 1)..(e - 1)
      BY <1>1, <1>5, <2>1, <2>2
    <3>2. Height(p, f) > h + 1
      BY <1>9, <1>10, <3>1
    <3> QED
      BY <1>1, <1>10, <3>2
  <2>3. ASSUME e < f PROVE FALSE
    <3>1. e \in (o + 1)..(f - 1)
      BY <1>1, <1>5, <2>1, <2>3
    <3>2. Height(p, e) > h + 1
      BY <1>9, <1>10, <3>1
    <3> QED
      BY <1>1, <1>9, <3>2
  <2> QED
    BY <2>1, <2>2, <2>3
<1>11. PartOf(p, o, "end") = {f \in (o + 1)..Len(p) : IsEnd(f)}
  BY DEF PartOf, h
<1>12. EndOf(p, o) = e
  <2>1. PartOf(p, o, "end") = {e}
    <3> HIDE DEF IsEnd
    <3> QED
      BY <1>5, <1>9, <1>10, <1>11
  <2> QED
    BY <2>1 DEF EndOf, The
<1>13. e <= Len(p) - 1
  <2>1. e # Len(p)
    <3>1. SUFFICES ASSUME e = Len(p) PROVE FALSE
      OBVIOUS
    <3>2. Height(p, e + 1) = h
      <4>1. Height(p, e + 1) = Height(p, e) - 1
        BY <1>5, <1>7, HeightStep DEF Openers
      <4> QED
        BY <1>1, <1>7, <4>1
    <3> QED
      BY <1>1, <3>1, <3>2
  <2> QED
    BY <1>1, <1>5, <2>1
<1>14. e \in (o + 1)..(Len(p) - 1)
  BY <1>1, <1>5, <1>13
<1> QED
  BY <1>6, <1>7, <1>12, <1>14 DEF h

\* The constructs that are open before place i, outermost first, by the places
\* of their first instructions; the function itself is the first of them.
Nested(p, i, q) ==
    /\ q \in Seq(Nat) /\ Len(q) >= 1
    /\ Len(q) = IF i <= Len(p) THEN Height(p, i) ELSE 1
    /\ \A k \in 2..Len(q) : /\ q[k] \in 1..(i - 1) /\ p[q[k]].op \in Openers
                             /\ Height(p, q[k]) = k - 1 /\ EndOf(p, q[k]) >= i

\* Nothing is open before the first instruction.
LEMMA NestedFirst ==
    ASSUME NEW p, Body(p)
    PROVE  Nested(p, 1, <<0>>)
<1>1. 1 <= Len(p) /\ Height(p, 1) = 1
  BY Heights
<1>2. <<0>> \in Seq(Nat) /\ Len(<<0>>) = 1
  OBVIOUS
<1> QED
  BY <1>1, <1>2 DEF Nested

\* An instruction that opens nothing and closes nothing.
LEMMA NestedSame ==
    ASSUME NEW p, Body(p), NEW i \in 1..Len(p), NEW q, Nested(p, i, q),
           p[i].op \notin Openers \cup {"end"}
    PROVE  Nested(p, i + 1, q) /\ i + 1 <= Len(p)
<1>1. Len(p) \in Nat /\ Height(p, i + 1) = Height(p, i) /\ Height(p, i) >= 1
  BY HeightStep, Heights
<1>2. i + 1 <= Len(p)
  <2>1. i + 1 # Out(p)
    BY <1>1, Heights
  <2> QED
    BY <1>1, <2>1 DEF Out
<1>3. Len(q) = IF i + 1 <= Len(p) THEN Height(p, i + 1) ELSE 1
  BY <1>1, <1>2 DEF Nested
<1>4. ASSUME NEW k \in 2..Len(q)
      PROVE  /\ q[k] \in 1..((i + 1) - 1) /\ p[q[k]].op \in Openers
             /\ Height(p, q[k]) = k - 1 /\ EndOf(p, q[k]) >= i + 1
  <2>1. /\ q[k] \in 1..(i - 1) /\ p[q[k]].op \in Openers
        /\ Height(p, q[k]) = k - 1 /\ EndOf(p, q[k]) >= i
    BY DEF Nested
  <2>2. q[k] \in 1..Len(p) /\ q[k] \in 1..((i + 1) - 1)
    BY <1>1, <2>1
  <2>3. EndOf(p, q[k]) \in (q[k] + 1)..(Len(p) - 1) /\ p[EndOf(p, q[k])].op = "end"
    BY <2>1, <2>2, EndFacts
  <2>4. EndOf(p, q[k]) # i
    BY <2>3
  <2> QED
    BY <2>1, <2>2, <2>3, <2>4
<1> QED
  BY <1>2, <1>3, <1>4 DEF Nested

\* One that opens a construct.
LEMMA NestedPush ==
    ASSUME NEW p, Body(p), NEW i \in 1..Len(p), NEW q, Nested(p, i, q), p[i].op \in Openers
    PROVE  Nested(p, i + 1, Append(q, i)) /\ i + 1 <= Len(p)
<1> DEFINE r == Append(q, i)
           n == Len(q)
<1>1. Len(p) \in Nat /\ Height(p, i + 1) = Height(p, i) + 1 /\ Height(p, i) >= 1 /\ Height(p, i) \in Nat
  BY HeightStep, Heights
<1>2. i + 1 <= Len(p)
  <2>1. i + 1 # Out(p)
    BY <1>1, Heights
  <2> QED
    BY <1>1, <2>1 DEF Out
<1>3. n \in Nat /\ n >= 1 /\ n = Height(p, i)
  BY DEF Nested
<1>4. r \in Seq(Nat) /\ Len(r) = n + 1 /\ r[n + 1] = i /\ \A k \in 1..n : r[k] = q[k]
  BY DEF Nested
<1>5. \A k \in 2..n : /\ q[k] \in 1..(i - 1) /\ p[q[k]].op \in Openers
                      /\ Height(p, q[k]) = k - 1 /\ EndOf(p, q[k]) >= i
  BY DEF Nested
<1> HIDE DEF r, n
<1>6. ASSUME NEW k \in 2..(n + 1)
      PROVE  /\ r[k] \in 1..((i + 1) - 1) /\ p[r[k]].op \in Openers
             /\ Height(p, r[k]) = k - 1 /\ EndOf(p, r[k]) >= i + 1
  <2>1. CASE k = n + 1
    <3>1. r[k] = i /\ Height(p, i) = k - 1
      BY <1>3, <1>4, <2>1
    <3>2. EndOf(p, i) \in (i + 1)..(Len(p) - 1)
      BY EndFacts
    <3> QED
      BY <3>1, <3>2
  <2>2. CASE k # n + 1
    <3>1. k \in 2..n /\ k \in 1..n
      BY <1>3, <2>2
    <3>2. /\ r[k] \in 1..(i - 1) /\ p[r[k]].op \in Openers
          /\ Height(p, r[k]) = k - 1 /\ EndOf(p, r[k]) >= i
      BY <1>4, <1>5, <3>1
    <3>3. r[k] \in 1..Len(p) /\ r[k] \in 1..((i + 1) - 1)
      BY <1>1, <3>2
    <3>4. EndOf(p, r[k]) \in (r[k] + 1)..(Len(p) - 1) /\ p[EndOf(p, r[k])].op = "end"
      BY <3>2, <3>3, EndFacts
    <3>5. EndOf(p, r[k]) # i
      BY <3>4 DEF Openers
    <3> QED
      BY <3>2, <3>3, <3>4, <3>5
  <2> QED
    BY <2>1, <2>2
<1>7. Nested(p, i + 1, r)
  BY <1>1, <1>2, <1>3, <1>4, <1>6 DEF Nested
<1> QED
  BY <1>2, <1>7 DEF r

\* An "end" closes the innermost one.
LEMMA NestedPop ==
    ASSUME NEW p, Body(p), NEW i \in 1..Len(p), NEW q, Nested(p, i, q), p[i].op = "end", Len(q) > 1
    PROVE  /\ Nested(p, i + 1, Front(q)) /\ i + 1 <= Len(p)
           /\ EndOf(p, q[Len(q)]) = i
           /\ Len(Front(q)) = Len(q) - 1 /\ \A k \in 1..(Len(q) - 1) : Front(q)[k] = q[k]
<1> DEFINE n == Len(q)
           r == Front(q)
<1>1. Len(p) \in Nat /\ Height(p, i + 1) = Height(p, i) - 1 /\ Height(p, i) \in Nat
  BY HeightStep, Heights DEF Openers
<1>2. n \in Nat /\ n > 1 /\ n = Height(p, i) /\ q \in Seq(Nat)
  BY DEF Nested
<1>3. i + 1 <= Len(p)
  <2>1. i + 1 # Out(p)
    BY <1>1, <1>2, Heights
  <2> QED
    BY <1>1, <2>1 DEF Out
<1>4. r \in Seq(Nat) /\ Len(r) = n - 1 /\ \A k \in 1..(n - 1) : r[k] = q[k]
  <2>1. r = SubSeq(q, 1, n - 1)
    BY DEF Front
  <2> HIDE DEF r
  <2> QED
    BY <1>2, <2>1
<1>5. \A k \in 2..n : /\ q[k] \in 1..(i - 1) /\ p[q[k]].op \in Openers
                      /\ Height(p, q[k]) = k - 1 /\ EndOf(p, q[k]) >= i
  BY DEF Nested
<1> HIDE DEF r, n
<1>6. ASSUME NEW k \in 2..n
      PROVE  /\ q[k] \in 1..Len(p) /\ EndOf(p, q[k]) \in (q[k] + 1)..(Len(p) - 1)
             /\ Height(p, EndOf(p, q[k])) = k
             /\ \A j \in (q[k] + 1)..EndOf(p, q[k]) : Height(p, j) > k - 1
  <2>1. q[k] \in 1..Len(p) /\ p[q[k]].op \in Openers /\ Height(p, q[k]) = k - 1
    BY <1>1, <1>5
  <2>2. /\ EndOf(p, q[k]) \in (q[k] + 1)..(Len(p) - 1)
        /\ Height(p, EndOf(p, q[k])) = Height(p, q[k]) + 1
        /\ \A j \in (q[k] + 1)..EndOf(p, q[k]) : Height(p, j) > Height(p, q[k])
    BY <2>1, EndFacts
  <2> QED
    BY <2>1, <2>2
<1>7. EndOf(p, q[n]) = i
  <2>1. n \in 2..n
    BY <1>2
  <2>2. SUFFICES ASSUME EndOf(p, q[n]) # i PROVE FALSE
    OBVIOUS
  <2>3. q[n] \in 1..(i - 1) /\ EndOf(p, q[n]) >= i
    BY <1>5, <2>1
  <2>4. EndOf(p, q[n]) \in Nat /\ i + 1 \in (q[n] + 1)..EndOf(p, q[n])
    BY <1>6, <2>1, <2>2, <2>3
  <2>5. Height(p, i + 1) > n - 1
    BY <1>6, <2>1, <2>4
  <2> QED
    BY <1>1, <1>2, <2>5
<1>8. ASSUME NEW k \in 2..(n - 1)
      PROVE  /\ r[k] \in 1..((i + 1) - 1) /\ p[r[k]].op \in Openers
             /\ Height(p, r[k]) = k - 1 /\ EndOf(p, r[k]) >= i + 1
  <2>1. k \in 2..n /\ k # n /\ k \in 1..(n - 1)
    BY <1>2
  <2>2. /\ r[k] = q[k] /\ r[k] \in 1..(i - 1) /\ p[r[k]].op \in Openers
        /\ Height(p, r[k]) = k - 1 /\ EndOf(p, r[k]) >= i
    BY <1>4, <1>5, <2>1
  <2>3. EndOf(p, r[k]) # i
    BY <1>2, <1>6, <2>1, <2>2
  <2>4. EndOf(p, r[k]) \in Nat
    BY <1>6, <2>1, <2>2
  <2> QED
    BY <2>2, <2>3, <2>4
<1>9. Nested(p, i + 1, r)
  <2>1. Len(r) >= 1 /\ Len(r) = IF i + 1 <= Len(p) THEN Height(p, i + 1) ELSE 1
    BY <1>1, <1>2, <1>3, <1>4
  <2>2. \A k \in 2..Len(r) : /\ r[k] \in 1..((i + 1) - 1) /\ p[r[k]].op \in Openers
                              /\ Height(p, r[k]) = k - 1 /\ EndOf(p, r[k]) >= i + 1
    BY <1>4, <1>8
  <2> QED
    BY <1>4, <2>1, <2>2 DEF Nested
<1> QED
  BY <1>3, <1>4, <1>7, <1>9 DEF r, n

\* Without one it closes the function, and is the last.
LEMMA NestedLast ==
    ASSUME NEW p, Body(p), NEW i \in 1..Len(p), NEW q, Nested(p, i, q), p[i].op = "end", Len(q) = 1
    PROVE  Nested(p, i + 1, q) /\ i + 1 = Out(p)
<1>1. Len(p) \in Nat /\ Height(p, i + 1) = Height(p, i) - 1 /\ Height(p, i) = 1
  <2>1. Len(p) \in Nat /\ Height(p, i + 1) = Height(p, i) - 1
    BY HeightStep, Heights DEF Openers
  <2>2. i <= Len(p)
    BY <2>1
  <2> QED
    BY <2>1, <2>2 DEF Nested
<1>2. i + 1 = Out(p)
  <2>1. ~(i + 1 \in 1..Len(p))
    BY <1>1, Heights
  <2> QED
    BY <1>1, <2>1 DEF Out
<1>3. ~(i + 1 <= Len(p))
  BY <1>1, <1>2 DEF Out
<1>4. q \in Seq(Nat) /\ Len(q) = IF i + 1 <= Len(p) THEN Height(p, i + 1) ELSE 1
  BY <1>3 DEF Nested
<1>5. \A k \in 2..Len(q) : FALSE
  OBVIOUS
<1> QED
  BY <1>2, <1>4, <1>5 DEF Nested

\* Where a branch leads, in terms of the open constructs.
LEMMA BranchInto ==
    ASSUME NEW p, Body(p), NEW i \in 1..Len(p), NEW q, Nested(p, i, q), NEW d \in Nat, d < Len(q)
    PROVE  BranchTarget(p, i, d) =
               IF d + 1 = Len(q) THEN Out(p)
               ELSE IF p[q[Len(q) - d]].op = "loop" THEN q[Len(q) - d] + 1
                                                    ELSE EndOf(p, q[Len(q) - d]) + 1
<1> DEFINE n == Len(q)
           k == n - d
<1>1. Len(p) \in Nat /\ n \in Nat /\ n >= 1 /\ n = Height(p, i)
  BY Heights DEF Nested
<1>2. CASE d + 1 = n
  BY <1>1, <1>2 DEF BranchTarget
<1>3. CASE d + 1 # n
  <2>1. k \in 2..n
    BY <1>1, <1>3
  <2>2. /\ q[k] \in 1..(i - 1) /\ p[q[k]].op \in Openers
        /\ Height(p, q[k]) = k - 1 /\ EndOf(p, q[k]) >= i
    BY <2>1 DEF Nested
  <2>3. Height(p, i) - d - 1 = k - 1
    BY <1>1
  <2> HIDE DEF n, k
  <2>4. q[k] \in Labelled(p, i, d)
    BY <2>2, <2>3 DEF Labelled
  <2>5. ASSUME NEW o \in 1..(i - 1), p[o].op \in Openers, Height(p, o) = k - 1, EndOf(p, o) >= i
        PROVE  o \in 1..Len(p) /\ \A j \in (o + 1)..(i - 1) : Height(p, j) > k - 1
    <3>1. o \in 1..Len(p)
      BY <1>1, <2>5
    <3>2. /\ EndOf(p, o) \in (o + 1)..(Len(p) - 1)
          /\ \A j \in (o + 1)..EndOf(p, o) : Height(p, j) > Height(p, o)
      BY <2>5, <3>1, EndFacts
    <3>3. \A j \in (o + 1)..(i - 1) : j \in (o + 1)..EndOf(p, o)
      BY <2>5, <3>2
    <3> QED
      BY <2>5, <3>1, <3>2, <3>3
  <2>6. ASSUME NEW o \in Labelled(p, i, d) PROVE o = q[k]
    <3>1. o \in 1..(i - 1) /\ p[o].op \in Openers /\ Height(p, o) = k - 1 /\ EndOf(p, o) >= i
      BY <2>3 DEF Labelled
    <3>2. ASSUME o < q[k] PROVE FALSE
      <4>1. q[k] \in (o + 1)..(i - 1)
        BY <2>2, <3>1, <3>2
      <4>2. Height(p, q[k]) > k - 1
        BY <2>5, <3>1, <4>1
      <4> QED
        BY <2>1, <2>2, <4>2
    <3>3. ASSUME q[k] < o PROVE FALSE
      <4>1. o \in (q[k] + 1)..(i - 1)
        BY <2>2, <3>1, <3>3
      <4>2. Height(p, o) > k - 1
        BY <2>2, <2>5, <4>1
      <4> QED
        BY <2>1, <3>1, <4>2
    <3> QED
      BY <2>2, <3>1, <3>2, <3>3
  <2>7. Labelled(p, i, d) = {q[k]}
    BY <2>4, <2>6
  <2>8. The(Labelled(p, i, d)) = q[k]
    BY <2>7 DEF The
  <2>9. d + 1 # Height(p, i)
    BY <1>1, <1>3 DEF n
  <2> QED
    BY <1>3, <2>8, <2>9 DEF BranchTarget, n, k
<1> QED
  BY <1>2, <1>3
-----------------------------------------------------------------------------
(* which edges an instruction adds                                         *)

Rows(s, a) == IF a <= Len(s) THEN ToSet(s[a]) ELSE {}

\* From s to t the current block got edges to the blocks of B, and no other
\* block got any.
Drawn(s, t, B) ==
    /\ Graph(t) /\ Len(t) >= Len(s)
    /\ \A a \in 1..Len(t) : ToSet(t[a]) = Rows(s, a) \cup (IF a = current THEN B ELSE {})

\* A graph is drawn from itself by no edge.
LEMMA DrawNone ==
    ASSUME NEW s, Graph(s)
    PROVE  Drawn(s, s, {})
<1>1. Len(s) \in Nat
  BY DEF Graph
<1> QED
  BY <1>1 DEF Drawn, Rows

\* One more edge from the current block.
LEMMA DrawEdge ==
    ASSUME NEW s, NEW t, NEW B, Graph(s), Drawn(s, t, B), current \in 1..Len(s), NEW b \in 1..Len(t)
    PROVE  /\ Drawn(s, AddEdge(t, current, b), B \cup {b})
           /\ Len(AddEdge(t, current, b)) = Len(t)
<1> DEFINE u == AddEdge(t, current, b)
<1>1. Graph(t) /\ current \in 1..Len(t) /\ Len(s) \in Nat /\ Len(t) \in Nat /\ Len(t) >= Len(s)
  BY DEF Drawn, Graph
<1>2. Graph(u) /\ Len(u) = Len(t)
  BY <1>1, AddEdgeType
<1>3. DOMAIN t = 1..Len(t) /\ t[current] \in Seq(1..Len(t))
  <2>1. t \in Seq(Seq(1..Len(t))) /\ current \in 1..Len(t)
    BY <1>1 DEF Graph
  <2>2. DOMAIN t = 1..Len(t)
    BY <2>1, LenProperties
  <2> QED
    BY <2>1, <2>2, ElementOfSeq
<1>4. \A x \in 1..Len(t) : x # current => u[x] = t[x]
  BY <1>3 DEF AddEdge
<1>5. ToSet(u[current]) = ToSet(t[current]) \cup {b}
  <2>1. CASE b \in ToSet(t[current])
    BY <2>1 DEF AddEdge
  <2>2. CASE b \notin ToSet(t[current])
    <3> DEFINE r == t[current]
    <3>1. u[current] = Append(r, b)
      BY <1>1, <1>3, <2>2 DEF AddEdge
    <3>2. /\ Len(r) \in Nat /\ Len(Append(r, b)) = Len(r) + 1 /\ Append(r, b)[Len(r) + 1] = b
          /\ \A i \in 1..Len(r) : Append(r, b)[i] = r[i]
          /\ DOMAIN r = 1..Len(r) /\ DOMAIN Append(r, b) = 1..(Len(r) + 1)
      BY <1>3
    <3> HIDE DEF r
    <3>3. ToSet(Append(r, b)) = ToSet(r) \cup {b}
      <4> DEFINE m == Len(r)
                 w == Append(r, b)
      <4>1. ToSet(r) = {r[i] : i \in 1..m} /\ ToSet(w) = {w[i] : i \in 1..(m + 1)}
        BY <3>2 DEF ToSet
      <4>2. \A i \in 1..(m + 1) : i \in 1..m \/ i = m + 1
        BY <3>2
      <4>3. \A i \in 1..m : i \in 1..(m + 1)
        BY <3>2
      <4>4. m + 1 \in 1..(m + 1)
        BY <3>2
      <4>5. w[m + 1] = b /\ \A i \in 1..m : w[i] = r[i]
        BY <3>2
      <4> HIDE DEF w, m
      <4> QED
        BY <4>1, <4>2, <4>3, <4>4, <4>5 DEF w
    <3> QED
      BY <3>1, <3>3 DEF r
  <2> QED
    BY <2>1, <2>2
<1> HIDE DEF u
<1>6. ASSUME NEW a \in 1..Len(u)
      PROVE  ToSet(u[a]) = Rows(s, a) \cup (IF a = current THEN B \cup {b} ELSE {})
  <2>1. ToSet(t[a]) = Rows(s, a) \cup (IF a = current THEN B ELSE {})
    BY <1>2 DEF Drawn
  <2>2. CASE a = current
    BY <1>5, <2>1, <2>2
  <2>3. CASE a # current
    BY <1>2, <1>4, <2>1, <2>3
  <2> QED
    BY <2>2, <2>3
<1> QED
  BY <1>1, <1>2, <1>6 DEF Drawn, u

\* New blocks have no edges.
LEMMA DrawBlocks ==
    ASSUME NEW s, NEW t, NEW B, Graph(s), Drawn(s, t, B), current \in 1..Len(s), NEW k \in Nat
    PROVE  Drawn(s, NewBlocks(t, k), B) /\ Len(NewBlocks(t, k)) = Len(t) + k
<1> DEFINE u == NewBlocks(t, k)
<1>1. Graph(t) /\ Len(s) \in Nat /\ Len(t) \in Nat /\ Len(t) >= Len(s)
  BY DEF Drawn, Graph
<1>2. Grown(t, t)
  BY <1>1 DEF Grown
<1>3. /\ Graph(u) /\ Len(u) = Len(t) + k
      /\ \A b \in (Len(t) + 1)..(Len(t) + k) : u[b] = <<>>
      /\ \A b \in 1..Len(t) : u[b] = t[b]
  BY <1>1, <1>2, NewBlocksGrow
<1> HIDE DEF u
<1>4. ASSUME NEW a \in 1..Len(u)
      PROVE  ToSet(u[a]) = Rows(s, a) \cup (IF a = current THEN B ELSE {})
  <2>1. CASE a <= Len(t)
    <3>1. a \in 1..Len(t)
      BY <1>1, <2>1
    <3> QED
      BY <1>3, <3>1 DEF Drawn
  <2>2. CASE ~(a <= Len(t))
    <3>1. a \in (Len(t) + 1)..(Len(t) + k) /\ a # current /\ ~(a <= Len(s))
      BY <1>1, <1>3, <2>2
    <3>2. ToSet(<<>>) = {}
      BY DEF ToSet
    <3> QED
      BY <1>3, <3>1, <3>2 DEF Rows
  <2> QED
    BY <2>1, <2>2
<1> QED
  BY <1>1, <1>3, <1>4 DEF Drawn, u

\* The blocks that a branch names.
Named(to) == {Target(to[k]) : k \in 1..Len(to)}

\* A branch draws an edge to each block that it names, and no other.
LEMMA DrawBranches ==
    ASSUME CfgTypeOK, pos <= Len(prog), \A k \in 1..Len(prog[pos].to) : prog[pos].to[k] < Len(labelStack)
    PROVE  /\ Drawn(successors, AddBranches(successors), Named(prog[pos].to))
           /\ Len(AddBranches(successors)) = Len(successors)
<1> DEFINE to == prog[pos].to
           m == Len(to)
           S == {g \in Seq(Seq(Blocks)) : Len(g) = Len(successors)}
           Upto(k) == {Target(to[i]) : i \in 1..k}
<1>1. Graph(successors) /\ current \in 1..Len(successors) /\ Len(successors) \in Nat
  BY DEF CfgTypeOK, Graph, Blocks
<1>2. \A g : g \in S <=> Graph(g) /\ Len(g) = Len(successors)
  BY <1>1 DEF Graph, Blocks
<1> HIDE DEF S
<1>3. \A g \in S : \A d \in Nat :
          d < Len(labelStack) => AddEdge(g, current, Target(d)) \in S
  <2> TAKE g \in S
  <2> TAKE d \in Nat
  <2> HAVE d < Len(labelStack)
  <2>1. Target(d) \in 1..Len(g)
    BY <1>2, TargetType DEF Blocks
  <2> QED
    BY <1>1, <1>2, <2>1, AddEdgeType
<1>4. successors \in S
  BY <1>1, <1>2
<1>5. /\ to \in Seq(Nat) /\ m \in Nat
      /\ \E f \in [0..m -> S] : BranchEdges(f, successors, to)
  BY <1>3, <1>4, AddBranchesRun
<1>6. PICK f \in [0..m -> S] : BranchEdges(f, successors, to)
  BY <1>5
<1>7. \A k \in 1..m : to[k] \in Nat /\ to[k] < Len(labelStack)
  BY <1>5
<1> HIDE DEF to
<1>8. f[0] = successors /\ f[m] = AddBranches(successors)
  BY <1>6 DEF BranchEdges
<1> DEFINE T == {k \in 0..m : Len(f[k]) = Len(successors) /\ Drawn(successors, f[k], Upto(k))}
<1>9. 0 \in T
  <2>1. Upto(0) = {}
    OBVIOUS
  <2>2. Drawn(successors, f[0], Upto(0))
    BY <1>1, <1>8, <2>1, DrawNone
  <2>3. Len(f[0]) = Len(successors) /\ 0 \in 0..m
    BY <1>5, <1>8
  <2> QED
    BY <2>2, <2>3
<1>10. ASSUME NEW k \in 0..(m - 1), k \in T PROVE k + 1 \in T
  <2>1. k + 1 \in 0..m /\ k + 1 \in 1..m /\ (k + 1) - 1 = k
    BY <1>5
  <2>2. f[k + 1] = AddEdge(f[k], current, Target(to[k + 1]))
    BY <1>6, <1>7, <2>1 DEF BranchEdges
  <2>3. Upto(k + 1) = Upto(k) \cup {Target(to[k + 1])}
    <3>1. \A i \in 1..(k + 1) : i \in 1..k \/ i = k + 1
      OBVIOUS
    <3>2. k + 1 \in 1..(k + 1) /\ \A i \in 1..k : i \in 1..(k + 1)
      OBVIOUS
    <3> QED
      BY <3>1, <3>2
  <2>4. Len(f[k]) = Len(successors) /\ Drawn(successors, f[k], Upto(k))
    BY <1>10
  <2>5. Target(to[k + 1]) \in 1..Len(f[k])
    BY <1>7, <2>1, <2>4, TargetType DEF Blocks
  <2>6. Len(f[k + 1]) = Len(successors) /\ Drawn(successors, f[k + 1], Upto(k + 1))
    <3> DEFINE e == Target(to[k + 1])
               g == f[k]
               B == Upto(k)
    <3>1. f[k + 1] = AddEdge(g, current, e) /\ Upto(k + 1) = B \cup {e} /\ e \in 1..Len(g)
          /\ Len(g) = Len(successors) /\ Drawn(successors, g, B)
      BY <2>2, <2>3, <2>4, <2>5
    <3> HIDE DEF e, g, B, Upto, m, T
    <3>2. Drawn(successors, AddEdge(g, current, e), B \cup {e}) /\ Len(AddEdge(g, current, e)) = Len(g)
      BY <1>1, <3>1, DrawEdge
    <3> QED
      BY <3>1, <3>2
  <2> QED
    BY <2>1, <2>6
<1> HIDE DEF T
<1>11. m \in T
  <2>1. 0..m \subseteq T
    BY <1>5, <1>9, <1>10, Induct
  <2> QED
    BY <1>5, <2>1
<1>12. Len(f[m]) = Len(successors) /\ Drawn(successors, f[m], Upto(m))
  BY <1>11 DEF T
<1> QED
  BY <1>8, <1>12 DEF Named, to
-----------------------------------------------------------------------------
(* the edges are the transfers of the program                              *)

\* Place j of the body is, or will be, in block b: it was read into it, it is
\* the next one, it is behind the function or behind an open construct.
At(q, j, b) == \/ j \in 1..(pos - 1) /\ b = home[j]
               \/ j = pos /\ pos <= Len(prog) /\ b = current
               \/ j = Out(prog) /\ b = Exit
               \/ \E k \in 2..Len(q) : j = EndOf(prog, q[k]) + 1 /\ b = labelStack[k].after

\* The labels are those of the open constructs.
Shape(q) == /\ Body(prog) /\ Nested(prog, pos, q)
            /\ pos \in 1..Out(prog) /\ Len(home) = pos - 1
            /\ Len(labelStack) = Len(q) /\ labelStack[1] = Label(Exit, Exit)

\* A branch to a loop leads to its first instruction, any other to what
\* follows the construct.
AimedAt(q, k) == IF prog[q[k]].op = "loop" THEN At(q, q[k] + 1, labelStack[k].target)
                                           ELSE labelStack[k].target = labelStack[k].after
Aimed(q) == \A k \in 2..Len(q) : AimedAt(q, k)

\* No block that ended in a jump is filled again.
Live == current \notin terminating /\ \A k \in 2..Len(labelStack) : labelStack[k].after \notin terminating

\* Every transfer stays in its block or has an edge, and every edge is one.
Linked(q) == \A i \in 1..(pos - 1) : \A j \in Transfers(prog, i) : \E b \in Blocks :
                 At(q, j, b) /\ ((j = i + 1 /\ b = home[i]) \/ Edge(home[i], b))
Justified(q) == \A a, b \in Blocks : Edge(a, b) =>
                    \E i \in 1..(pos - 1) : home[i] = a /\ \E j \in Transfers(prog, i) : At(q, j, b)

Drawing(q) == Shape(q) /\ Aimed(q) /\ Live /\ Linked(q) /\ Justified(q)
Faithful == ~HasElse => \E q : Drawing(q)

\* The next instruction is read; constructs stay open, or end here.
Reads == /\ pos <= Len(prog) /\ prog' = prog /\ pos' = pos + 1 /\ home' = Append(home, current)
Kept(q, r) == \A k \in 2..Len(q) :
    \/ k \in 2..Len(r) /\ r[k] = q[k] /\ labelStack'[k] = labelStack[k]
    \/ EndOf(prog, q[k]) = pos /\ pos + 1 <= Len(prog) /\ current' = labelStack[k].after

\* Reading an instruction puts it into the current block.
LEMMA HomeGrows ==
    ASSUME CfgTypeOK, NEW q, Shape(q), Reads
    PROVE  /\ pos \in Nat /\ pos >= 1 /\ Len(prog) \in Nat
           /\ \A i \in 1..(pos - 1) : home'[i] = home[i]
           /\ home'[pos] = current
           /\ \A i \in 1..(pos' - 1) : i = pos \/ i \in 1..(pos - 1)
           /\ \A i \in 1..pos : i \in 1..(pos' - 1)
<1>1. pos \in Nat /\ pos >= 1 /\ Len(prog) \in Nat /\ pos' = pos + 1
  BY Heights DEF Shape, Reads, Out
<1>2. home \in Seq(Blocks) /\ Len(home) = pos - 1 /\ home' = Append(home, current)
  BY DEF CfgTypeOK, Shape, Reads
<1>3. \A i \in 1..(pos - 1) : home'[i] = home[i]
  BY <1>1, <1>2
<1>4. home'[pos] = current
  BY <1>1, <1>2
<1> QED
  BY <1>1, <1>3, <1>4

\* Where a place is does not change any more.
LEMMA AtStays ==
    ASSUME CfgTypeOK, NEW q, NEW r, Shape(q), Reads, Kept(q, r), NEW j, NEW b, At(q, j, b)
    PROVE  At(r, j, b)'
<1>1. /\ pos \in Nat /\ pos >= 1
      /\ \A i \in 1..(pos - 1) : home'[i] = home[i]
      /\ home'[pos] = current /\ \A i \in 1..pos : i \in 1..(pos' - 1)
  BY HomeGrows
<1>2. prog' = prog /\ pos' = pos + 1
  BY DEF Reads
<1>3. CASE j \in 1..(pos - 1) /\ b = home[j]
  <2>1. j \in 1..pos
    BY <1>1, <1>3
  <2> QED
    BY <1>1, <1>3, <2>1 DEF At
<1>4. CASE j = pos /\ pos <= Len(prog) /\ b = current
  <2>1. pos \in 1..pos
    BY <1>1
  <2> QED
    BY <1>1, <1>4, <2>1 DEF At
<1>5. CASE j = Out(prog) /\ b = Exit
  BY <1>2, <1>5 DEF At, Exit
<1>6. ASSUME NEW k \in 2..Len(q), j = EndOf(prog, q[k]) + 1, b = labelStack[k].after
      PROVE  At(r, j, b)'
  <2>1. CASE k \in 2..Len(r) /\ r[k] = q[k] /\ labelStack'[k] = labelStack[k]
    BY <1>2, <1>6, <2>1 DEF At
  <2>2. CASE EndOf(prog, q[k]) = pos /\ pos + 1 <= Len(prog) /\ current' = labelStack[k].after
    BY <1>2, <1>6, <2>2 DEF At
  <2> QED
    BY <2>1, <2>2 DEF Kept
<1> QED
  BY <1>3, <1>4, <1>5, <1>6 DEF At

\* The next place is in the block that is filled next.
LEMMA AtNext ==
    ASSUME NEW r, Reads, pos + 1 <= Len(prog), NEW j, NEW b, j = pos + 1, b = current'
    PROVE  At(r, j, b)'
<1>1. prog' = prog /\ pos' = pos + 1
  BY DEF Reads
<1> QED
  BY <1>1 DEF At

\* What was drawn before a step is justified after it, and so is what it draws.
LEMMA EdgesCarry ==
    ASSUME CfgTypeOK, NEW q, NEW r, Shape(q), Linked(q), Justified(q), Reads, Kept(q, r),
           NEW B, Drawn(successors, successors', B),
           \A j \in Transfers(prog, pos) :
               \E b \in Blocks' : At(r, j, b)' /\ (b \in B \/ (j = pos + 1 /\ b = current)),
           \A b \in B : \E j \in Transfers(prog, pos) : At(r, j, b)'
    PROVE  Linked(r)' /\ Justified(r)'
<1>1. /\ pos \in Nat /\ pos >= 1
      /\ \A i \in 1..(pos - 1) : home'[i] = home[i]
      /\ home'[pos] = current
      /\ \A i \in 1..(pos' - 1) : i = pos \/ i \in 1..(pos - 1)
      /\ \A i \in 1..pos : i \in 1..(pos' - 1)
  BY HomeGrows
<1>2. prog' = prog /\ pos' = pos + 1
  BY DEF Reads
<1>3. \A j, b : At(q, j, b) => At(r, j, b)'
  BY AtStays
<1>4. /\ Len(successors) \in Nat /\ Len(successors') \in Nat /\ Len(successors') >= Len(successors)
      /\ Blocks \subseteq Blocks' /\ current \in Blocks /\ \A i \in 1..(pos - 1) : home[i] \in Blocks
  <2>1. Len(successors) \in Nat /\ Len(successors') \in Nat /\ Len(successors') >= Len(successors)
    BY DEF Drawn, CfgTypeOK, Graph
  <2>2. home \in Seq(Blocks) /\ Len(home) = pos - 1 /\ current \in Blocks
    BY DEF CfgTypeOK, Shape
  <2>3. \A i \in 1..(pos - 1) : home[i] \in Blocks
    BY <2>2, ElementOfSeq
  <2> QED
    BY <2>1, <2>2, <2>3 DEF Blocks
<1>5. \A a, b : a \in Blocks' =>
          (Leads(successors', a, b) <=> b \in Rows(successors, a) \/ (a = current /\ b \in B))
  BY DEF Drawn, Leads, Blocks
<1>6. \A a, b : a \in Blocks => (b \in Rows(successors, a) <=> Edge(a, b))
  BY <1>4 DEF Rows, Edge, Blocks
<1>7. \A a, b : a \in Blocks /\ Edge(a, b) => Leads(successors', a, b)
  BY <1>4, <1>5, <1>6
<1>8. Linked(r)'
  <2> SUFFICES ASSUME NEW i \in 1..(pos' - 1), NEW j \in Transfers(prog, i)
               PROVE  \E b \in Blocks' :
                         At(r, j, b)' /\ ((j = i + 1 /\ b = home'[i]) \/ Leads(successors', home'[i], b))
    BY <1>2 DEF Linked, Edge, Leads
  <2>1. CASE i = pos
    <3>1. PICK b \in Blocks' : At(r, j, b)' /\ (b \in B \/ (j = pos + 1 /\ b = current))
      BY <2>1
    <3>2. b \in B => Leads(successors', current, b)
      BY <1>4, <1>5
    <3> QED
      BY <1>1, <2>1, <3>1, <3>2
  <2>2. CASE i \in 1..(pos - 1)
    <3>1. PICK b \in Blocks : At(q, j, b) /\ ((j = i + 1 /\ b = home[i]) \/ Edge(home[i], b))
      BY <2>2 DEF Linked
    <3>2. b \in Blocks' /\ At(r, j, b)' /\ home'[i] = home[i] /\ home[i] \in Blocks
      BY <1>1, <1>3, <1>4, <2>2, <3>1
    <3>3. Edge(home[i], b) => Leads(successors', home'[i], b)
      BY <1>7, <3>2
    <3> QED
      BY <3>1, <3>2, <3>3
  <2> QED
    BY <1>1, <2>1, <2>2
<1>9. Justified(r)'
  <2> SUFFICES ASSUME NEW a \in Blocks', NEW b \in Blocks', Leads(successors', a, b)
               PROVE  \E i \in 1..(pos' - 1) :
                          home'[i] = a /\ \E j \in Transfers(prog, i) : At(r, j, b)'
    BY <1>2 DEF Justified, Edge, Leads
  <2>1. CASE a = current /\ b \in B
    <3>1. pos \in 1..(pos' - 1)
      BY <1>1
    <3> QED
      BY <1>1, <2>1, <3>1
  <2>2. CASE b \in Rows(successors, a)
    <3>1. a \in Blocks
      BY <1>4, <2>2 DEF Rows, Blocks
    <3>2. Edge(a, b)
      BY <1>6, <2>2, <3>1
    <3>3. b \in Blocks
      <4>1. successors[a] \in Seq(Blocks)
        BY <3>1, ElementOfSeq DEF CfgTypeOK, Blocks
      <4> QED
        BY <3>2, <4>1 DEF Edge, ToSet
    <3>4. PICK i \in 1..(pos - 1) : home[i] = a /\ \E j \in Transfers(prog, i) : At(q, j, b)
      BY <3>1, <3>2, <3>3 DEF Justified
    <3>5. i \in 1..pos
      BY <1>1
    <3> QED
      BY <1>1, <1>3, <3>4, <3>5
  <2> QED
    BY <1>5, <2>1, <2>2
<1> QED
  BY <1>8, <1>9
-----------------------------------------------------------------------------

\* A branch leads to the block that its label names.
LEMMA TargetAt ==
    ASSUME CfgTypeOK, NEW q, Shape(q), Aimed(q), pos <= Len(prog), NEW d \in Nat, d < Len(q)
    PROVE  At(q, BranchTarget(prog, pos, d), Target(d))
<1> DEFINE n == Len(q)
           k == n - d
<1>1. n \in Nat /\ n >= 1 /\ d < n /\ Len(labelStack) = n /\ pos \in 1..Len(prog) /\ Body(prog)
  BY Heights DEF Shape, Nested, Out
<1>2. Target(d) = labelStack[k].target
  BY <1>1 DEF Target
<1>3. BranchTarget(prog, pos, d) =
               IF d + 1 = n THEN Out(prog)
               ELSE IF prog[q[k]].op = "loop" THEN q[k] + 1 ELSE EndOf(prog, q[k]) + 1
  BY <1>1, BranchInto DEF Shape
<1> HIDE DEF n
<1>4. CASE d + 1 = n
  <2>1. k = 1 /\ Target(d) = Exit
    BY <1>1, <1>2, <1>4 DEF Shape, Label
  <2> QED
    BY <1>3, <1>4, <2>1 DEF At
<1>5. CASE d + 1 # n
  <2>1. k \in 2..n
    BY <1>1, <1>5
  <2> HIDE DEF k
  <2>2. AimedAt(q, k)
    BY <2>1 DEF Aimed, n
  <2>3. CASE prog[q[k]].op = "loop"
    BY <1>2, <1>3, <1>5, <2>2, <2>3 DEF AimedAt
  <2>4. CASE prog[q[k]].op # "loop"
    <3>1. Target(d) = labelStack[k].after
      BY <1>2, <2>2, <2>4 DEF AimedAt
    <3>2. BranchTarget(prog, pos, d) = EndOf(prog, q[k]) + 1
      BY <1>3, <1>5, <2>4
    <3> QED
      BY <2>1, <3>1, <3>2 DEF At, n
  <2> QED
    BY <2>3, <2>4
<1> QED
  BY <1>4, <1>5

\* The targets of a branch are at the blocks that it names, and the other way round.
LEMMA BranchesAt ==
    ASSUME CfgTypeOK, NEW q, Shape(q), Aimed(q), pos <= Len(prog)
    PROVE  /\ \A k \in 1..Len(prog[pos].to) : prog[pos].to[k] < Len(labelStack)
           /\ \A j \in Targets(prog, pos) : \E b \in Named(prog[pos].to) : b \in Blocks /\ At(q, j, b)
           /\ \A b \in Named(prog[pos].to) : \E j \in Targets(prog, pos) : At(q, j, b)
<1> DEFINE to == prog[pos].to
<1>1. /\ pos \in 1..Len(prog) /\ Body(prog) /\ Len(labelStack) = Len(q) /\ Len(q) = Height(prog, pos)
      /\ Len(q) \in Nat
  BY Heights DEF Shape, Nested, Out
<1>2. to \in Seq(Nat) /\ \A k \in 1..Len(to) : to[k] < Height(prog, pos)
  <2>1. prog[pos] \in Instruction
    BY <1>1 DEF Body
  <2>2. prog[pos].to \in Seq(Nat)
    BY <2>1 DEF Instruction
  <2>3. \A k \in 1..Len(prog[pos].to) : prog[pos].to[k] < Height(prog, pos)
    BY <1>1 DEF Body, WellFormed
  <2> QED
    BY <2>2, <2>3
<1>3. Targets(prog, pos) = {BranchTarget(prog, pos, to[k]) : k \in 1..Len(to)}
  BY DEF Targets
<1>4. Named(to) = {Target(to[k]) : k \in 1..Len(to)}
  BY DEF Named
<1> HIDE DEF to
<1>5. ASSUME NEW k \in 1..Len(to)
      PROVE  /\ At(q, BranchTarget(prog, pos, to[k]), Target(to[k])) /\ Target(to[k]) \in Blocks
             /\ to[k] < Len(labelStack)
  <2>1. to[k] \in Nat /\ to[k] < Len(q)
    BY <1>1, <1>2
  <2> QED
    BY <1>1, <2>1, TargetAt, TargetType
<1> QED
  BY <1>3, <1>4, <1>5 DEF to

\* What a step has to show.
Same(q, r, k) == k \in 2..Len(q) /\ r[k] = q[k] /\ labelStack'[k] = labelStack[k]
Draws(q, r, B) ==
    /\ Drawn(successors, successors', B)
    /\ \A j \in Transfers(prog, pos) :
          \E b \in Blocks' : At(r, j, b)' /\ (b \in B \/ (j = pos + 1 /\ b = current))
    /\ \A b \in B : \E j \in Transfers(prog, pos) : At(r, j, b)'

LEMMA DrawingStep ==
    ASSUME CfgTypeOK, NEW q, NEW r, Drawing(q), Reads, Kept(q, r), Live', Nested(prog, pos + 1, r),
           Len(labelStack') = Len(r), labelStack'[1] = labelStack[1],
           \A k \in 2..Len(r) : Same(q, r, k) \/ AimedAt(r, k)',
           NEW B, Draws(q, r, B)
    PROVE  Drawing(r)'
<1>1. prog' = prog /\ pos' = pos + 1 /\ pos <= Len(prog) /\ home' = Append(home, current)
  BY DEF Reads
<1>2. Shape(q) /\ Aimed(q) /\ Linked(q) /\ Justified(q)
  BY DEF Drawing
<1>3. Len(home') = pos' - 1 /\ pos' \in 1..Out(prog')
  <2>1. pos \in 1..Out(prog) /\ Len(home) = pos - 1 /\ home \in Seq(Blocks) /\ Len(prog) \in Nat
    BY <1>2, Heights DEF Shape, CfgTypeOK
  <2> QED
    BY <1>1, <2>1 DEF Out
<1>4. Shape(r)'
  BY <1>1, <1>2, <1>3 DEF Shape, Body, Label, Exit
<1>5. Aimed(r)'
  <2> SUFFICES ASSUME NEW k \in 2..Len(r), Same(q, r, k) PROVE AimedAt(r, k)'
    BY DEF Aimed
  <2>1. k \in 2..Len(q) /\ r[k] = q[k] /\ labelStack'[k] = labelStack[k]
    BY DEF Same
  <2>2. AimedAt(q, k)
    BY <1>2, <2>1 DEF Aimed
  <2>3. CASE prog[q[k]].op = "loop"
    <3>1. PICK j, b : j = q[k] + 1 /\ b = labelStack[k].target
      OBVIOUS
    <3>2. At(q, j, b)
      BY <2>2, <2>3, <3>1 DEF AimedAt
    <3>3. At(r, j, b)'
      BY <1>2, <3>2, AtStays
    <3>4. (At(r, r[k] + 1, labelStack[k].target))'
      BY <2>1, <3>1, <3>3 DEF At
    <3> QED
      BY <1>1, <2>1, <2>3, <3>4 DEF AimedAt
  <2>4. CASE prog[q[k]].op # "loop"
    BY <1>1, <2>1, <2>2, <2>4 DEF AimedAt
  <2> QED
    BY <2>3, <2>4
<1>6. Linked(r)' /\ Justified(r)'
  BY <1>2, EdgesCarry DEF Draws
<1> QED
  BY <1>4, <1>5, <1>6 DEF Drawing

\* A step that opens and closes nothing.
LEMMA DrawingSame ==
    ASSUME CfgTypeOK, NEW q, Drawing(q), Reads, labelStack' = labelStack, Live',
           prog[pos].op \notin Openers \cup {"end"}
    PROVE  /\ pos + 1 <= Len(prog) /\ Kept(q, q)
           /\ \A B : Draws(q, q, B) => Drawing(q)'
<1>1. /\ Body(prog) /\ Nested(prog, pos, q) /\ pos \in 1..Len(prog) /\ Len(labelStack) = Len(q)
  BY Heights DEF Drawing, Shape, Reads, Out
<1>2. Nested(prog, pos + 1, q) /\ pos + 1 <= Len(prog)
  BY <1>1, NestedSame
<1>3. Kept(q, q)
  BY DEF Kept
<1>4. \A k \in 2..Len(q) : Same(q, q, k)
  BY DEF Same
<1>5. ASSUME NEW B, Draws(q, q, B) PROVE Drawing(q)'
  BY <1>1, <1>2, <1>3, <1>4, <1>5, DrawingStep
<1> QED
  BY <1>2, <1>3, <1>5

\* A step that opens a construct.
LEMMA DrawingPush ==
    ASSUME CfgTypeOK, NEW q, Drawing(q), Reads, NEW t, NEW a, labelStack' = Append(labelStack, Label(t, a)),
           Live', prog[pos].op \in Openers
    PROVE  \E r : /\ pos + 1 <= Len(prog) /\ Kept(q, r)
                  /\ Len(r) = Len(q) + 1 /\ r[Len(r)] = pos /\ Len(r) \in 2..Len(r)
                  /\ labelStack'[Len(r)] = Label(t, a)
                  /\ \A B : Draws(q, r, B) /\ AimedAt(r, Len(r))' => Drawing(r)'
<1>1. PICK r : r = Append(q, pos)
  OBVIOUS
<1> DEFINE n == Len(q)
<1>2. /\ Body(prog) /\ Nested(prog, pos, q) /\ pos \in 1..Len(prog) /\ Len(labelStack) = n
      /\ n \in Nat /\ n >= 1 /\ q \in Seq(Nat)
  BY Heights DEF Drawing, Shape, Reads, Out, Nested
<1>3. Nested(prog, pos + 1, r) /\ pos + 1 <= Len(prog)
  BY <1>1, <1>2, NestedPush
<1>4. Len(r) = n + 1 /\ r[n + 1] = pos /\ \A k \in 1..n : r[k] = q[k]
  BY <1>1, <1>2
<1>5. /\ Len(labelStack') = n + 1 /\ labelStack'[n + 1] = Label(t, a)
      /\ \A k \in 1..n : labelStack'[k] = labelStack[k]
  <2>1. labelStack \in Seq([target : Blocks, after : Blocks])
    BY LabelFacts
  <2> QED
    BY <1>2, <2>1
<1> HIDE DEF n
<1>6. \A k \in 2..n : k \in 2..(n + 1) /\ k \in 1..n
  BY <1>2
<1>7. Kept(q, r)
  BY <1>4, <1>5, <1>6 DEF Kept, n
<1>8. \A k \in 2..(n + 1) : k = n + 1 \/ k \in 2..n
  BY <1>2
<1>9. ASSUME NEW B, Draws(q, r, B), AimedAt(r, Len(r))' PROVE Drawing(r)'
  <2>1. \A k \in 2..Len(r) : Same(q, r, k) \/ AimedAt(r, k)'
    <3> TAKE k \in 2..Len(r)
    <3>1. CASE k \in 2..n
      BY <1>4, <1>5, <1>6, <3>1 DEF Same, n
    <3>2. CASE k = n + 1
      BY <1>4, <1>9, <3>2
    <3> QED
      BY <1>4, <1>8, <3>1, <3>2
  <2>2. 1 \in 1..n
    BY <1>2
  <2>3. labelStack'[1] = labelStack[1] /\ Len(labelStack') = Len(r)
    BY <1>4, <1>5, <2>2
  <2> QED
    BY <1>3, <1>7, <1>9, <2>1, <2>3, DrawingStep
<1>10. n + 1 \in 2..(n + 1)
  BY <1>2
<1> QED
  BY <1>3, <1>4, <1>5, <1>7, <1>9, <1>10 DEF n

\* A step that closes one.
LEMMA DrawingPop ==
    ASSUME CfgTypeOK, NEW q, Drawing(q), Reads, Len(labelStack) > 1, labelStack' = Front(labelStack),
           current' = Last(labelStack).after, Live', prog[pos].op = "end"
    PROVE  \E r : /\ pos + 1 <= Len(prog) /\ Kept(q, r)
                  /\ \A B : Draws(q, r, B) => Drawing(r)'
<1>1. PICK r : r = Front(q)
  OBVIOUS
<1> DEFINE n == Len(q)
<1>2. /\ Body(prog) /\ Nested(prog, pos, q) /\ pos \in 1..Len(prog) /\ Len(labelStack) = n
      /\ n \in Nat /\ n > 1
  BY Heights DEF Drawing, Shape, Reads, Out, Nested
<1>3. /\ Nested(prog, pos + 1, r) /\ pos + 1 <= Len(prog) /\ EndOf(prog, q[n]) = pos
      /\ Len(r) = n - 1 /\ \A k \in 1..(n - 1) : r[k] = q[k]
  BY <1>1, <1>2, NestedPop
<1>4. Len(labelStack') = n - 1 /\ \A i \in 1..(n - 1) : labelStack'[i] = labelStack[i]
  <2>1. labelStack' = SubSeq(labelStack, 1, n - 1)
    BY <1>2 DEF Front
  <2>2. labelStack \in Seq([target : Blocks, after : Blocks])
    BY LabelFacts
  <2> QED
    BY <1>2, <2>1, <2>2
<1>5. current' = labelStack[n].after
  BY <1>2, LabelFacts
<1> HIDE DEF n
<1>6. \A k \in 2..n : k = n \/ (k \in 2..(n - 1) /\ k \in 1..(n - 1))
  BY <1>2
<1>7. Kept(q, r)
  <2> SUFFICES ASSUME NEW k \in 2..n
               PROVE  \/ k \in 2..Len(r) /\ r[k] = q[k] /\ labelStack'[k] = labelStack[k]
                      \/ EndOf(prog, q[k]) = pos /\ pos + 1 <= Len(prog) /\ current' = labelStack[k].after
    BY DEF Kept, n
  <2>1. CASE k = n
    BY <1>3, <1>5, <2>1
  <2>2. CASE k \in 2..(n - 1) /\ k \in 1..(n - 1)
    BY <1>3, <1>4, <2>2
  <2> QED
    BY <1>6, <2>1, <2>2
<1>8. \A k \in 2..(n - 1) : k \in 2..n /\ k \in 1..(n - 1)
  BY <1>2
<1>9. \A k \in 2..Len(r) : Same(q, r, k)
  BY <1>3, <1>4, <1>8 DEF Same, n
<1>10. 1 \in 1..(n - 1)
  BY <1>2
<1>11. labelStack'[1] = labelStack[1] /\ Len(labelStack') = Len(r)
  BY <1>3, <1>4, <1>10
<1>12. ASSUME NEW B, Draws(q, r, B) PROVE Drawing(r)'
  BY <1>3, <1>7, <1>9, <1>11, <1>12, DrawingStep
<1> QED
  BY <1>3, <1>7, <1>12
-----------------------------------------------------------------------------

\* Where control goes from each kind of instruction.
LEMMA TransfersAre ==
    ASSUME NEW p, NEW i
    PROVE  /\ p[i].op \in {"block", "loop", "end", "plain"} => Transfers(p, i) = {i + 1}
           /\ p[i].op \in {"br", "br_table"} => Transfers(p, i) = Targets(p, i)
           /\ p[i].op = "br_if" => Transfers(p, i) = Targets(p, i) \cup {i + 1}
           /\ p[i].op = "return" => Transfers(p, i) = {Out(p)}
           /\ p[i].op = "unreachable" => Transfers(p, i) = {}
           /\ p[i].op = "if" /\ PartOf(p, i, "else") = {} => Transfers(p, i) = {i + 1, EndOf(p, i) + 1}
<1>1. p[i].op \in {"block", "loop", "end", "plain"} => Transfers(p, i) = {i + 1}
  BY DEF Transfers
<1>2. p[i].op \in {"br", "br_table"} => Transfers(p, i) = Targets(p, i)
  BY DEF Transfers
<1>3. p[i].op = "br_if" => Transfers(p, i) = Targets(p, i) \cup {i + 1}
  BY DEF Transfers
<1>4. p[i].op = "return" => Transfers(p, i) = {Out(p)}
  BY DEF Transfers
<1>5. p[i].op = "unreachable" => Transfers(p, i) = {}
  BY DEF Transfers
<1>6. p[i].op = "if" /\ PartOf(p, i, "else") = {} => Transfers(p, i) = {i + 1, EndOf(p, i) + 1}
  BY DEF Transfers
<1> QED
  BY <1>1, <1>2, <1>3, <1>4, <1>5, <1>6

\* What holds at every step of buildCfg, and what follows for the next block.
LEMMA DrawingFacts ==
    ASSUME CfgTypeOK, Waiting, NEW q, Drawing(q), Reads
    PROVE  /\ Graph(successors) /\ current \in 1..Len(successors) /\ Len(successors) \in Nat
           /\ Fresh = Len(successors) + 1 /\ Fresh \notin terminating /\ Fresh + 1 \notin terminating
           /\ Exit \in 1..Len(successors)
           /\ Drawn(successors, successors, {})
           /\ current \notin terminating
           /\ Len(labelStack) \in Nat /\ Len(labelStack) >= 1
           /\ \A k \in 2..Len(labelStack) : /\ labelStack[k].after \notin terminating
                                             /\ labelStack[k].after # current
           /\ pos \in 1..Len(prog) /\ Body(prog) /\ Shape(q) /\ Aimed(q)
<1>1. Len(successors) \in Nat /\ Len(successors) >= 2 /\ successors \in Seq(Seq(Blocks))
      /\ current \in Blocks /\ terminating \subseteq Blocks
  BY DEF CfgTypeOK
<1>2. Graph(successors)
  BY <1>1 DEF Graph, Blocks
<1>3. Fresh \notin Blocks /\ Fresh + 1 \notin Blocks /\ Exit \in 1..Len(successors)
  BY <1>1 DEF Fresh, Blocks, Exit
<1>4. pos \in 1..Len(prog) /\ Body(prog)
  BY Heights DEF Drawing, Shape, Reads, Out
<1>5. \A k \in 2..Len(labelStack) : /\ labelStack[k].after \notin terminating
                                     /\ labelStack[k].after # current
  BY DEF Drawing, Live, Waiting, Awaited
<1>6. Drawn(successors, successors, {})
  BY <1>2, DrawNone
<1>7. current \notin terminating /\ Shape(q) /\ Aimed(q)
  BY DEF Drawing, Live
<1> QED
  BY <1>1, <1>2, <1>3, <1>4, <1>5, <1>6, <1>7, LabelFacts DEF Blocks, Fresh

\* Nothing that is filled now or later has ended in a jump.
LEMMA LivePush ==
    ASSUME CfgTypeOK, NEW q, Drawing(q), NEW t, NEW a, labelStack' = Append(labelStack, Label(t, a)),
           a \notin terminating, current' \notin terminating, terminating' = terminating
    PROVE  Live'
<1> DEFINE n == Len(labelStack)
<1>1. labelStack \in Seq([target : Blocks, after : Blocks]) /\ n \in Nat /\ n >= 1
  BY LabelFacts
<1>2. /\ Len(labelStack') = n + 1 /\ labelStack'[n + 1].after = a
      /\ \A k \in 1..n : labelStack'[k] = labelStack[k]
  BY <1>1 DEF Label
<1>3. \A k \in 2..n : labelStack[k].after \notin terminating
  BY DEF Drawing, Live
<1> HIDE DEF n
<1>4. \A k \in 2..(n + 1) : k = n + 1 \/ (k \in 2..n /\ k \in 1..n)
  BY <1>1
<1>5. \A k \in 2..(n + 1) : labelStack'[k].after \notin terminating
  BY <1>2, <1>3, <1>4
<1> QED
  BY <1>2, <1>5 DEF Live

\* An instruction that only computes.
LEMMA ReadPlainDraws ==
    ASSUME CfgTypeOK, Waiting, NEW q, Drawing(q), ReadPlain
    PROVE  \E r : Drawing(r)'
<1>1. /\ Reads /\ prog[pos].op = "plain" /\ successors' = successors /\ terminating' = terminating
      /\ labelStack' = labelStack /\ current' = current
  BY DEF ReadPlain, Read, Reads
<1>2. Live'
  BY <1>1 DEF Drawing, Live
<1>3. pos + 1 <= Len(prog) /\ \A B : Draws(q, q, B) => Drawing(q)'
  BY <1>1, <1>2, DrawingSame DEF Openers
<1>4. Transfers(prog, pos) = {pos + 1}
  BY <1>1, TransfersAre
<1>5. \A j, b : j = pos + 1 /\ b = current => At(q, j, b)'
  BY <1>1, <1>3, AtNext
<1>6. Drawn(successors, successors', {}) /\ current \in Blocks'
  BY <1>1, DrawingFacts DEF Blocks
<1>7. Draws(q, q, {})
  BY <1>4, <1>5, <1>6 DEF Draws
<1> QED
  BY <1>3, <1>7

\* A "block" keeps the block of the graph, and has one to leave to.
LEMMA ReadBlockDraws ==
    ASSUME CfgTypeOK, Waiting, NEW q, Drawing(q), ReadBlock
    PROVE  \E r : Drawing(r)'
<1>1. /\ Reads /\ prog[pos].op = "block" /\ successors' = NewBlocks(successors, 1)
      /\ terminating' = terminating /\ current' = current
      /\ labelStack' = Append(labelStack, Label(Fresh, Fresh))
  BY DEF ReadBlock, Read, Reads
<1>2. Live'
  <2>1. PICK f : f = Fresh
    OBVIOUS
  <2>2. f \notin terminating /\ current \notin terminating
    BY <1>1, <2>1, DrawingFacts
  <2> QED
    BY <1>1, <2>1, <2>2, LivePush
<1>3. PICK r : /\ pos + 1 <= Len(prog) /\ r[Len(r)] = pos
               /\ labelStack'[Len(r)] = Label(Fresh, Fresh)
               /\ \A B : Draws(q, r, B) /\ AimedAt(r, Len(r))' => Drawing(r)'
  <2>1. prog[pos].op \in Openers
    BY <1>1 DEF Openers
  <2>2. PICK f : f = Fresh
    OBVIOUS
  <2> QED
    BY <1>1, <1>2, <2>1, <2>2, DrawingPush
<1>4. AimedAt(r, Len(r))'
  <2>1. prog'[r[Len(r)]].op # "loop"
    BY <1>1, <1>3 DEF Reads
  <2>2. labelStack'[Len(r)].target = labelStack'[Len(r)].after
    BY <1>3 DEF Label
  <2> QED
    BY <2>1, <2>2 DEF AimedAt
<1>5. Transfers(prog, pos) = {pos + 1}
  BY <1>1, TransfersAre
<1>6. \A j, b : j = pos + 1 /\ b = current => At(r, j, b)'
  BY <1>1, <1>3, AtNext
<1>7. Drawn(successors, successors', {}) /\ current \in Blocks'
  <2>1. Drawn(successors, successors', {}) /\ Len(successors') = Len(successors) + 1
    BY <1>1, DrawingFacts, DrawBlocks
  <2>2. current \in 1..Len(successors) /\ Len(successors) \in Nat
    BY <1>1, DrawingFacts
  <2> QED
    BY <2>1, <2>2 DEF Blocks
<1>8. Draws(q, r, {})
  BY <1>5, <1>6, <1>7 DEF Draws
<1> QED
  BY <1>3, <1>4, <1>8

\* A "loop" begins a block that branches come back to.
LEMMA ReadLoopDraws ==
    ASSUME CfgTypeOK, Waiting, NEW q, Drawing(q), ReadLoop
    PROVE  \E r : Drawing(r)'
<1>1. PICK f, g : f = Fresh /\ g = Fresh + 1
  OBVIOUS
<1>2. /\ Reads /\ prog[pos].op = "loop"
      /\ successors' = AddEdge(NewBlocks(successors, 2), current, f)
      /\ terminating' = terminating /\ current' = f
      /\ labelStack' = Append(labelStack, Label(f, g))
  BY <1>1 DEF ReadLoop, Read, Reads
<1>3. f \notin terminating /\ g \notin terminating /\ f = Len(successors) + 1
      /\ Len(successors) \in Nat /\ current \in 1..Len(successors) /\ Graph(successors)
      /\ Drawn(successors, successors, {})
  BY <1>1, <1>2, DrawingFacts
<1>4. Live'
  BY <1>2, <1>3, LivePush
<1>5. PICK r : /\ pos + 1 <= Len(prog) /\ r[Len(r)] = pos
               /\ labelStack'[Len(r)] = Label(f, g)
               /\ \A B : Draws(q, r, B) /\ AimedAt(r, Len(r))' => Drawing(r)'
  <2>1. prog[pos].op \in Openers
    BY <1>2 DEF Openers
  <2> QED
    BY <1>2, <1>4, <2>1, DrawingPush
<1>6. \A j, b : j = pos + 1 /\ b = f => At(r, j, b)'
  BY <1>2, <1>5, AtNext
<1>7. AimedAt(r, Len(r))'
  <2>1. PICK j : j = pos + 1
    OBVIOUS
  <2>2. At(r, j, f)'
    BY <1>6, <2>1
  <2>3. labelStack'[Len(r)].target = f /\ r[Len(r)] + 1 = j
    BY <1>5, <2>1 DEF Label
  <2>4. (At(r, r[Len(r)] + 1, labelStack[Len(r)].target))'
    BY <2>2, <2>3 DEF At
  <2>5. prog'[r[Len(r)]].op = "loop"
    BY <1>2, <1>5 DEF Reads
  <2> QED
    BY <2>4, <2>5 DEF AimedAt
<1>8. Transfers(prog, pos) = {pos + 1}
  BY <1>2, TransfersAre
<1>9. Drawn(successors, successors', {f}) /\ f \in Blocks'
  <2>1. /\ Drawn(successors, NewBlocks(successors, 2), {})
        /\ Len(NewBlocks(successors, 2)) = Len(successors) + 2
    BY <1>3, DrawBlocks
  <2>2. f \in 1..(Len(successors) + 2)
    BY <1>3
  <2>3. Drawn(successors, successors', {} \cup {f}) /\ Len(successors') = Len(successors) + 2
    BY <1>2, <1>3, <2>1, <2>2, DrawEdge
  <2>4. {} \cup {f} = {f}
    OBVIOUS
  <2> QED
    BY <2>2, <2>3, <2>4 DEF Blocks
<1>10. Draws(q, r, {f})
  BY <1>6, <1>8, <1>9 DEF Draws
<1> QED
  BY <1>5, <1>7, <1>10

\* Without an "else", the false branch leads past the construct.
LEMMA ReadIfDraws ==
    ASSUME CfgTypeOK, Waiting, NEW q, Drawing(q), ReadIf, ~HasElse
    PROVE  \E r : Drawing(r)'
<1>1. PICK f, g : f = Fresh /\ g = Fresh + 1
  OBVIOUS
<1>2. /\ Reads /\ prog[pos].op = "if"
      /\ successors' = AddEdge(AddEdge(NewBlocks(successors, 2), current, f), current, g)
      /\ terminating' = terminating /\ current' = f
      /\ labelStack' = Append(labelStack, Label(g, g))
  BY <1>1 DEF ReadIf, Read, Reads
<1>3. f \notin terminating /\ g \notin terminating /\ f = Len(successors) + 1
      /\ Len(successors) \in Nat /\ current \in 1..Len(successors) /\ Graph(successors)
      /\ Drawn(successors, successors, {})
  BY <1>1, <1>2, DrawingFacts
<1>4. Live'
  BY <1>2, <1>3, LivePush
<1>5. PICK r : /\ pos + 1 <= Len(prog) /\ r[Len(r)] = pos /\ Len(r) \in 2..Len(r)
               /\ labelStack'[Len(r)] = Label(g, g)
               /\ \A B : Draws(q, r, B) /\ AimedAt(r, Len(r))' => Drawing(r)'
  <2>1. prog[pos].op \in Openers
    BY <1>2 DEF Openers
  <2> QED
    BY <1>2, <1>4, <2>1, DrawingPush
<1>6. AimedAt(r, Len(r))'
  <2>1. prog'[r[Len(r)]].op # "loop"
    BY <1>2, <1>5 DEF Reads
  <2>2. labelStack'[Len(r)].target = labelStack'[Len(r)].after
    BY <1>5 DEF Label
  <2> QED
    BY <2>1, <2>2 DEF AimedAt
<1>7. \A j, b : j = pos + 1 /\ b = f => At(r, j, b)'
  BY <1>2, <1>5, AtNext
<1>8. \A j, b : j = EndOf(prog, pos) + 1 /\ b = g => At(r, j, b)'
  <2>1. labelStack'[Len(r)].after = g
    BY <1>5 DEF Label
  <2> QED
    BY <1>2, <1>5, <2>1 DEF At, Reads
<1>9. Transfers(prog, pos) = {pos + 1, EndOf(prog, pos) + 1}
  <2>1. PartOf(prog, pos, "else") = {}
    <3>1. \A j \in (pos + 1)..Len(prog) : j \in 1..Len(prog)
      <4>1. pos \in 1..Len(prog)
        BY <1>2, DrawingFacts
      <4> QED
        BY <4>1
    <3>2. \A j \in (pos + 1)..Len(prog) : prog[j].op # "else"
      BY <3>1 DEF HasElse
    <3> QED
      BY <3>2 DEF PartOf
  <2> QED
    BY <1>2, <2>1, TransfersAre
<1>10. Drawn(successors, successors', {f, g}) /\ f \in Blocks' /\ g \in Blocks'
  <2> DEFINE t == AddEdge(NewBlocks(successors, 2), current, f)
  <2>1. /\ Drawn(successors, NewBlocks(successors, 2), {})
        /\ Len(NewBlocks(successors, 2)) = Len(successors) + 2
    BY <1>3, DrawBlocks
  <2>2. f \in 1..(Len(successors) + 2) /\ g \in 1..(Len(successors) + 2)
    BY <1>1, <1>3
  <2>3. Drawn(successors, t, {} \cup {f}) /\ Len(t) = Len(successors) + 2
    BY <1>3, <2>1, <2>2, DrawEdge
  <2> HIDE DEF t
  <2>4. Drawn(successors, AddEdge(t, current, g), ({} \cup {f}) \cup {g})
        /\ Len(AddEdge(t, current, g)) = Len(successors) + 2
    BY <1>3, <2>2, <2>3, DrawEdge
  <2>5. ({} \cup {f}) \cup {g} = {f, g}
    OBVIOUS
  <2> QED
    BY <1>2, <2>2, <2>4, <2>5 DEF Blocks, t
<1>11. Draws(q, r, {f, g})
  BY <1>7, <1>8, <1>9, <1>10 DEF Draws
<1> QED
  BY <1>5, <1>6, <1>11

\* An "end" leads behind the construct, unless control cannot get there.
LEMMA ReadEndDraws ==
    ASSUME CfgTypeOK, Waiting, NEW q, Drawing(q), ReadEnd
    PROVE  \E r : Drawing(r)'
<1>1. PICK a : a = Last(labelStack).after
  OBVIOUS
<1>2. /\ Reads /\ prog[pos].op = "end" /\ Len(labelStack) > 1
      /\ successors' = IF current \in terminating THEN successors ELSE AddEdge(successors, current, a)
      /\ terminating' = terminating /\ current' = Last(labelStack).after
      /\ labelStack' = Front(labelStack)
  BY <1>1 DEF ReadEnd, Read, Reads
<1>3. /\ current \notin terminating /\ Len(successors) \in Nat /\ current \in 1..Len(successors)
      /\ Graph(successors) /\ Drawn(successors, successors, {})
      /\ \A k \in 2..Len(labelStack) : labelStack[k].after \notin terminating
  BY <1>2, DrawingFacts
<1>4. a \in 1..Len(successors) /\ a \notin terminating
  <2>1. /\ Len(labelStack) \in Nat /\ a = labelStack[Len(labelStack)].after
        /\ \A i \in 1..Len(labelStack) : labelStack[i].after \in Blocks
    BY <1>1, LabelFacts
  <2>2. Len(labelStack) \in 1..Len(labelStack) /\ Len(labelStack) \in 2..Len(labelStack)
    BY <1>2, <2>1
  <2> QED
    BY <1>3, <2>1, <2>2 DEF Blocks
<1>5. Live'
  <2> DEFINE n == Len(labelStack)
  <2>1. n \in Nat /\ n > 1 /\ labelStack \in Seq([target : Blocks, after : Blocks])
    BY <1>2, LabelFacts
  <2>2. Len(labelStack') = n - 1 /\ \A i \in 1..(n - 1) : labelStack'[i] = labelStack[i]
    <3>1. labelStack' = SubSeq(labelStack, 1, n - 1)
      BY <1>2 DEF Front
    <3> QED
      BY <2>1, <3>1
  <2>3. \A k \in 2..n : labelStack[k].after \notin terminating
    BY <1>3
  <2> HIDE DEF n
  <2>4. \A k \in 2..(n - 1) : k \in 2..n /\ k \in 1..(n - 1)
    BY <2>1
  <2> QED
    BY <1>1, <1>2, <1>4, <2>2, <2>3, <2>4 DEF Live
<1>6. PICK r : pos + 1 <= Len(prog) /\ \A B : Draws(q, r, B) => Drawing(r)'
  BY <1>2, <1>5, DrawingPop
<1>7. \A j, b : j = pos + 1 /\ b = a => At(r, j, b)'
  BY <1>1, <1>2, <1>6, AtNext
<1>8. Transfers(prog, pos) = {pos + 1}
  BY <1>2, TransfersAre
<1>9. Drawn(successors, successors', {a}) /\ a \in Blocks'
  <2>1. /\ Drawn(successors, successors', {} \cup {a})
        /\ Len(successors') = Len(successors)
    BY <1>2, <1>3, <1>4, DrawEdge
  <2>2. {} \cup {a} = {a}
    OBVIOUS
  <2> QED
    BY <1>4, <2>1, <2>2 DEF Blocks
<1>10. Draws(q, r, {a})
  BY <1>7, <1>8, <1>9 DEF Draws
<1> QED
  BY <1>6, <1>10

\* The last "end" leaves the function.
LEMMA ReadLastEndDraws ==
    ASSUME CfgTypeOK, Waiting, NEW q, Drawing(q), ReadLastEnd
    PROVE  \E r : Drawing(r)'
<1>1. /\ Reads /\ prog[pos].op = "end" /\ Len(labelStack) <= 1
      /\ successors' = AddEdge(successors, current, Exit)
      /\ terminating' = terminating /\ current' = current /\ labelStack' = labelStack
  BY DEF ReadLastEnd, Read, Reads
<1>2. Live'
  BY <1>1 DEF Drawing, Live
<1>3. /\ Body(prog) /\ Nested(prog, pos, q) /\ pos \in 1..Len(prog) /\ Len(q) = 1
      /\ Len(labelStack) = 1
  <2>1. Nested(prog, pos, q) /\ Len(labelStack) = Len(q)
    BY DEF Drawing, Shape
  <2>2. Len(labelStack) \in Nat /\ Len(labelStack) >= 1
    BY LabelFacts
  <2>3. Len(labelStack) = 1
    <3>1. \A m \in Nat : m >= 1 /\ m <= 1 => m = 1
      OBVIOUS
    <3> QED
      BY <1>1, <2>2, <3>1, Zenon
  <2> QED
    BY <1>1, <2>1, <2>3, DrawingFacts
<1>4. Nested(prog, pos + 1, q) /\ pos + 1 = Out(prog)
  BY <1>1, <1>3, NestedLast
<1>5. Kept(q, q) /\ \A k \in 2..Len(q) : Same(q, q, k)
  BY <1>1 DEF Kept, Same
<1>6. \A j, b : j = pos + 1 /\ b = Exit => At(q, j, b)'
  BY <1>1, <1>4 DEF At, Reads, Exit
<1>7. Transfers(prog, pos) = {pos + 1}
  BY <1>1, TransfersAre
<1>8. Drawn(successors, successors', {Exit}) /\ Exit \in Blocks'
  <2>1. /\ Graph(successors) /\ current \in 1..Len(successors) /\ Exit \in 1..Len(successors)
        /\ Drawn(successors, successors, {})
    BY <1>1, DrawingFacts
  <2>2. Drawn(successors, successors', {} \cup {Exit}) /\ Len(successors') = Len(successors)
    BY <1>1, <2>1, DrawEdge
  <2>3. {} \cup {Exit} = {Exit}
    OBVIOUS
  <2> QED
    BY <2>1, <2>2, <2>3 DEF Blocks
<1>9. Draws(q, q, {Exit})
  BY <1>6, <1>7, <1>8 DEF Draws
<1> QED
  BY <1>1, <1>2, <1>3, <1>4, <1>5, <1>9, DrawingStep

\* What a branch draws, for a step that keeps the labels.
LEMMA BranchesDraw ==
    ASSUME CfgTypeOK, NEW q, Drawing(q), Reads, Kept(q, q)
    PROVE  /\ Drawn(successors, AddBranches(successors), Named(prog[pos].to))
           /\ Len(AddBranches(successors)) = Len(successors)
           /\ \A j \in Targets(prog, pos) :
                 \E b \in Named(prog[pos].to) : b \in Blocks /\ At(q, j, b)'
           /\ \A b \in Named(prog[pos].to) : \E j \in Targets(prog, pos) : At(q, j, b)'
<1>1. Shape(q) /\ Aimed(q) /\ pos <= Len(prog)
  BY DEF Drawing, Reads
<1> DEFINE N == Named(prog[pos].to)
           T == Targets(prog, pos)
<1>2. /\ \A k \in 1..Len(prog[pos].to) : prog[pos].to[k] < Len(labelStack)
      /\ \A j \in T : \E b \in N : b \in Blocks /\ At(q, j, b)
      /\ \A b \in N : \E j \in T : At(q, j, b)
  BY <1>1, BranchesAt
<1>3. Drawn(successors, AddBranches(successors), N) /\ Len(AddBranches(successors)) = Len(successors)
  BY <1>1, <1>2, DrawBranches
<1>4. \A j, b : At(q, j, b) => At(q, j, b)'
  BY <1>1, AtStays
<1> HIDE DEF N, T
<1>5. \A j \in T : \E b \in N : b \in Blocks /\ At(q, j, b)'
  BY <1>2, <1>4
<1>6. \A b \in N : \E j \in T : At(q, j, b)'
  BY <1>2, <1>4
<1> QED
  BY <1>3, <1>5, <1>6 DEF N, T

\* A jump draws its branches, or the way out, and nothing falls through.
LEMMA ReadJumpDraws ==
    ASSUME CfgTypeOK, Waiting, NEW q, Drawing(q), ReadJump
    PROVE  \E r : Drawing(r)'
<1> DEFINE s == successors
           t == IF prog[pos].op = "return" THEN AddEdge(s, current, Exit) ELSE AddBranches(s)
<1>1. /\ Reads /\ prog[pos].op \in {"br", "br_table", "return", "unreachable"}
      /\ successors' = NewBlocks(t, 1) /\ current' = Fresh
      /\ terminating' = terminating \cup {current} /\ labelStack' = labelStack
  BY DEF ReadJump, Read, Reads
<1> HIDE DEF t
<1>2. /\ Graph(s) /\ Len(s) \in Nat /\ current \in 1..Len(s) /\ Exit \in 1..Len(s)
      /\ Drawn(s, s, {}) /\ Fresh = Len(s) + 1 /\ Fresh \notin terminating
      /\ pos \in 1..Len(prog) /\ Body(prog)
      /\ \A k \in 2..Len(labelStack) : /\ labelStack[k].after \notin terminating
                                        /\ labelStack[k].after # current
  BY <1>1, DrawingFacts
<1>3. Live'
  <2>1. Fresh # current
    BY <1>2
  <2> QED
    BY <1>1, <1>2, <2>1 DEF Live
<1>4. pos + 1 <= Len(prog) /\ Kept(q, q) /\ \A B : Draws(q, q, B) => Drawing(q)'
  BY <1>1, <1>3, DrawingSame DEF Openers
<1>5. Len(s) + 1 \in Nat /\ \A b \in Blocks : b \in 1..(Len(s) + 1)
  BY <1>2 DEF Blocks
<1>6. ASSUME NEW B, Drawn(s, t, B), Len(t) = Len(s)
      PROVE  /\ Drawn(s, successors', B) /\ Blocks' = 1..(Len(s) + 1)
             /\ \A b \in Blocks : b \in Blocks'
  <2>1. Drawn(s, NewBlocks(t, 1), B) /\ Len(NewBlocks(t, 1)) = Len(t) + 1
    <3>1. 1 \in Nat
      OBVIOUS
    <3>2. Graph(s) /\ Drawn(s, t, B) /\ current \in 1..Len(s)
      BY <1>2, <1>6
    <3> HIDE DEF s
    <3> QED
      BY <3>1, <3>2, DrawBlocks
  <2>2. Drawn(s, successors', B) /\ Len(successors') = Len(s) + 1
    BY <1>1, <1>6, <2>1
  <2> QED
    BY <1>5, <2>2 DEF Blocks
<1>7. CASE prog[pos].op = "return"
  <2>1. Transfers(prog, pos) = {Out(prog)}
    BY <1>7, TransfersAre
  <2>2. \A j, b : j = Out(prog) /\ b = Exit => At(q, j, b)'
    BY <1>1 DEF At, Reads, Exit
  <2>3. Drawn(s, t, {Exit}) /\ Len(t) = Len(s)
    <3>1. Drawn(s, AddEdge(s, current, Exit), {} \cup {Exit}) /\ Len(AddEdge(s, current, Exit)) = Len(s)
      BY <1>2, DrawEdge
    <3>2. {} \cup {Exit} = {Exit}
      OBVIOUS
    <3> QED
      BY <1>7, <3>1, <3>2 DEF t
  <2>4. Drawn(s, successors', {Exit}) /\ Exit \in Blocks'
    BY <1>2, <1>6, <2>3 DEF Blocks
  <2>5. Draws(q, q, {Exit})
    BY <2>1, <2>2, <2>4 DEF Draws
  <2> QED
    BY <1>4, <2>5
<1>8. CASE prog[pos].op # "return"
  <2> DEFINE N == Named(prog[pos].to)
             T == Targets(prog, pos)
  <2>1. /\ Drawn(s, AddBranches(s), N) /\ Len(AddBranches(s)) = Len(s)
        /\ \A j \in T : \E b \in N : b \in Blocks /\ At(q, j, b)'
        /\ \A b \in N : \E j \in T : At(q, j, b)'
    BY <1>1, <1>4, BranchesDraw
  <2>2. Drawn(s, successors', N) /\ \A b \in Blocks : b \in Blocks'
    BY <1>6, <1>8, <2>1 DEF t
  <2>3. Transfers(prog, pos) = T
    <3>1. CASE prog[pos].op = "unreachable"
      <4>1. prog[pos].to = <<>>
        BY <1>2, <3>1 DEF Body, WellFormed
      <4>2. T = {}
        BY <4>1 DEF Targets
      <4> QED
        BY <3>1, <4>2, TransfersAre
    <3>2. CASE prog[pos].op \in {"br", "br_table"}
      BY <3>2, TransfersAre
    <3> QED
      BY <1>1, <1>8, <3>1, <3>2
  <2> HIDE DEF N, T
  <2>4. Draws(q, q, N)
    BY <2>1, <2>2, <2>3 DEF Draws
  <2> QED
    BY <1>4, <2>4
<1> QED
  BY <1>7, <1>8

\* A conditional branch draws its branches and falls through.
LEMMA ReadBrIfDraws ==
    ASSUME CfgTypeOK, Waiting, NEW q, Drawing(q), ReadBrIf
    PROVE  \E r : Drawing(r)'
<1> DEFINE s == successors
           N == Named(prog[pos].to)
           T == Targets(prog, pos)
<1>1. PICK f : f = Fresh
  OBVIOUS
<1>2. /\ Reads /\ prog[pos].op = "br_if"
      /\ successors' = AddEdge(NewBlocks(AddBranches(s), 1), current, f)
      /\ terminating' = terminating /\ current' = f /\ labelStack' = labelStack
  BY <1>1 DEF ReadBrIf, Read, Reads
<1>3. /\ Graph(s) /\ Len(s) \in Nat /\ current \in 1..Len(s)
      /\ f = Len(s) + 1 /\ f \notin terminating
  BY <1>1, <1>2, DrawingFacts
<1>4. Live'
  BY <1>2, <1>3 DEF Drawing, Live
<1>5. pos + 1 <= Len(prog) /\ Kept(q, q) /\ \A B : Draws(q, q, B) => Drawing(q)'
  BY <1>2, <1>4, DrawingSame DEF Openers
<1>6. /\ Drawn(s, AddBranches(s), N) /\ Len(AddBranches(s)) = Len(s)
      /\ \A j \in T : \E b \in N : b \in Blocks /\ At(q, j, b)'
      /\ \A b \in N : \E j \in T : At(q, j, b)'
  BY <1>2, <1>5, BranchesDraw
<1>7. Transfers(prog, pos) = T \cup {pos + 1}
  BY <1>2, TransfersAre
<1>8. \A j, b : j = pos + 1 /\ b = f => At(q, j, b)'
  BY <1>2, <1>5, AtNext
<1> HIDE DEF N, T
<1>9. Drawn(s, successors', N \cup {f}) /\ f \in Blocks' /\ \A b \in Blocks : b \in Blocks'
  <2> DEFINE t == NewBlocks(AddBranches(s), 1)
  <2>1. Drawn(s, t, N) /\ Len(t) = Len(s) + 1
    <3>1. 1 \in Nat /\ Graph(s) /\ Drawn(s, AddBranches(s), N) /\ current \in 1..Len(s)
      BY <1>3, <1>6
    <3>2. Drawn(s, t, N) /\ Len(t) = Len(AddBranches(s)) + 1
      <4> HIDE DEF s
      <4> QED
        BY <3>1, DrawBlocks
    <3> QED
      BY <1>6, <3>2
  <2>2. f \in 1..(Len(s) + 1)
    BY <1>3
  <2>3. successors' = AddEdge(t, current, f)
    BY <1>2
  <2> HIDE DEF t
  <2>4. Drawn(s, successors', N \cup {f}) /\ Len(successors') = Len(s) + 1
    BY <1>3, <2>1, <2>2, <2>3, DrawEdge
  <2>5. \A b \in Blocks : b \in 1..(Len(s) + 1)
    BY <1>3 DEF Blocks
  <2> QED
    BY <2>2, <2>4, <2>5 DEF Blocks
<1>10. Draws(q, q, N \cup {f})
  BY <1>6, <1>7, <1>8, <1>9 DEF Draws
<1> QED
  BY <1>5, <1>10

\* Every step of buildCfg draws the transfers of the instruction that it reads.
LEMMA BuildFaithful == CfgTypeOK /\ Waiting /\ Faithful /\ Build => Faithful'
<1> SUFFICES ASSUME CfgTypeOK, Waiting, Faithful, Build, ~HasElse PROVE \E r : Drawing(r)'
  <2>1. \A ops : Read(ops) => prog' = prog
    BY DEF Read
  <2>2. ReadBlock \/ ReadLoop \/ ReadIf \/ ReadElse \/ ReadEnd => prog' = prog
    BY <2>1, Zenon DEF ReadBlock, ReadLoop, ReadIf, ReadElse, ReadEnd
  <2>3. ReadLastEnd \/ ReadJump \/ ReadBrIf \/ ReadPlain => prog' = prog
    BY <2>1, Zenon DEF ReadLastEnd, ReadJump, ReadBrIf, ReadPlain
  <2>4. Build => prog' = prog
    BY <2>2, <2>3 DEF Build
  <2>5. Build => (HasElse' <=> HasElse)
    BY <2>4 DEF HasElse
  <2> QED
    BY <2>5 DEF Faithful
<1>1. PICK q : Drawing(q)
  BY DEF Faithful
<1>2. ~ReadElse
  <2> SUFFICES ASSUME ReadElse PROVE FALSE
    OBVIOUS
  <2>1. pos <= Len(prog) /\ prog[pos].op = "else"
    BY DEF ReadElse, Read
  <2>2. pos \in 1..Len(prog)
    BY <1>1, <2>1, Heights DEF Drawing, Shape, Out
  <2> QED
    BY <2>1, <2>2 DEF HasElse
<1> QED
  BY <1>1, <1>2, ReadBlockDraws, ReadLoopDraws, ReadIfDraws, ReadEndDraws, ReadLastEndDraws,
     ReadJumpDraws, ReadBrIfDraws, ReadPlainDraws DEF Build

\* Before the first instruction nothing is drawn.
LEMMA InitFaithful == Init => Faithful
<1> SUFFICES ASSUME Init PROVE Drawing(<<0>>)
  BY DEF Faithful
<1>1. /\ prog \in Programs /\ pos = 1 /\ successors = <<<<>>, <<>>>> /\ terminating = {Exit}
      /\ current = Entry /\ labelStack = <<Label(Exit, Exit)>> /\ home = <<>>
  BY DEF Init, BuilderInit
<1>2. Body(prog)
  BY <1>1, ProgramsAssumption DEF Body
<1>3. Shape(<<0>>)
  <2>1. Nested(prog, pos, <<0>>)
    BY <1>1, <1>2, NestedFirst
  <2>2. 1 \in 1..Out(prog)
    BY <1>2, Heights
  <2>3. Len(home) = 1 - 1 /\ Len(labelStack) = 1 /\ Len(<<0>>) = 1 /\ labelStack[1] = Label(Exit, Exit)
    BY <1>1
  <2> QED
    BY <1>1, <1>2, <2>1, <2>2, <2>3 DEF Shape
<1>4. Aimed(<<0>>)
  BY DEF Aimed
<1>5. Live
  BY <1>1 DEF Live, Entry, Exit
<1>6. Linked(<<0>>)
  BY <1>1 DEF Linked
<1>7. Justified(<<0>>)
  <2>1. \A a \in Blocks : successors[a] = <<>>
    BY <1>1 DEF Blocks
  <2>2. \A a, b \in Blocks : ~Edge(a, b)
    BY <2>1 DEF Edge, ToSet
  <2> QED
    BY <2>2 DEF Justified
<1> QED
  BY <1>3, <1>4, <1>5, <1>6, <1>7 DEF Drawing

\* The search and the sweeps leave the graph alone.
LEMMA NextFaithful == Inv /\ Building /\ Faithful /\ [Next]_vars => Faithful'
<1> SUFFICES ASSUME Inv, Building, Faithful, [Next]_vars PROVE Faithful'
  OBVIOUS
<1>1. CASE ReadNext
  BY <1>1, BuildFaithful DEF ReadNext, Inv, TypeOK, Building
<1>2. ASSUME UNCHANGED <<cfg, builder>> PROVE Faithful'
  <2>1. UNCHANGED <<prog, pos, successors, terminating, labelStack, current, home>>
    BY <1>2 DEF cfg, builder
  <2>2. HasElse' <=> HasElse
    BY <2>1 DEF HasElse
  <2>3. ASSUME NEW q, Drawing(q) PROVE Drawing(q)'
    <3>1. Blocks' = Blocks /\ \A a, b : Edge(a, b)' <=> Edge(a, b)
      BY <2>1, SameGraph
    <3>2. \A j, b : At(q, j, b)' <=> At(q, j, b)
      BY <2>1 DEF At, Exit
    <3>3. Shape(q)' /\ Live'
      BY <2>1, <2>3 DEF Drawing, Shape, Live, Label, Exit
    <3>4. Aimed(q)'
      BY <2>1, <2>3 DEF Drawing, Aimed, AimedAt, At, Exit
    <3>5. Linked(q)'
      BY <2>1, <2>3, <3>1, <3>2 DEF Drawing, Linked, Edge
    <3>6. Justified(q)'
      BY <2>1, <2>3, <3>1, <3>2 DEF Drawing, Justified
    <3> QED
      BY <3>3, <3>4, <3>5, <3>6 DEF Drawing
  <2> QED
    BY <2>2, <2>3 DEF Faithful
<1> QED
  BY <1>1, <1>2 DEF Next, Search, Sweep, vars, Finish, Reach, Descend, Ascend, BeginSweeps, PassOver,
     Visit, Intersect, Climb, Settle, EndSweep

\* When the whole body was read, a place is in the block it was read into.
LEMMA FaithfulExact ==
    ASSUME Inv, Faithful, Complete, ~HasElse
    PROVE  /\ \A i \in 1..Len(prog) : \A j \in Transfers(prog, i) : Follows(i, j)
           /\ \A a, b \in Blocks : Edge(a, b) =>
                 \E i \in 1..Len(prog) : HomeOf(i) = a /\ \E j \in Transfers(prog, i) : HomeOf(j) = b
<1>1. PICK q : Drawing(q)
  BY DEF Faithful
<1>2. Shape(q) /\ Linked(q) /\ Justified(q)
  BY <1>1 DEF Drawing
<1>3. Len(prog) \in Nat /\ pos = Len(prog) + 1 /\ pos = Out(prog) /\ pos - 1 = Len(prog)
  BY <1>2, Heights DEF Shape, Out, Complete
<1>4. Len(q) = 1
  BY <1>2, <1>3 DEF Shape, Nested
<1>5. \A j, b : At(q, j, b) => HomeOf(j) = b
  <2> TAKE j, b
  <2> HAVE At(q, j, b)
  <2>1. CASE j \in 1..(pos - 1) /\ b = home[j]
    <3>1. j # Out(prog)
      BY <1>3, <2>1
    <3> QED
      BY <2>1, <3>1 DEF HomeOf
  <2>2. CASE j = Out(prog) /\ b = Exit
    BY <2>2 DEF HomeOf
  <2> QED
    BY <1>3, <1>4, <2>1, <2>2 DEF At
<1>6. \A i \in 1..Len(prog) : HomeOf(i) = home[i]
  BY <1>3 DEF HomeOf, Out
<1>7. ASSUME NEW i \in 1..Len(prog), NEW j \in Transfers(prog, i) PROVE Follows(i, j)
  <2>1. PICK b \in Blocks : At(q, j, b) /\ ((j = i + 1 /\ b = home[i]) \/ Edge(home[i], b))
    BY <1>2, <1>3 DEF Linked
  <2> QED
    BY <1>5, <1>6, <2>1 DEF Follows
<1>8. ASSUME NEW a \in Blocks, NEW b \in Blocks, Edge(a, b)
      PROVE  \E i \in 1..Len(prog) : HomeOf(i) = a /\ \E j \in Transfers(prog, i) : HomeOf(j) = b
  <2>1. PICK i \in 1..(pos - 1) : home[i] = a /\ \E j \in Transfers(prog, i) : At(q, j, b)
    BY <1>2, <1>8 DEF Justified
  <2> QED
    BY <1>3, <1>5, <1>6, <2>1
<1> QED
  BY <1>7, <1>8

\* For a body without "else" the graph that buildCfg builds is the program:
\* every transfer stays in its block or follows an edge, and every edge is a
\* transfer.
THEOREM GraphExact == Spec => []EdgesExact
<1>1. Init => Inv /\ Building /\ Faithful
  BY InitInv, InitBuilding, InitFaithful
<1>2. (Inv /\ Building /\ Faithful) /\ [Next]_vars => (Inv /\ Building /\ Faithful)'
  BY NextInv, NextBuilding, NextFaithful
<1>3. Inv /\ Building /\ Faithful => EdgesExact
  BY FaithfulExact DEF EdgesExact
<1> QED
  BY <1>1, <1>2, <1>3, PTL DEF Spec
-----------------------------------------------------------------------------
(* what an execution can get to                                            *)

\* Constructs are open before every instruction of a body.
LEMMA NestedAt ==
    ASSUME NEW p, Body(p), NEW i \in 1..Len(p)
    PROVE  \E q : Nested(p, i, q)
<1> DEFINE n == Len(p)
           T == {k \in 0..(n - 1) : \E q : Nested(p, k + 1, q)}
<1>1. n \in Nat /\ n >= 1 /\ n - 1 \in Nat
  BY Heights
<1>2. 0 \in T
  <2>1. Nested(p, 1, <<0>>)
    BY NestedFirst
  <2> QED
    BY <1>1, <2>1
<1>3. ASSUME NEW k \in 0..((n - 1) - 1), k \in T PROVE k + 1 \in T
  <2>1. k + 1 \in 1..Len(p) /\ k + 1 \in 0..(n - 1) /\ k + 1 # Len(p)
    BY <1>1
  <2>2. PICK q : Nested(p, k + 1, q)
    BY <1>3
  <2>3. \E r : Nested(p, (k + 1) + 1, r)
    <3>1. CASE p[k + 1].op \in Openers
      BY <2>1, <2>2, <3>1, NestedPush
    <3>2. CASE p[k + 1].op = "end"
      <4>1. Len(q) \in Nat /\ Len(q) >= 1
        BY <2>2 DEF Nested
      <4>2. CASE Len(q) > 1
        BY <2>1, <2>2, <3>2, <4>2, NestedPop
      <4>3. CASE Len(q) = 1
        BY <2>1, <2>2, <3>2, <4>3, NestedLast
      <4>4. Len(q) > 1 \/ Len(q) = 1
        <5>1. \A m \in Nat : m >= 1 => m > 1 \/ m = 1
          OBVIOUS
        <5> QED
          BY <4>1, <5>1, Zenon
      <4> QED
        BY <4>2, <4>3, <4>4
    <3>3. CASE p[k + 1].op \notin Openers \cup {"end"}
      BY <2>1, <2>2, <3>3, NestedSame
    <3> QED
      BY <3>1, <3>2, <3>3
  <2> QED
    BY <2>1, <2>3
<1> HIDE DEF T, n
<1>4. 0..(n - 1) \subseteq T
  BY <1>1, <1>2, <1>3, Induct
<1>5. i - 1 \in 0..(n - 1) /\ (i - 1) + 1 = i
  BY <1>1 DEF n
<1> QED
  BY <1>4, <1>5 DEF T

\* The places that the straight line of a block goes through, and no branch
\* leads to: behind an instruction that neither opens a construct other than
\* a block, nor closes one, nor branches.
Inner(p, j) == j - 1 \in 1..Len(p) /\ p[j - 1].op \in {"block", "plain"}

\* Without "else", control gets to such a place from the one before only.
LEMMA InnerFrom ==
    ASSUME NEW p, Body(p), NEW i \in 1..Len(p), NEW j \in Transfers(p, i), Inner(p, j),
           \A k \in 1..Len(p) : p[k].op # "else"
    PROVE  j = i + 1
<1>1. Len(p) \in Nat /\ p \in Seq(Instruction) /\ p[i] \in Instruction
  <2>1. p \in Seq(Instruction)
    BY DEF Body
  <2> QED
    BY <2>1, ElementOfSeq
<1>2. ASSUME NEW o \in 1..Len(p), p[o].op \in Openers PROVE j # EndOf(p, o) + 1
  <2>1. EndOf(p, o) \in Nat /\ p[EndOf(p, o)].op = "end"
    BY <1>1, <1>2, EndFacts
  <2>2. (EndOf(p, o) + 1) - 1 = EndOf(p, o)
    BY <2>1
  <2> QED
    BY <2>1, <2>2 DEF Inner
<1>3. j # Out(p)
  <2>1. p[Len(p)].op = "end"
    <3>1. Len(p) \in 1..Len(p) /\ Len(p) + 1 = Out(p) /\ Height(p, Out(p)) = 0
      BY Heights
    <3>2. /\ Height(p, Len(p)) >= 1 /\ Height(p, Len(p)) \in Nat
          /\ 0 = IF p[Len(p)].op \in Openers THEN Height(p, Len(p)) + 1
                 ELSE IF p[Len(p)].op = "end" THEN Height(p, Len(p)) - 1
                 ELSE Height(p, Len(p))
      BY <3>1, HeightStep
    <3> QED
      BY <3>2
  <2>2. Out(p) - 1 = Len(p)
    BY <1>1 DEF Out
  <2> QED
    BY <2>1, <2>2 DEF Inner
<1>4. j \notin Targets(p, i)
  <2> SUFFICES ASSUME NEW k \in 1..Len(p[i].to), j = BranchTarget(p, i, p[i].to[k]) PROVE FALSE
    BY DEF Targets
  <2> DEFINE d == p[i].to[k]
  <2>1. PICK q : Nested(p, i, q)
    BY NestedAt
  <2>2. Len(q) \in Nat /\ Len(q) = Height(p, i)
    BY <1>1, <2>1 DEF Nested
  <2>3. d \in Nat /\ d < Len(q)
    <3>1. p[i].to \in Seq(Nat)
      BY <1>1 DEF Instruction
    <3>2. d < Height(p, i)
      BY DEF Body, WellFormed
    <3> QED
      BY <2>2, <3>1, <3>2, ElementOfSeq
  <2>4. j = IF d + 1 = Len(q) THEN Out(p)
            ELSE IF p[q[Len(q) - d]].op = "loop" THEN q[Len(q) - d] + 1
                                                 ELSE EndOf(p, q[Len(q) - d]) + 1
    <3> HIDE DEF d
    <3>1. j = BranchTarget(p, i, d)
      BY DEF d
    <3> QED
      <4>1. BranchTarget(p, i, d) =
                IF d + 1 = Len(q) THEN Out(p)
                ELSE IF p[q[Len(q) - d]].op = "loop" THEN q[Len(q) - d] + 1
                                                     ELSE EndOf(p, q[Len(q) - d]) + 1
        BY <2>1, <2>3, BranchInto, Zenon
      <4> QED
        BY <3>1, <4>1, Zenon
  <2> HIDE DEF d
  <2>5. d + 1 # Len(q)
    BY <1>3, <2>4
  <2> DEFINE o == q[Len(q) - d]
  <2>6. o \in 1..Len(p) /\ p[o].op \in Openers
    <3>1. Len(q) - d \in 2..Len(q)
      BY <2>2, <2>3, <2>5
    <3>2. o \in 1..(i - 1) /\ p[o].op \in Openers
      BY <2>1, <3>1 DEF Nested
    <3> QED
      BY <1>1, <3>2
  <2> HIDE DEF o
  <2>7. p[o].op = "loop" /\ j = o + 1
    BY <1>2, <2>4, <2>5, <2>6 DEF o
  <2>8. j - 1 = o
    BY <2>6, <2>7
  <2> QED
    BY <2>7, <2>8 DEF Inner
<1>5. CASE p[i].op = "if"
  <2>1. PartOf(p, i, "else") = {}
    BY <1>1 DEF PartOf
  <2>2. j = i + 1 \/ j = EndOf(p, i) + 1
    BY <1>5, <2>1, TransfersAre
  <2> QED
    BY <1>2, <1>5, <2>2 DEF Openers
<1>6. CASE p[i].op \in {"block", "loop", "end", "plain"}
  BY <1>6, TransfersAre
<1>7. CASE p[i].op \in {"br", "br_table", "br_if"}
  BY <1>4, <1>7, TransfersAre
<1>8. CASE p[i].op \in {"return", "unreachable"}
  BY <1>3, <1>8, TransfersAre
<1>9. p[i].op \in {"br", "br_if", "br_table", "end", "return", "unreachable", "plain", "block", "loop", "if"}
  <2>1. p[i].op \in {"br", "br_if", "br_table", "else", "end", "return", "unreachable", "plain"} \cup Openers
    BY <1>1 DEF Instruction
  <2> QED
    BY <2>1 DEF Openers
<1> QED
  BY <1>5, <1>6, <1>7, <1>8, <1>9
-----------------------------------------------------------------------------

\* One more instruction from the places of V, without those of A.
Onward(p, V, A) == V \cup ((UNION {Transfers(p, i) : i \in V \ {Out(p)}}) \ A)

\* The executions stay in the body until they leave it.
Confined(p) == \A i \in 1..Len(p) : Transfers(p, i) \subseteq 1..Out(p)

\* Its elements.
LEMMA OnwardIn ==
    ASSUME NEW p, NEW V, NEW A, NEW x
    PROVE  x \in Onward(p, V, A) <=>
               x \in V \/ (x \notin A /\ \E i \in V \ {Out(p)} : x \in Transfers(p, i))
<1> DEFINE U == UNION {Transfers(p, i) : i \in V \ {Out(p)}}
<1>1. x \in U <=> \E i \in V \ {Out(p)} : x \in Transfers(p, i)
  OBVIOUS
<1>2. Onward(p, V, A) = V \cup (U \ A)
  BY DEF Onward
<1> HIDE DEF U
<1> QED
  BY <1>1, <1>2

\* They are places of the body.
LEMMA OnwardPlaces ==
    ASSUME NEW p, Len(p) \in Nat, Confined(p), NEW A, NEW V \in SUBSET (1..Out(p))
    PROVE  Onward(p, V, A) \in SUBSET (1..Out(p)) /\ V \subseteq Onward(p, V, A)
<1>1. \A i \in V \ {Out(p)} : i \in 1..Len(p)
  BY DEF Out
<1>2. \A i \in V \ {Out(p)} : Transfers(p, i) \subseteq 1..Out(p)
  BY <1>1 DEF Confined
<1> QED
  BY <1>2 DEF Onward

\* What Executed computes, level by level.
Levelled(p, A, R) == /\ R \in [0..Len(p) -> SUBSET (1..Out(p))]
                     /\ Executed(p, A) = R[Len(p)]
                     /\ R[0] = {1} \ A
                     /\ \A k \in 1..Len(p) : R[k] = Onward(p, R[k - 1], A)

LEMMA ExecutedLevels ==
    ASSUME NEW p, Len(p) \in Nat, Confined(p), NEW A
    PROVE  \E R : Levelled(p, A, R)
<1> DEFINE n == Len(p)
           S == SUBSET (1..Out(p))
           base == {1} \ A
           R[k \in 0..n] == IF k = 0 THEN {1} \ A
                            ELSE R[k - 1] \cup
                                 ((UNION {Transfers(p, i) : i \in R[k - 1] \ {Out(p)}}) \ A)
           step == [x \in (1..n) \X S |-> Onward(p, x[2], A)]
<1>1. n \in Nat /\ base \in S
  BY DEF Out
<1>2. \A V \in S : Onward(p, V, A) \in S
  BY OnwardPlaces
<1> HIDE DEF n, S, base
<1>3. step \in Steps(n, S)
  BY <1>2 DEF Steps
<1>4. PICK f : Recurs(f, n, S, base, step)
  <2> HIDE DEF step, R
  <2> QED
    BY <1>1, <1>3, Recursive
<1>5. \A k \in 1..n : f[k] = Onward(p, f[k - 1], A)
  <2> SUFFICES ASSUME NEW k \in 1..n PROVE f[k] = Onward(p, f[k - 1], A)
    OBVIOUS
  <2>1. k - 1 \in 0..n
    BY <1>1
  <2>2. f[k - 1] \in S /\ f[k] = step[<<k, f[k - 1]>>]
    <3> HIDE DEF step, R
    <3> QED
      BY <1>4, <2>1 DEF Recurs
  <2> HIDE DEF R
  <2> QED
    BY <2>2
<1>6. R = [k \in 0..n |-> IF k = 0 THEN {1} \ A
                          ELSE R[k - 1] \cup
                               ((UNION {Transfers(p, i) : i \in R[k - 1] \ {Out(p)}}) \ A)]
  <2>1. f = [k \in 0..n |-> IF k = 0 THEN {1} \ A
                            ELSE f[k - 1] \cup
                                 ((UNION {Transfers(p, i) : i \in f[k - 1] \ {Out(p)}}) \ A)]
    <3> HIDE DEF step, R
    <3>1. f \in [0..n -> S] /\ f[0] = {1} \ A
      BY <1>4 DEF Recurs, base
    <3>2. \A k \in 0..n : k # 0 => k \in 1..n
      BY <1>1
    <3> QED
      BY <1>5, <3>1, <3>2 DEF Onward
  <2> HIDE DEF step
  <2> QED
    BY <2>1
<1> HIDE DEF R, step
<1>7. R[0] = {1} \ A /\ \A k \in 1..n : R[k] = Onward(p, R[k - 1], A)
  <2>1. 0 \in 0..n /\ \A k \in 1..n : k \in 0..n /\ k # 0
    BY <1>1
  <2> QED
    BY <1>6, <2>1 DEF Onward
<1>8. \A k \in 0..n : R[k] \in S
  <2> DEFINE T == {k \in 0..n : R[k] \in S}
  <2>1. 0 \in T
    <3>1. R[0] = base /\ 0 \in 0..n
      BY <1>1, <1>7 DEF base
    <3> QED
      BY <1>1, <3>1
  <2>2. ASSUME NEW k \in 0..(n - 1), k \in T PROVE k + 1 \in T
    <3>1. k + 1 \in 0..n /\ k + 1 \in 1..n /\ (k + 1) - 1 = k
      BY <1>1
    <3>2. R[k + 1] = Onward(p, R[k], A)
      BY <1>7, <3>1
    <3> QED
      BY <1>2, <2>2, <3>1, <3>2
  <2> HIDE DEF T
  <2>3. 0..n \subseteq T
    BY <1>1, <2>1, <2>2, Induct
  <2> QED
    BY <2>3 DEF T
<1>9. R \in [0..n -> S]
  BY <1>6, <1>8
<1>10. Executed(p, A) = R[n]
  BY DEF Executed, R, n
<1> QED
  <2>1. Levelled(p, A, R)
    BY <1>7, <1>9, <1>10 DEF n, S, Levelled
  <2> QED
    BY <2>1

\* It is the least set that holds the first place and all that can be executed
\* next.
LEMMA ExecutedLeast ==
    ASSUME NEW p, Len(p) \in Nat, Confined(p), NEW A, NEW Y, 1 \notin A => 1 \in Y,
           \A i \in Y \ {Out(p)} : i \in 1..Len(p) => Transfers(p, i) \ A \subseteq Y
    PROVE  Executed(p, A) \subseteq Y
<1> DEFINE n == Len(p)
<1>a. PICK R : Levelled(p, A, R)
  BY ExecutedLevels
<1>1. /\ R \in [0..n -> SUBSET (1..Out(p))]
      /\ Executed(p, A) = R[n]
      /\ R[0] = {1} \ A
      /\ \A k \in 1..n : R[k] = Onward(p, R[k - 1], A)
  BY <1>a DEF Levelled
<1>2. n \in Nat /\ Out(p) = n + 1
  BY DEF Out
<1> DEFINE T == {k \in 0..n : R[k] \subseteq Y}
<1>3. 0 \in T
  BY <1>1, <1>2
<1>4. ASSUME NEW k \in 0..(n - 1), k \in T PROVE k + 1 \in T
  <2> HIDE DEF n
  <2>1. k + 1 \in 0..n /\ k + 1 \in 1..n /\ (k + 1) - 1 = k /\ k \in 0..n
    BY <1>2
  <2>2. R[k + 1] = Onward(p, R[k], A) /\ R[k] \subseteq Y /\ R[k] \subseteq 1..(n + 1)
    BY <1>1, <1>2, <1>4, <2>1
  <2>3. \A i \in R[k] \ {Out(p)} : Transfers(p, i) \ A \subseteq Y
    <3>1. \A i \in R[k] \ {Out(p)} : i \in 1..Len(p)
      BY <1>2, <2>2 DEF n
    <3> QED
      BY <2>2, <3>1
  <2>4. R[k + 1] \subseteq Y
    <3> SUFFICES ASSUME NEW x \in R[k + 1], x \notin R[k] PROVE x \in Y
      BY <2>2
    <3> DEFINE V == R[k]
    <3>1. x \in Onward(p, V, A) /\ x \notin V
      BY <2>2
    <3> HIDE DEF V
    <3>2. x \notin A /\ \E i \in V \ {Out(p)} : x \in Transfers(p, i)
      BY <3>1, OnwardIn
    <3> QED
      BY <2>3, <3>2 DEF V
  <2> QED
    BY <2>1, <2>4
<1> HIDE DEF T, n
<1>5. 0..n \subseteq T
  BY <1>2, <1>3, <1>4, Induct
<1> QED
  BY <1>1, <1>2, <1>5 DEF T

\* It holds them all: at each level a place is added, or nothing ever will be.
LEMMA ExecutedClosed ==
    ASSUME NEW p, Len(p) \in Nat, Confined(p), NEW A
    PROVE  /\ Executed(p, A) \subseteq 1..Out(p)
           /\ 1 \notin A => 1 \in Executed(p, A)
           /\ \A i \in Executed(p, A) : i \in 1..Len(p) => Transfers(p, i) \ A \subseteq Executed(p, A)
<1> DEFINE n == Len(p)
           Places == 1..Out(p)
           Done(U) == Onward(p, U, A) = U
<1>a. PICK R : Levelled(p, A, R)
  BY ExecutedLevels
<1>1. /\ R \in [0..n -> SUBSET Places]
      /\ Executed(p, A) = R[n]
      /\ R[0] = {1} \ A
      /\ \A k \in 1..n : R[k] = Onward(p, R[k - 1], A)
  BY <1>a DEF Levelled
<1>2. n \in Nat /\ Out(p) = n + 1 /\ n + 1 \in Nat
  BY DEF Out
<1>3. IsFiniteSet(Places) /\ Cardinality(Places) = n + 1
  BY <1>2, FS_Interval
<1>4. \A U \in SUBSET Places : Onward(p, U, A) \in SUBSET Places /\ U \subseteq Onward(p, U, A)
  BY OnwardPlaces
<1> HIDE DEF n, Places
<1> DEFINE T == {k \in 0..n : /\ 1 \notin A => 1 \in R[k]
                              /\ Done(R[k]) \/ Cardinality(R[k]) >= k + 1}
<1>5. 0 \in T
  <2>1. CASE 1 \in A
    <3>1. R[0] = {}
      BY <1>1, <2>1
    <3>2. Onward(p, {}, A) = {}
      BY DEF Onward
    <3>3. 0 \in 0..n /\ Done(R[0])
      BY <1>2, <3>1, <3>2
    <3> HIDE DEF Done
    <3> QED
      BY <2>1, <3>3
  <2>2. CASE 1 \notin A
    <3>1. R[0] = {1} /\ Cardinality({1}) = 1
      <4>1. Cardinality({1}) = 1
        BY FS_Singleton
      <4> QED
        BY <1>1, <2>2, <4>1
    <3>2. 0 \in 0..n /\ Cardinality(R[0]) >= 0 + 1 /\ 1 \in R[0]
      BY <1>2, <3>1
    <3> QED
      BY <3>2
  <2> QED
    BY <2>1, <2>2
<1>6. ASSUME NEW k \in 0..(n - 1), k \in T PROVE k + 1 \in T
  <2>1. k + 1 \in 0..n /\ k + 1 \in 1..n /\ (k + 1) - 1 = k /\ k \in 0..n
    BY <1>2
  <2>2. R[k + 1] = Onward(p, R[k], A) /\ R[k] \in SUBSET Places /\ R[k + 1] \in SUBSET Places
    BY <1>1, <2>1
  <2>3. R[k] \subseteq R[k + 1] /\ (1 \notin A => 1 \in R[k + 1])
    BY <1>4, <1>6, <2>2
  <2>4. CASE Done(R[k])
    <3>1. R[k + 1] = R[k]
      BY <2>2, <2>4
    <3> QED
      BY <2>1, <2>3, <2>4, <3>1
  <2>5. CASE ~Done(R[k])
    <3>1. Cardinality(R[k]) >= k + 1 /\ R[k] # R[k + 1]
      BY <1>6, <2>2, <2>5
    <3>2. IsFiniteSet(R[k + 1])
      BY <1>3, <2>2, FS_Subset
    <3>3. /\ IsFiniteSet(R[k]) /\ Cardinality(R[k]) <= Cardinality(R[k + 1])
          /\ Cardinality(R[k]) # Cardinality(R[k + 1])
      BY <2>3, <3>1, <3>2, FS_Subset
    <3>4. Cardinality(R[k]) \in Nat /\ Cardinality(R[k + 1]) \in Nat
      BY <3>2, <3>3, FS_CardinalityType
    <3>5. Cardinality(R[k + 1]) >= (k + 1) + 1
      BY <3>1, <3>3, <3>4, <2>1
    <3> QED
      BY <2>1, <2>3, <3>5
  <2> QED
    BY <2>4, <2>5
<1> HIDE DEF T
<1>7. n \in T
  <2>1. 0..n \subseteq T
    BY <1>2, <1>5, <1>6, Induct
  <2> QED
    BY <1>2, <2>1
<1>8. R[n] \in SUBSET Places
  BY <1>1, <1>2
<1>9. Done(R[n])
  <2>1. CASE Cardinality(R[n]) >= n + 1
    <3>1. /\ IsFiniteSet(R[n]) /\ Cardinality(R[n]) <= n + 1
          /\ Cardinality(R[n]) = n + 1 => R[n] = Places
      BY <1>3, <1>8, FS_Subset
    <3>2. Cardinality(R[n]) \in Nat
      BY <3>1, FS_CardinalityType
    <3>3. R[n] = Places
      BY <1>2, <2>1, <3>1, <3>2
    <3> QED
      BY <1>4, <1>8, <3>3
  <2> QED
    BY <1>7, <2>1 DEF T
<1>10. ASSUME NEW i \in R[n], i \in 1..Len(p) PROVE Transfers(p, i) \ A \subseteq R[n]
  <2>1. i \in R[n] \ {Out(p)}
    BY <1>2, <1>10 DEF n
  <2> SUFFICES ASSUME NEW x \in Transfers(p, i) \ A PROVE x \in R[n]
    OBVIOUS
  <2>2. x \in Onward(p, R[n], A)
    BY <2>1, OnwardIn
  <2> QED
    BY <1>9, <2>2
<1>11. 1 \notin A => 1 \in R[n]
  BY <1>7 DEF T
<1> QED
  BY <1>1, <1>8, <1>10, <1>11 DEF Places
-----------------------------------------------------------------------------
(* a block is filled once, and from its beginning                          *)

\* The block of place i, of those read and of the next one.
Here(i) == IF i < pos THEN home[i] ELSE current

\* The block of place i is that of the place before, or has none before i.
Straight(i) ==
    IF prog[i].op \in {"block", "plain"} THEN Here(i + 1) = home[i]
    ELSE i < Len(prog) => \A k \in 1..i : home[k] # Here(i + 1)

\* No label but the function's own leads to the exit behind its construct, or
\* to a block that was ever filled.
Unfilled(l) == l.after # Exit /\ \A i \in 1..(pos - 1) : home[i] # l.after

Filling == /\ Len(home) = pos - 1
           /\ current # Exit /\ \A i \in 1..(pos - 1) : home[i] # Exit
           /\ \A k \in 2..Len(labelStack) : Unfilled(labelStack[k])
           /\ Here(1) = Entry
           /\ \A i \in 1..(pos - 1) : Straight(i)

\* Said of the bodies of which the labels are known to be those of the open
\* constructs (Faithful).
Filled == ~HasElse => Filling

\* The labels behind the first are old ones, or lead to new blocks.
LabelsFresh == \A k \in 2..Len(labelStack') :
    \/ k \in 2..Len(labelStack) /\ labelStack'[k] = labelStack[k]
    \/ labelStack'[k].after \in {Fresh, Fresh + 1}

\* The block stays, is new, or is the one behind an open construct.
Onto == \/ prog[pos].op \in {"block", "plain"} /\ current' = current
        \/ prog[pos].op \notin {"block", "plain"} /\ current' = Fresh
        \/ /\ prog[pos].op \notin {"block", "plain"}
           /\ \E k \in 2..Len(labelStack) : current' = labelStack[k].after
        \/ prog[pos].op \notin {"block", "plain"} /\ current' = current /\ pos = Len(prog)

\* What a step has to show.
LEMMA FillingStep ==
    ASSUME CfgTypeOK, Waiting, Filling, Reads, LabelsFresh, Onto
    PROVE  Filling'
<1>1. /\ pos \in Nat /\ pos >= 1 /\ pos' = pos + 1 /\ prog' = prog /\ Len(prog) \in Nat
      /\ Len(home) = pos - 1 /\ home \in Seq(Blocks) /\ home' = Append(home, current)
  <2>1. prog \in Seq(Instruction)
    BY ProgramsAssumption DEF CfgTypeOK
  <2> QED
    BY <2>1 DEF CfgTypeOK, Filling, Reads
<1>2. /\ Len(home') = pos' - 1 /\ home'[pos] = current
      /\ \A i \in 1..(pos - 1) : home'[i] = home[i]
  BY <1>1
<1>3. /\ \A i \in 1..(pos - 1) : home[i] \in Blocks
      /\ current \in Blocks /\ Fresh \notin Blocks /\ Fresh + 1 \notin Blocks /\ Exit \in Blocks
  <2>1. \A i \in 1..(pos - 1) : home[i] \in Blocks
    BY <1>1, ElementOfSeq
  <2>2. Len(successors) \in Nat /\ Len(successors) >= 2 /\ current \in Blocks
    BY DEF CfgTypeOK
  <2> QED
    BY <2>1, <2>2 DEF Blocks, Fresh, Exit
<1>4. \A i \in 1..(pos' - 1) : i = pos \/ i \in 1..(pos - 1)
  BY <1>1
<1>5. current # Exit /\ \A i \in 1..(pos - 1) : home[i] # Exit
  BY DEF Filling
<1>6. \A k \in 2..Len(labelStack) : /\ labelStack[k].after # current /\ labelStack[k].after # Exit
                                     /\ \A i \in 1..(pos - 1) : home[i] # labelStack[k].after
  BY DEF Waiting, Awaited, Filling, Unfilled
<1>7. ASSUME NEW b, b \in {Fresh, Fresh + 1} \/ \E k \in 2..Len(labelStack) : b = labelStack[k].after
      PROVE  b # Exit /\ b # current /\ \A i \in 1..(pos' - 1) : home'[i] # b
  <2>1. b # Exit /\ b # current /\ \A i \in 1..(pos - 1) : home[i] # b
    BY <1>3, <1>6, <1>7
  <2> QED
    BY <1>2, <1>4, <2>1
<1>8. current' # Exit /\ \A i \in 1..(pos' - 1) : home'[i] # Exit
  <2>1. current' # Exit
    BY <1>5, <1>7 DEF Onto
  <2> QED
    BY <1>2, <1>4, <1>5, <2>1
<1>9. \A k \in 2..Len(labelStack') : Unfilled(labelStack[k])'
  BY <1>7 DEF LabelsFresh, Unfilled, Exit
<1>10. \A i \in 1..pos : Here(i)' = Here(i) /\ Here(i) = home'[i]
  <2> TAKE i \in 1..pos
  <2>1. Here(i)' = home'[i]
    BY <1>1 DEF Here
  <2>2. Here(i) = home'[i]
    BY <1>1, <1>2 DEF Here
  <2> QED
    BY <2>1, <2>2
<1>11. Here(1)' = Entry
  BY <1>1, <1>10 DEF Filling
<1>0. PICK n : n = pos
  OBVIOUS
<1>12. Here(n + 1)' = current'
  BY <1>0, <1>1 DEF Here
<1>13. ASSUME NEW i \in 1..(pos - 1) PROVE Straight(i)'
  <2>1. Straight(i) /\ i \in 1..pos /\ i + 1 \in 1..pos
    BY <1>1 DEF Filling
  <2>2. Here(i + 1)' = Here(i + 1) /\ home'[i] = home[i] /\ \A k \in 1..i : home'[k] = home[k]
    BY <1>1, <1>2, <1>10, <2>1
  <2> QED
    BY <1>1, <2>1, <2>2 DEF Straight
<1>14. Straight(n)'
  <2>1. n \in Nat /\ pos' - 1 = n /\ home'[n] = current /\ prog'[n] = prog[n] /\ Len(prog') = Len(prog)
    BY <1>0, <1>1, <1>2
  <2>2. CASE prog[n].op \in {"block", "plain"}
    <3>1. current' = current
      BY <1>0, <2>2 DEF Onto
    <3> QED
      BY <1>12, <2>1, <2>2, <3>1 DEF Straight
  <2>3. CASE prog[n].op \notin {"block", "plain"}
    <3>1. n < Len(prog) =>
              current' \in {Fresh, Fresh + 1} \/ \E k \in 2..Len(labelStack) : current' = labelStack[k].after
      BY <1>0, <1>1, <2>3 DEF Onto
    <3>2. n < Len(prog) => \A k \in 1..n : home'[k] # current'
      BY <1>7, <2>1, <3>1
    <3> QED
      BY <1>12, <2>1, <2>3, <3>2 DEF Straight
  <2> QED
    BY <2>2, <2>3
<1>15. \A i \in 1..(pos' - 1) : Straight(i)'
  BY <1>0, <1>4, <1>13, <1>14
<1> QED
  BY <1>2, <1>8, <1>9, <1>11, <1>15 DEF Filling, Exit, Entry

\* Before the first instruction no block is filled.
LEMMA InitFilling == Init => Filling
<1> SUFFICES ASSUME Init PROVE Filling
  OBVIOUS
<1>1. pos = 1 /\ home = <<>> /\ current = Entry /\ Len(labelStack) = 1
  BY DEF Init, BuilderInit
<1>2. Len(home) = pos - 1 /\ 1..(pos - 1) = {} /\ 2..Len(labelStack) = {} /\ Here(1) = Entry
  BY <1>1 DEF Here
<1>3. current # Exit
  BY <1>1 DEF Entry, Exit
<1> QED
  BY <1>2, <1>3 DEF Filling

\* Every step of buildCfg.
LEMMA BuildFilling ==
    ASSUME CfgTypeOK, Waiting, Filling, NEW q, Drawing(q), ~HasElse, Build
    PROVE  Filling'
<1> USE DEF Read
<1>1. /\ labelStack \in Seq([target : Blocks, after : Blocks])
      /\ Len(labelStack) \in Nat /\ Len(labelStack) >= 1
      /\ Last(labelStack) = labelStack[Len(labelStack)]
  BY LabelFacts
<1>2. ASSUME labelStack' = labelStack PROVE LabelsFresh
  BY <1>2 DEF LabelsFresh
<1>3. ASSUME NEW t, NEW a \in {Fresh, Fresh + 1}, labelStack' = Append(labelStack, Label(t, a))
      PROVE  LabelsFresh
  <2>1. /\ Len(labelStack') = Len(labelStack) + 1
        /\ labelStack'[Len(labelStack) + 1] = Label(t, a)
        /\ \A k \in 1..Len(labelStack) : labelStack'[k] = labelStack[k]
    BY <1>1, <1>3
  <2>2. \A k \in 2..Len(labelStack') : k = Len(labelStack) + 1 \/ k \in 2..Len(labelStack)
    BY <1>1, <2>1
  <2>3. Label(t, a).after = a
    BY DEF Label
  <2> QED
    BY <1>1, <2>1, <2>2, <2>3 DEF LabelsFresh
<1>4. ASSUME Len(labelStack) > 1, labelStack' = Front(labelStack) PROVE LabelsFresh
  <2>1. labelStack' = SubSeq(labelStack, 1, Len(labelStack) - 1)
    BY <1>4 DEF Front
  <2>2. /\ Len(labelStack') = Len(labelStack) - 1
        /\ \A k \in 1..(Len(labelStack) - 1) : labelStack'[k] = labelStack[k]
    BY <1>1, <1>4, <2>1
  <2>3. \A k \in 2..Len(labelStack') : k \in 2..Len(labelStack) /\ k \in 1..(Len(labelStack) - 1)
    BY <1>1, <2>2
  <2> QED
    BY <2>2, <2>3 DEF LabelsFresh
<1>5. CASE ReadBlock
  BY <1>3, <1>5, FillingStep DEF ReadBlock, Reads, Onto
<1>6. CASE ReadLoop
  BY <1>3, <1>6, FillingStep DEF ReadLoop, Reads, Onto
<1>7. CASE ReadIf
  BY <1>3, <1>7, FillingStep DEF ReadIf, Reads, Onto
<1>8. CASE ReadElse
  BY <1>2, <1>8, FillingStep DEF ReadElse, Reads, Onto
<1>9. CASE ReadEnd
  <2>1. Len(labelStack) \in 2..Len(labelStack)
    BY <1>1, <1>9 DEF ReadEnd
  <2>2. Onto
    BY <1>1, <1>9, <2>1 DEF ReadEnd, Onto
  <2> QED
    BY <1>4, <1>9, <2>2, FillingStep DEF ReadEnd, Reads
<1>10. CASE ReadLastEnd
  <2>1. /\ Reads /\ prog[pos].op = "end" /\ current' = current /\ labelStack' = labelStack
        /\ Len(labelStack) = 1
    <3>1. Len(labelStack) <= 1
      BY <1>10 DEF ReadLastEnd
    <3>2. Len(labelStack) = 1
      <4>1. \A m \in Nat : m >= 1 /\ m <= 1 => m = 1
        OBVIOUS
      <4> QED
        BY <1>1, <3>1, <4>1, Zenon
    <3> QED
      BY <1>10, <3>2 DEF ReadLastEnd, Reads
  <2>2. /\ pos \in 1..Len(prog) /\ Body(prog) /\ Nested(prog, pos, q) /\ Len(q) = 1
        /\ Len(prog) \in Nat
    BY <2>1, Heights DEF Drawing, Shape, Reads, Out
  <2>3. pos = Len(prog)
    BY <2>1, <2>2, NestedLast DEF Out
  <2> QED
    BY <1>2, <2>1, <2>3, FillingStep DEF Onto
<1>11. CASE ReadJump
  BY <1>2, <1>11, FillingStep DEF ReadJump, Reads, Onto
<1>12. CASE ReadBrIf
  BY <1>2, <1>12, FillingStep DEF ReadBrIf, Reads, Onto
<1>13. CASE ReadPlain
  BY <1>2, <1>13, FillingStep DEF ReadPlain, Reads, Onto
<1> QED
  BY <1>5, <1>6, <1>7, <1>8, <1>9, <1>10, <1>11, <1>12, <1>13 DEF Build

\* The search and the sweeps fill nothing.
LEMMA NextFilled == Inv /\ Building /\ Faithful /\ Filled /\ [Next]_vars => Filled'
<1> SUFFICES ASSUME Inv, Building, Faithful, Filled, [Next]_vars PROVE Filled'
  OBVIOUS
<1>1. ASSUME prog' = prog PROVE HasElse' <=> HasElse
  BY <1>1 DEF HasElse
<1>2. CASE ReadNext
  <2>1. prog' = prog
    BY <1>2 DEF ReadNext, Build, ReadBlock, ReadLoop, ReadIf, ReadElse, ReadEnd, ReadLastEnd,
                ReadJump, ReadBrIf, ReadPlain, Read
  <2> QED
    BY <1>1, <1>2, <2>1, BuildFilling DEF ReadNext, Filled, Faithful, Inv, TypeOK, Building
<1>3. ASSUME UNCHANGED <<cfg, builder>> PROVE Filled'
  <2>1. UNCHANGED <<prog, pos, labelStack, current, home>>
    BY <1>3 DEF cfg, builder
  <2>2. Filling => Filling'
    BY <2>1 DEF Filling, Here, Straight, Unfilled, Exit, Entry
  <2> QED
    BY <1>1, <2>1, <2>2 DEF Filled
<1> QED
  BY <1>2, <1>3 DEF Next, Search, Sweep, vars, Finish, Reach, Descend, Ascend, BeginSweeps, PassOver,
     Visit, Intersect, Climb, Settle, EndSweep
-----------------------------------------------------------------------------
(* what the report says of the program                                     *)

\* What is known of a body without "else" when all of it was read: it nests,
\* its control flow is the graph (GraphExact), a block holds the places that
\* were read into it, and is entered at the first of them (Filling).
Shaped == Body(prog) /\ Confined(prog) /\ \A k \in 1..Len(prog) : prog[k].op # "else"
Mirrored ==
    /\ \A i \in 1..Len(prog) : \A j \in Transfers(prog, i) : Follows(i, j)
    /\ \A a, b \in Blocks : Edge(a, b) =>
          \E i \in 1..Len(prog) : HomeOf(i) = a /\ \E j \in Transfers(prog, i) : HomeOf(j) = b
Housed ==
    /\ \A i \in 1..Len(prog) : HomeOf(i) = home[i] /\ HomeOf(i) \in Blocks /\ HomeOf(i) # Exit
    /\ HomeOf(1) = Entry /\ HomeOf(Out(prog)) = Exit
Begun == \A i \in 1..(Len(prog) - 1) :
    /\ prog[i].op \in {"block", "plain"} => HomeOf(i + 1) = HomeOf(i)
    /\ prog[i].op \notin {"block", "plain"} => \A k \in 1..i : HomeOf(k) # HomeOf(i + 1)
WasRead == Shaped /\ Mirrored /\ Housed /\ Begun

\* The parts put together, for the whole body.
LEMMA WholeBody ==
    ASSUME Inv, Faithful, Filled, Complete, ~HasElse
    PROVE  WasRead
<1>1. PICK q : Drawing(q)
  BY DEF Faithful
<1>2. Shape(q) /\ Linked(q) /\ Body(prog)
  BY <1>1 DEF Drawing, Shape
<1>3. /\ Len(prog) \in Nat /\ Len(prog) >= 1 /\ pos = Len(prog) + 1 /\ pos = Out(prog)
      /\ pos - 1 = Len(prog)
  BY <1>2, Heights DEF Shape, Out, Complete
<1>4. Len(q) = 1
  BY <1>2, <1>3 DEF Shape, Nested
<1>5. Filling /\ home \in Seq(Blocks)
  BY DEF Filled, Inv, TypeOK, CfgTypeOK
<1>6. \A k \in 1..Len(prog) : prog[k].op # "else"
  BY DEF HasElse
<1>7. Confined(prog)
  <2> SUFFICES ASSUME NEW i \in 1..Len(prog), NEW j \in Transfers(prog, i) PROVE j \in 1..Out(prog)
    BY DEF Confined
  <2>1. PICK b \in Blocks : At(q, j, b)
    BY <1>2, <1>3 DEF Linked
  <2>2. j \in 1..(pos - 1) \/ j = Out(prog)
    BY <1>3, <1>4, <2>1 DEF At
  <2> QED
    BY <1>3, <2>2
<1>8. /\ \A i \in 1..Len(prog) : \A j \in Transfers(prog, i) : Follows(i, j)
      /\ \A a, b \in Blocks : Edge(a, b) =>
            \E i \in 1..Len(prog) : HomeOf(i) = a /\ \E j \in Transfers(prog, i) : HomeOf(j) = b
  BY FaithfulExact
<1>9. \A i \in 1..Len(prog) : HomeOf(i) = home[i] /\ home[i] \in Blocks /\ home[i] # Exit
  <2> TAKE i \in 1..Len(prog)
  <2>1. i # Out(prog) /\ i \in 1..(pos - 1) /\ i \in 1..Len(home)
    BY <1>3, <1>5 DEF Filling
  <2>2. home[i] \in Blocks
    BY <1>5, <2>1, ElementOfSeq
  <2> QED
    BY <1>5, <2>1, <2>2 DEF HomeOf, Filling
<1>10. HomeOf(Out(prog)) = Exit
  BY DEF HomeOf
<1>11. \A i \in 1..Len(prog) : Here(i) = HomeOf(i)
  BY <1>3, <1>9 DEF Here
<1>12. HomeOf(1) = Entry
  BY <1>3, <1>5, <1>11 DEF Filling
<1>13. ASSUME NEW i \in 1..(Len(prog) - 1)
       PROVE  IF prog[i].op \in {"block", "plain"} THEN HomeOf(i + 1) = HomeOf(i)
              ELSE \A k \in 1..i : HomeOf(k) # HomeOf(i + 1)
  <2>1. /\ i \in 1..(pos - 1) /\ i < Len(prog) /\ i \in 1..Len(prog) /\ i + 1 \in 1..Len(prog)
        /\ \A k \in 1..i : k \in 1..Len(prog)
    BY <1>3
  <2>2. Straight(i)
    BY <1>5, <2>1 DEF Filling
  <2> QED
    BY <1>9, <1>11, <2>1, <2>2 DEF Straight
<1> QED
  BY <1>2, <1>6, <1>7, <1>8, <1>9, <1>10, <1>12, <1>13 DEF WasRead, Shaped, Mirrored, Housed, Begun

\* Once the first place of a block is executed, all of it is.
LEMMA WholeBlock ==
    ASSUME WasRead, NEW X, \A i \in X : i \in 1..Len(prog) => Transfers(prog, i) \subseteq X,
           NEW j \in 1..Len(prog), j \in X, \A k \in 1..(j - 1) : HomeOf(k) # HomeOf(j)
    PROVE  \A i \in 1..Len(prog) : HomeOf(i) = HomeOf(j) => i \in X
<1> DEFINE n == Len(prog)
           T == {m \in 0..n : \A i \in 1..m : HomeOf(i) = HomeOf(j) => i \in X}
<1>1. n \in Nat
  BY Heights DEF WasRead, Shaped
<1>2. 0 \in T
  BY <1>1
<1>3. ASSUME NEW m \in 0..(n - 1), m \in T PROVE m + 1 \in T
  <2>1. m + 1 \in 0..n /\ m + 1 \in 1..n /\ \A i \in 1..(m + 1) : i = m + 1 \/ i \in 1..m
    BY <1>1
  <2>2. ASSUME HomeOf(m + 1) = HomeOf(j) PROVE m + 1 \in X
    <3>1. CASE m + 1 = j
      BY <3>1
    <3>2. CASE m + 1 < j
      BY <1>1, <2>2, <3>2
    <3>3. CASE m + 1 > j
      <4>1. j \in 1..m /\ m \in 1..(n - 1) /\ m \in 1..n /\ m \in 1..m
        BY <1>1, <3>3
      <4>2. prog[m].op \in {"block", "plain"} /\ HomeOf(m + 1) = HomeOf(m)
        BY <2>2, <4>1 DEF WasRead, Begun
      <4>3. m \in X
        BY <1>3, <2>2, <4>1, <4>2
      <4>4. m + 1 \in Transfers(prog, m)
        BY <4>2, TransfersAre
      <4> QED
        BY <4>1, <4>3, <4>4
    <3> QED
      BY <1>1, <3>1, <3>2, <3>3
  <2> QED
    BY <1>3, <2>1, <2>2
<1> HIDE DEF T
<1>4. 0..n \subseteq T
  BY <1>1, <1>2, <1>3, Induct
<1>5. n \in T
  BY <1>1, <1>4
<1> QED
  BY <1>5 DEF T

\* All the places of a reachable block are executed.
LEMMA ReachableExecuted ==
    ASSUME CfgTypeOK, WasRead
    PROVE  \A b \in Avoiding(None) : \E i \in Executed(prog, {}) : HomeOf(i) = b
<1> DEFINE X == Executed(prog, {})
           Places(b) == {i \in 1..Out(prog) : HomeOf(i) = b}
           S == {b \in Blocks : Places(b) # {} /\ Places(b) \subseteq X}
<1>1. /\ Len(prog) \in Nat /\ Len(prog) >= 1 /\ Out(prog) = Len(prog) + 1 /\ Confined(prog)
      /\ Body(prog)
  BY Heights DEF WasRead, Shaped
<1>2. 1 \in X /\ \A i \in X : i \in 1..Len(prog) => Transfers(prog, i) \subseteq X
  BY <1>1, ExecutedClosed
<1>3. Graph(successors) /\ Entry \in Blocks /\ Entry # None /\ Exit # Entry
  BY BlocksFacts, NoneAssumption DEF CfgTypeOK, Graph, Blocks, Entry, Exit
<1>4. \A i \in 1..Len(prog) : HomeOf(i) \in Blocks /\ HomeOf(i) # Exit
  BY DEF WasRead, Housed
<1>5. \A b : b # Exit => Places(b) = {i \in 1..Len(prog) : HomeOf(i) = b}
  <2>1. HomeOf(Out(prog)) = Exit
    BY DEF WasRead, Housed
  <2>2. \A i : i \in 1..Out(prog) <=> i \in 1..Len(prog) \/ i = Out(prog)
    BY <1>1
  <2> QED
    BY <2>1, <2>2
<1>6. Places(Exit) = {Out(prog)}
  <2>1. HomeOf(Out(prog)) = Exit
    BY DEF WasRead, Housed
  <2>2. \A i : i \in 1..Out(prog) <=> i \in 1..Len(prog) \/ i = Out(prog)
    BY <1>1
  <2> QED
    BY <1>4, <2>1, <2>2
<1> HIDE DEF X, Places
<1>7. ASSUME NEW j \in 1..Len(prog), j \in X, \A k \in 1..(j - 1) : HomeOf(k) # HomeOf(j)
      PROVE  HomeOf(j) \in S
  <2>1. \A i \in 1..Len(prog) : HomeOf(i) = HomeOf(j) => i \in X
    BY <1>2, <1>7, WholeBlock
  <2>2. HomeOf(j) \in Blocks /\ Places(HomeOf(j)) = {i \in 1..Len(prog) : HomeOf(i) = HomeOf(j)}
    BY <1>4, <1>5
  <2> QED
    BY <2>1, <2>2
<1>8. Entry \in S
  <2>1. 1 \in 1..Len(prog) /\ HomeOf(1) = Entry /\ \A k \in 1..(1 - 1) : FALSE
    BY <1>1 DEF WasRead, Housed
  <2> QED
    BY <1>2, <1>7, <2>1
<1>9. ASSUME NEW b \in S, NEW c \in Blocks, Edge(b, c) PROVE c \in S
  <2>1. PICK i \in 1..Len(prog) : HomeOf(i) = b /\ \E j \in Transfers(prog, i) : HomeOf(j) = c
    BY <1>9 DEF WasRead, Mirrored
  <2>2. PICK j \in Transfers(prog, i) : HomeOf(j) = c
    BY <2>1
  <2>3. i \in X
    <3>1. i \in Places(b)
      BY <1>1, <2>1 DEF Places
    <3> QED
      BY <1>9, <3>1
  <2>4. j \in X /\ j \in 1..Out(prog)
    BY <1>1, <1>2, <2>3 DEF Confined
  <2>5. CASE j = Out(prog)
    <3>1. c = Exit
      BY <2>2, <2>5 DEF WasRead, Housed
    <3> QED
      BY <1>6, <2>4, <2>5, <3>1
  <2>6. CASE j # Out(prog) /\ Inner(prog, j)
    <3>1. j = i + 1
      BY <1>1, <2>6, InnerFrom DEF WasRead, Shaped
    <3>2. i \in 1..(Len(prog) - 1) /\ j - 1 = i
      BY <1>1, <2>4, <2>6, <3>1
    <3>3. HomeOf(j) = HomeOf(i)
      BY <2>6, <3>1, <3>2 DEF WasRead, Begun, Inner
    <3> QED
      BY <2>1, <2>2, <3>3
  <2>7. CASE j # Out(prog) /\ ~Inner(prog, j)
    <3>1. j \in 1..Len(prog)
      BY <1>1, <2>4, <2>7
    <3>2. \A k \in 1..(j - 1) : HomeOf(k) # HomeOf(j)
      <4>1. CASE j = 1
        BY <4>1
      <4>2. CASE j # 1
        <5> DEFINE l == j - 1
        <5>1. l \in 1..(Len(prog) - 1) /\ l \in 1..Len(prog) /\ l + 1 = j
          BY <1>1, <3>1, <4>2
        <5>2. prog[l].op \notin {"block", "plain"}
          BY <2>7, <5>1 DEF Inner
        <5> HIDE DEF l
        <5>3. \A k \in 1..l : HomeOf(k) # HomeOf(l + 1)
          BY <5>1, <5>2 DEF WasRead, Begun
        <5> QED
          BY <5>1, <5>3 DEF l
      <4> QED
        BY <4>1, <4>2
    <3>3. HomeOf(j) \in S
      BY <1>7, <2>4, <3>1, <3>2
    <3> QED
      BY <2>2, <3>3
  <2> QED
    BY <2>5, <2>6, <2>7
<1> HIDE DEF S
<1>10. Avoiding(None) \subseteq S
  BY <1>3, <1>8, <1>9, AvoidingLeast
<1>11. \A b \in S : \E i \in X : HomeOf(i) = b
  BY DEF S, Places
<1> QED
  BY <1>10, <1>11 DEF X

\* An execution that keeps out of a block stays in the blocks that can be
\* reached without it.
LEMMA ExecutedAvoiding ==
    ASSUME CfgTypeOK, WasRead, NEW a, NEW A, \A i \in 1..Len(prog) : home[i] = a => i \in A
    PROVE  \A i \in Executed(prog, A) : HomeOf(i) # a => HomeOf(i) \in Avoiding(a)
<1> DEFINE Y == {i \in 1..Out(prog) : HomeOf(i) # a => HomeOf(i) \in Avoiding(a)}
<1>1. /\ Len(prog) \in Nat /\ Len(prog) >= 1 /\ Out(prog) = Len(prog) + 1 /\ Confined(prog)
  BY Heights DEF WasRead, Shaped
<1>2. Graph(successors) /\ Exit \in Blocks
  BY DEF CfgTypeOK, Graph, Blocks, Exit
<1>3. /\ a # Entry => Entry \in Avoiding(a)
      /\ \A x \in Avoiding(a), y \in Blocks : Edge(x, y) /\ y # a => y \in Avoiding(a)
  BY <1>2, AvoidingClosed
<1>4. 1 \in Y
  BY <1>1, <1>3 DEF WasRead, Housed
<1> DEFINE Z == {i \in Y : i = Out(prog) \/ i \notin A}
<1>5. 1 \notin A => 1 \in Z
  BY <1>4
<1>6. ASSUME NEW i \in Z \ {Out(prog)}, i \in 1..Len(prog), NEW j \in Transfers(prog, i) \ A
      PROVE  j \in Z
  <2>1. i \notin A /\ HomeOf(i) # a /\ HomeOf(i) \in Avoiding(a)
    BY <1>6 DEF WasRead, Housed
  <2>2. j \in 1..Out(prog) /\ Follows(i, j)
    BY <1>6 DEF WasRead, Mirrored, Shaped, Confined
  <2>3. HomeOf(j) \in Blocks
    <3>1. j \in 1..Len(prog) \/ j = Out(prog)
      BY <1>1, <2>2
    <3> QED
      BY <1>2, <3>1 DEF WasRead, Housed
  <2>4. HomeOf(j) # a => HomeOf(j) \in Avoiding(a)
    BY <1>3, <2>1, <2>2, <2>3 DEF Follows
  <2> QED
    BY <2>2, <2>4
<1> HIDE DEF Y
<1>7. Executed(prog, A) \subseteq Z
  <2> HIDE DEF Z
  <2>1. \A i \in Z \ {Out(prog)} : i \in 1..Len(prog) => Transfers(prog, i) \ A \subseteq Z
    BY <1>6
  <2> QED
    BY <1>1, <1>5, <2>1, ExecutedLeast
<1> QED
  BY <1>7 DEF Z, Y

\* Both statements, from the dominators of the graph.
LEMMA MustPassHolds ==
    ASSUME Inv, Building, Faithful, Filled
    PROVE  MustPass
<1> SUFFICES ASSUME pc = "done", Complete, ~HasElse PROVE
      /\ reachable = {HomeOf(i) : i \in Executed(prog, {})}
      /\ \A b \in reachable : \A a \in Ancestors(b) \ {b} :
            \A i \in Executed(prog, {j \in 1..Len(prog) : home[j] = a}) : HomeOf(i) # b
  BY DEF MustPass
<1>1. CfgTypeOK /\ WasRead
  BY WholeBody DEF Inv, TypeOK
<1>2. reachable = Avoiding(None) /\ Final
  BY FinalReached DEF Inv, IdomsExact
<1>3. ASSUME NEW i \in Executed(prog, {}) PROVE HomeOf(i) \in reachable
  <2>1. \A k \in 1..Len(prog) : home[k] # None
    BY <1>1, NoneAssumption DEF WasRead, Housed, Blocks
  <2>2. HomeOf(i) # None => HomeOf(i) \in Avoiding(None)
    BY <1>1, <2>1, ExecutedAvoiding
  <2>3. HomeOf(i) # None
    <3>1. Len(prog) \in Nat /\ Confined(prog) /\ Out(prog) = Len(prog) + 1
      BY <1>1, Heights DEF WasRead, Shaped
    <3>2. i \in 1..Out(prog)
      BY <3>1, ExecutedClosed
    <3>3. i \in 1..Len(prog) \/ i = Out(prog)
      BY <3>1, <3>2
    <3> QED
      BY <1>1, <2>1, <3>3, NoneAssumption DEF WasRead, Housed, Exit
  <2> QED
    BY <1>2, <2>2, <2>3
<1>4. reachable = {HomeOf(i) : i \in Executed(prog, {})}
  <2>1. \A b \in reachable : \E i \in Executed(prog, {}) : HomeOf(i) = b
    BY <1>1, <1>2, ReachableExecuted
  <2> QED
    BY <1>3, <2>1
<1>5. ASSUME NEW b \in reachable, NEW a \in Ancestors(b) \ {b},
             NEW i \in Executed(prog, {j \in 1..Len(prog) : home[j] = a})
      PROVE  HomeOf(i) # b
  <2>1. b \notin Avoiding(a)
    BY <1>2, <1>5, AncestorsDominate DEF Doms, Dominates
  <2>2. HomeOf(i) # a => HomeOf(i) \in Avoiding(a)
    <3> DEFINE A == {j \in 1..Len(prog) : home[j] = a}
    <3>1. \A k \in 1..Len(prog) : home[k] = a => k \in A
      OBVIOUS
    <3> HIDE DEF A
    <3>2. \A k \in Executed(prog, A) : HomeOf(k) # a => HomeOf(k) \in Avoiding(a)
      BY <1>1, <3>1, ExecutedAvoiding
    <3> QED
      BY <3>2 DEF A
  <2> QED
    BY <1>5, <2>1, <2>2
<1> QED
  BY <1>4, <1>5

\* For a body without "else" the report is true of the program: a block is
\* reported reachable exactly when an execution can enter it, and no
\* execution enters it without having entered each of its ancestors.
THEOREM ReportTrue == Spec => []MustPass
<1>1. Init => Inv /\ Building /\ Faithful /\ Filled
  BY InitInv, InitBuilding, InitFaithful, InitFilling DEF Filled
<1>2. (Inv /\ Building /\ Faithful /\ Filled) /\ [Next]_vars => (Inv /\ Building /\ Faithful /\ Filled)'
  BY NextInv, NextBuilding, NextFaithful, NextFilled
<1>3. Inv /\ Building /\ Faithful /\ Filled => MustPass
  BY MustPassHolds
<1> QED
  BY <1>1, <1>2, <1>3, PTL DEF Spec
=============================================================================
