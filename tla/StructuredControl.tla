-------------------------- MODULE StructuredControl --------------------------
(***************************************************************************)
(* Where control may go in a WebAssembly function body: the rules of the   *)
(* language that src/examples/218-wasm-dominators.ts analyses.  A body is  *)
(* a sequence of instructions [op, to]; "to" holds the label depths of a   *)
(* branch.  Instructions that only compute are "plain".                    *)
(***************************************************************************)
EXTENDS Integers, Sequences, FiniteSets

Openers == {"block", "loop", "if"}

Instruction == [op : {"br", "br_if", "br_table", "else", "end", "return", "unreachable", "plain"}
                        \cup Openers,
                to : Seq(Nat)]

Before(p, i, ops) == Cardinality({j \in 1..(i - 1) : p[j].op \in ops})

\* How many labels enclose instruction i; the function itself is the first.
Height(p, i) == 1 + Before(p, i, Openers) - Before(p, i, {"end"})

\* The instruction with operator op that belongs to the construct opened at o.
PartOf(p, o, op) == {j \in (o + 1)..Len(p) :
    /\ p[j].op = op
    /\ Height(p, j) = Height(p, o) + 1
    /\ \A k \in (o + 1)..(j - 1) : p[k].op = "end" => Height(p, k) > Height(p, o) + 1}

The(S) == CHOOSE x \in S : TRUE

EndOf(p, o) == The(PartOf(p, o, "end"))

\* The construct that the label of depth d names at instruction i.
Labelled(p, i, d) == {o \in 1..(i - 1) :
    /\ p[o].op \in Openers
    /\ Height(p, o) = Height(p, i) - d - 1
    /\ EndOf(p, o) >= i}

\* The function returns: one place past its last instruction.
Out(p) == Len(p) + 1

\* A branch to a loop enters it again, any other leaves the construct, and
\* one to the outermost label leaves the function.
BranchTarget(p, i, d) ==
    IF d + 1 = Height(p, i) THEN Out(p)
    ELSE LET o == The(Labelled(p, i, d))
         IN  IF p[o].op = "loop" THEN o + 1 ELSE EndOf(p, o) + 1

Targets(p, i) == {BranchTarget(p, i, p[i].to[k]) : k \in 1..Len(p[i].to)}

\* The instruction in whose then-part the "else" at i ends.
IfOf(p, i) == The({o \in 1..(i - 1) : p[o].op = "if" /\ i \in PartOf(p, o, "else")})

\* The places that can be executed immediately after instruction i.
Transfers(p, i) ==
    CASE p[i].op \in {"br", "br_table"} -> Targets(p, i)
      [] p[i].op = "br_if"  -> Targets(p, i) \cup {i + 1}
      [] p[i].op = "return" -> {Out(p)}
      [] p[i].op = "unreachable" -> {}
      [] p[i].op = "if"     -> {i + 1} \cup
             (IF PartOf(p, i, "else") = {} THEN {EndOf(p, i) + 1}
                                           ELSE {The(PartOf(p, i, "else")) + 1})
      [] p[i].op = "else"   -> {EndOf(p, IfOf(p, i)) + 1}
      [] OTHER              -> {i + 1}

\* What the validator of WebAssembly lets through: constructs nest, the last
\* "end" closes the function, "else" stands once in an "if", only branches name
\* labels, and these exist.
WellFormed(p) ==
    /\ p # <<>>
    /\ \A i \in 1..Len(p) : Height(p, i) >= 1
    /\ Height(p, Out(p)) = 0
    /\ \A i \in 1..Len(p) :
         /\ p[i].to = <<>> \/ p[i].op \in {"br", "br_if", "br_table"}
         /\ \A k \in 1..Len(p[i].to) : p[i].to[k] < Height(p, i)
         /\ p[i].op = "else" => \E o \in 1..(i - 1) : /\ p[o].op = "if"
                                                      /\ PartOf(p, o, "else") = {i}

\* Every place an execution can get to without passing a place of avoided.
Executed(p, avoided) ==
    LET R[k \in 0..Len(p)] ==
            IF k = 0 THEN {1} \ avoided
            ELSE R[k - 1] \cup
                 ((UNION {Transfers(p, i) : i \in R[k - 1] \ {Out(p)}}) \ avoided)
    IN  R[Len(p)]

=============================================================================
