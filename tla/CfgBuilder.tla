----------------------------- MODULE CfgBuilder -----------------------------
(***************************************************************************)
(* buildCfg of src/examples/218-wasm-dominators.ts: one pass over the      *)
(* instructions of a function body turns structured control flow into      *)
(* basic blocks, with a stack of labels that says where a branch and an    *)
(* "end" lead.  Blocks are numbered from 1 here, from 0 in the code; block *)
(* 1 is the entry and block 2 the exit.                                    *)
(*                                                                         *)
(* A definition marked "mutant" is a plausible bug in the definition that  *)
(* follows it; no behaviour of the specification uses it.                  *)
(***************************************************************************)
EXTENDS StructuredControl, SequencesExt

CONSTANTS
    Programs,   \* the function bodies to consider
    MaxBlocks   \* MAX_BLOCKS, the guard against pathological inputs

ASSUME ProgramsAssumption == \A p \in Programs : p \in Seq(Instruction) /\ WellFormed(p)
ASSUME MaxBlocksAssumption == MaxBlocks \in Nat /\ MaxBlocks >= 2

VARIABLES
    prog,        \* the body
    pos,         \* the next instruction
    successors,  \* per block, in the order addEdge found them
    terminating, \* the blocks with isTerminating
    loopHeaders,
    labelStack,  \* per open construct: what a branch targets, what follows it
    current,     \* the block being filled
    home         \* history: the block in which each instruction was read

cfg == <<prog, successors, terminating, loopHeaders>>
builder == <<pos, labelStack, current, home>>

Entry == 1
Exit == 2
Blocks == 1..Len(successors)
Edge(a, b) == b \in ToSet(successors[a])

Label(target, after) == [target |-> target, after |-> after]

BuilderInit == /\ prog \in Programs
               /\ pos = 1
               /\ successors = <<<<>>, <<>>>>
               /\ terminating = {Exit}
               /\ loopHeaders = {}
               /\ labelStack = <<Label(Exit, Exit)>>
               /\ current = Entry
               /\ home = <<>>

-----------------------------------------------------------------------------
AddEdge(s, from, to) == IF to \in ToSet(s[from]) THEN s
                        ELSE [s EXCEPT ![from] = Append(@, to)]

\* s with k new blocks, which newBlock numbers consecutively.
NewBlocks(s, k) == s \o [i \in 1..k |-> <<>>]
Fresh == Len(successors) + 1

TargetAfter(d) == labelStack[Len(labelStack) - d].after       \* mutant

Target(d) == labelStack[Len(labelStack) - d].target

\* One edge for each label of the branch that exists.
AddBranches(s) ==
    LET to == prog[pos].to
        added[k \in 0..Len(to)] ==
            IF k = 0 THEN s
            ELSE IF to[k] < Len(labelStack) THEN AddEdge(added[k - 1], current, Target(to[k]))
                                            ELSE added[k - 1]
    IN  added[Len(to)]

\* The while loop reads the next instruction.
Read(ops) == /\ pos <= Len(prog) /\ Len(successors) < MaxBlocks
             /\ prog[pos].op \in ops
             /\ pos' = pos + 1
             /\ home' = Append(home, current)
             /\ UNCHANGED prog

ReadBlock == /\ Read({"block"})
             /\ successors' = NewBlocks(successors, 1)
             /\ labelStack' = Append(labelStack, Label(Fresh, Fresh))
             /\ UNCHANGED <<terminating, loopHeaders, current>>

ReadLoop == /\ Read({"loop"})
            /\ successors' = AddEdge(NewBlocks(successors, 2), current, Fresh)
            /\ loopHeaders' = loopHeaders \cup {Fresh}
            /\ labelStack' = Append(labelStack, Label(Fresh, Fresh + 1))
            /\ current' = Fresh
            /\ UNCHANGED terminating

ReadIfOneWay == /\ Read({"if"})                               \* mutant
                /\ successors' = AddEdge(NewBlocks(successors, 2), current, Fresh)
                /\ labelStack' = Append(labelStack, Label(Fresh + 1, Fresh + 1))
                /\ current' = Fresh
                /\ UNCHANGED <<terminating, loopHeaders>>

\* The false branch leads past the construct, whether or not it has an "else".
ReadIf == /\ Read({"if"})
          /\ successors' = AddEdge(AddEdge(NewBlocks(successors, 2), current, Fresh),
                                   current, Fresh + 1)
          /\ labelStack' = Append(labelStack, Label(Fresh + 1, Fresh + 1))
          /\ current' = Fresh
          /\ UNCHANGED <<terminating, loopHeaders>>

\* The then-block leads past the construct; the new block has no predecessor.
ReadElse == /\ Read({"else"})
            /\ successors' = NewBlocks(AddEdge(successors, current, Last(labelStack).after), 1)
            /\ current' = Fresh
            /\ UNCHANGED <<terminating, loopHeaders, labelStack>>

ReadEnd == /\ Read({"end"})
           /\ Len(labelStack) > 1
           /\ successors' = IF current \in terminating THEN successors
                            ELSE AddEdge(successors, current, Last(labelStack).after)
           /\ labelStack' = Front(labelStack)
           /\ current' = Last(labelStack).after
           /\ UNCHANGED <<terminating, loopHeaders>>

ReadLastEnd == /\ Read({"end"})
               /\ Len(labelStack) <= 1
               /\ successors' = AddEdge(successors, current, Exit)
               /\ UNCHANGED <<terminating, loopHeaders, labelStack, current>>

\* br, br_table, return, unreachable: what follows is a block of its own.
ReadJump == /\ Read({"br", "br_table", "return", "unreachable"})
            /\ successors' = NewBlocks(IF prog[pos].op = "return"
                                       THEN AddEdge(successors, current, Exit)
                                       ELSE AddBranches(successors), 1)
            /\ terminating' = terminating \cup {current}
            /\ current' = Fresh
            /\ UNCHANGED <<loopHeaders, labelStack>>

ReadBrIf == /\ Read({"br_if"})
            /\ successors' = AddEdge(NewBlocks(AddBranches(successors), 1), current, Fresh)
            /\ current' = Fresh
            /\ UNCHANGED <<terminating, loopHeaders, labelStack>>

ReadPlain == /\ Read({"plain"})
             /\ UNCHANGED <<successors, terminating, loopHeaders, labelStack, current>>

Build == \/ ReadBlock \/ ReadLoop \/ ReadIf \/ ReadElse \/ ReadEnd \/ ReadLastEnd
         \/ ReadJump \/ ReadBrIf \/ ReadPlain

\* The whole body was read, and not only MaxBlocks blocks of it.
Complete == pos > Len(prog)
Built == Complete \/ Len(successors) >= MaxBlocks

CfgTypeOK == /\ prog \in Programs /\ pos \in Nat \ {0}
             /\ successors \in Seq(Seq(Blocks)) /\ Len(successors) >= 2
             /\ terminating \subseteq Blocks /\ loopHeaders \subseteq Blocks
             /\ labelStack \in Seq([target : Blocks, after : Blocks]) /\ labelStack # <<>>
             /\ current \in Blocks /\ home \in Seq(Blocks)

=============================================================================
