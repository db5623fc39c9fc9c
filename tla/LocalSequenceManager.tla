------------------------ MODULE LocalSequenceManager ------------------------
(***************************************************************************)
(* src/examples/141-sequence-number-management.ts: LocalSequenceManager    *)
(* hands out sequence numbers of one account without asking Horizon, and   *)
(* refresh() re-anchors it on the ledger.  Its users build a transaction   *)
(* per number and submit it; another process may use the account too.      *)
(*                                                                         *)
(* What its users are like is an assumption, never a guard of the manager: *)
(*  - orderly users submit in the order of the numbers, as the comments of *)
(*    the file ask;                                                        *)
(*  - quiescent users, beyond what the comments ask, refresh only when     *)
(*    nothing is in flight, and allocate only while no refresh runs;       *)
(*  - abandoning users may drop a transaction they built.                  *)
(***************************************************************************)
EXTENDS Integers, Sequences

CONSTANTS
    Callers,     \* the tasks that may call refresh() concurrently
    Initial,     \* the on-ledger sequence when the manager is built
    MaxChain,    \* bound: the ledger's sequence stops there
    MaxTx,       \* bound: allocations over the life of the manager
    Habits,      \* what the users may be: sets of the three above
    Idle, Asked  \* a refresh() not running, one whose request is travelling

ASSUME SequenceAssumption ==
    /\ Initial \in Nat /\ MaxChain \in Nat /\ Initial <= MaxChain
    /\ MaxTx \in Nat
    /\ Habits \subseteq SUBSET {"orderly", "quiescent", "abandoning"}
    /\ Idle \notin Int /\ Asked \notin Int /\ Idle # Asked

VARIABLES
    habits,     \* what the users of this manager are
    chain,      \* the ledger's sequence of the account
    lastKnown,  \* lastKnownChainSequence
    cursor,
    allocated,  \* the sequence of each entry; its index is its position
    reply,      \* per caller: Idle, Asked, or the answer of loadAccount
    txs         \* every transaction built so far: its number and its fate

manager == <<lastKnown, cursor, allocated>>
sequencing == <<habits, chain, manager, reply, txs>>

Orderly == "orderly" \in habits
Quiescent == "quiescent" \in habits
Abandonment == "abandoning" \in habits
Followed == Orderly /\ ~Abandonment

Fate == {"held", "applied", "rejected", "abandoned"}
Tx == [seq : Nat, fate : Fate]
Held == {i \in 1..Len(txs) : txs[i].fate = "held"}

SequenceInit == /\ habits \in Habits
                /\ chain = Initial
                /\ lastKnown = Initial /\ cursor = Initial /\ allocated = <<>>
                /\ reply = [c \in Callers |-> Idle]
                /\ txs = <<>>

-----------------------------------------------------------------------------
(* the manager                                                             *)

nextSequence(s) == s + 1

\* allocate(), and the transaction its caller builds with the number.
Allocate == /\ Len(txs) < MaxTx
            /\ Quiescent => \A c \in Callers : reply[c] = Idle
            /\ cursor' = nextSequence(cursor)
            /\ allocated' = Append(allocated, nextSequence(cursor))
            /\ txs' = Append(txs, [seq |-> nextSequence(cursor), fate |-> "held"])
            /\ UNCHANGED <<habits, chain, lastKnown, reply>>

\* refresh() up to its await.
RefreshAsks(c) == /\ reply[c] = Idle
                  /\ Quiescent => Held = {} /\ \A d \in Callers : reply[d] = Idle
                  /\ reply' = [reply EXCEPT ![c] = Asked]
                  /\ UNCHANGED <<habits, chain, manager, txs>>

\* Horizon reads the account; the answer is on its way back.
HorizonAnswers(c) == /\ reply[c] = Asked
                     /\ reply' = [reply EXCEPT ![c] = chain]
                     /\ UNCHANGED <<habits, chain, manager, txs>>

ReanchorKeepingCursor(fresh) == /\ lastKnown' = fresh         \* mutant
                                /\ allocated' = <<>>
                                /\ UNCHANGED cursor

ReanchorAtLastKnown(fresh) == /\ lastKnown' = fresh           \* mutant
                              /\ cursor' = lastKnown
                              /\ allocated' = <<>>

ReanchorKeepingAllocated(fresh) == /\ lastKnown' = fresh      \* mutant
                                   /\ cursor' = fresh
                                   /\ UNCHANGED allocated

Reanchor(fresh) == /\ lastKnown' = fresh
                   /\ cursor' = fresh
                   /\ allocated' = <<>>

\* The rest of refresh(): only a ledger sequence that moved re-anchors.
Refreshed(fresh) == IF fresh # lastKnown THEN Reanchor(fresh) ELSE UNCHANGED manager

RefreshReturns(c) == /\ reply[c] \in Nat
                     /\ Refreshed(reply[c])
                     /\ reply' = [reply EXCEPT ![c] = Idle]
                     /\ UNCHANGED <<habits, chain, txs>>

-----------------------------------------------------------------------------
(* the users of the account, and the ledger                                *)

SetFate(i, fate) == txs' = [txs EXCEPT ![i].fate = fate]

\* Orderly users submit in the order of the numbers.
InOrder(i) == Orderly => \A j \in Held : txs[i].seq <= txs[j].seq

\* The ledger applies a transaction only with its next sequence ...
LedgerApplies(i) == /\ i \in Held /\ InOrder(i)
                    /\ txs[i].seq = chain + 1
                    /\ chain < MaxChain
                    /\ chain' = chain + 1
                    /\ SetFate(i, "applied")
                    /\ UNCHANGED <<habits, manager, reply>>

\* ... and answers tx_bad_seq to any other.
LedgerRejects(i) == /\ i \in Held /\ InOrder(i)
                    /\ txs[i].seq # chain + 1
                    /\ SetFate(i, "rejected")
                    /\ UNCHANGED <<habits, chain, manager, reply>>

Abandon(i) == /\ Abandonment
              /\ i \in Held
              /\ SetFate(i, "abandoned")
              /\ UNCHANGED <<habits, chain, manager, reply>>

\* Another process uses the account.
Elsewhere == /\ chain < MaxChain
             /\ chain' = chain + 1
             /\ UNCHANGED <<habits, manager, reply, txs>>

Ledger == Elsewhere \/ \E i \in 1..Len(txs) : LedgerApplies(i) \/ LedgerRejects(i)

SequenceNext == \/ Allocate
                \/ \E c \in Callers : RefreshAsks(c) \/ HorizonAnswers(c) \/ RefreshReturns(c)
                \/ Ledger
                \/ \E i \in 1..Len(txs) : Abandon(i)

SequenceSpec == SequenceInit /\ [][SequenceNext]_sequencing

-----------------------------------------------------------------------------
(* properties                                                              *)

SequenceTypeOK == /\ habits \in Habits
                  /\ chain \in Nat /\ lastKnown \in Nat /\ cursor \in Nat
                  /\ allocated \in Seq(Nat)
                  /\ reply \in [Callers -> Nat \cup {Idle, Asked}]
                  /\ txs \in Seq(Tx)

\* status() is consistent whatever allocate() and refresh() interleave: the
\* allocated numbers are the consecutive ones after the last known ledger
\* sequence, and the next available one follows them (lines 176-184).
Anchored == /\ cursor = lastKnown + Len(allocated)
            /\ \A i \in 1..Len(allocated) : allocated[i] = lastKnown + i

\* When nothing is in flight while a refresh runs, a number that was handed
\* out is never handed out again, not even after another process took it and
\* refresh() re-anchored the cursor.
NeverReissued == [][Followed /\ Quiescent => cursor' >= cursor]_sequencing

\* "so future allocations start from the correct position", "previously
\* allocated sequences are now invalid" (lines 163-167): no two transactions
\* in flight carry the same number, the conflict that the file's CONCURRENCY
\* RISK paragraph describes.
NoLiveDuplicate == \A i, j \in Held : i # j => txs[i].seq # txs[j].seq

\* A refresh that returns the ledger's sequence as it still is, with nothing
\* in flight by then, leaves the next number to be the one after it.
ResyncStep(c) == reply[c] = chain /\ reply'[c] = Idle /\ Held = {} => cursor' = chain

\* So it is for users that follow the comments, however many refreshes
\* overlap with their transactions and with each other: what an old answer,
\* or one overtaken by a newer, did to the cursor does not outlast it.
Resynchronised == [][Followed => \A c \in Callers : ResyncStep(c)]_sequencing

\* And so it is, as line 29 has it, for those that abandoned a transaction.
ResynchronisedAfterAbandoning == [][\A c \in Callers : ResyncStep(c)]_sequencing

=============================================================================
