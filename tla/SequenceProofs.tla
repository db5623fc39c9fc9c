----------------------------- MODULE SequenceProofs -----------------------------
(***************************************************************************)
(* The sequence numbers that transactions spend.                           *)
(*                                                                         *)
(* LocalSequenceManager, for every initial sequence, number of callers and *)
(* bound: the manager's bookkeeping is consistent whatever interleaves     *)
(* (Anchored); for users that submit in order and abandon nothing, a       *)
(* refresh that returns the current sequence resynchronises, whatever      *)
(* refreshes and transactions overlapped before; and if nothing is in      *)
(* flight while a refresh runs, no number is handed out twice.             *)
(*                                                                         *)
(* FeeBumpRecovery, for every set of fees: the destination is paid at most *)
(* once, and when the payment cannot fail a run that returns has paid.     *)
(***************************************************************************)
EXTENDS LocalSequenceManager, FeeBumpRecovery, FiniteSetTheorems, TLAPS

-----------------------------------------------------------------------------
(* LocalSequenceManager                                                    *)

\* What the manager knows of the ledger, or is about to be told, was true
\* once, and the ledger's sequence only grows.
Past == /\ lastKnown <= chain
        /\ \A c \in Callers : reply[c] \in Nat => reply[c] <= chain

\* Users that submit in order and abandon nothing hold a transaction for each
\* number that the cursor is ahead of the ledger.
Backed == \A n \in chain + 1 .. cursor : \E i \in Held : txs[i].seq = n

\* If they are quiescent too, one refresh runs at a time, with nothing in
\* flight, so that the ledger is at the cursor or beyond when it answers.
Quiet == \A c \in Callers : reply[c] # Idle =>
    /\ Held = {}
    /\ \A d \in Callers : d # c => reply[d] = Idle
Answered == \A c \in Callers : reply[c] \in Nat => cursor <= reply[c]

IInv == /\ SequenceTypeOK /\ Anchored /\ Past
        /\ Followed => Backed
        /\ Followed /\ Quiescent => Quiet /\ Answered

USE DEF sequencing, manager, nextSequence

LEMMA InitIInv == SequenceInit => IInv
BY SequenceAssumption
DEF SequenceInit, IInv, SequenceTypeOK, Anchored, Past, Backed, Quiet, Answered

LEMMA TxType ==
    ASSUME SequenceTypeOK, NEW i \in 1..Len(txs)
    PROVE  txs[i].seq \in Nat /\ txs[i].fate \in Fate
<1>1. txs[i] \in Tx
  BY DEF SequenceTypeOK
<1> QED
  BY <1>1 DEF Tx

\* The fate of one transaction changes, its number and the others do not.
LEMMA FateChanged ==
    ASSUME SequenceTypeOK, NEW i \in 1..Len(txs), NEW f \in Fate, SetFate(i, f)
    PROVE  /\ txs' \in Seq(Tx) /\ Len(txs') = Len(txs)
           /\ \A j \in 1..Len(txs) : txs'[j].seq = txs[j].seq
           /\ txs'[i].fate = f
           /\ \A j \in 1..Len(txs) : j # i => txs'[j].fate = txs[j].fate
<1>1. txs \in Seq(Tx)
  BY DEF SequenceTypeOK
<1>2. txs[i] \in Tx
  BY <1>1
<1>3. [txs[i] EXCEPT !.fate = f] \in Tx
  BY <1>2 DEF Tx
<1>4. txs' = [txs EXCEPT ![i] = [txs[i] EXCEPT !.fate = f]]
  BY DEF SetFate
<1>5. txs' \in Seq(Tx) /\ Len(txs') = Len(txs)
  BY <1>1, <1>3, <1>4
<1>6. txs'[i] = [txs[i] EXCEPT !.fate = f] /\ \A j \in 1..Len(txs) : j # i => txs'[j] = txs[j]
  BY <1>1, <1>4
<1>7. txs'[i].seq = txs[i].seq /\ txs'[i].fate = f
  BY <1>2, <1>6 DEF Tx
<1> QED
  BY <1>5, <1>6, <1>7

\* A number is handed out: one entry more at the end of both sequences.
LEMMA Allocated ==
    ASSUME SequenceTypeOK, Allocate
    PROVE  /\ allocated' \in Seq(Nat) /\ Len(allocated') = Len(allocated) + 1
           /\ \A k \in 1..Len(allocated) : allocated'[k] = allocated[k]
           /\ allocated'[Len(allocated) + 1] = cursor + 1
           /\ txs' \in Seq(Tx) /\ Len(txs') = Len(txs) + 1
           /\ \A j \in 1..Len(txs) : txs'[j] = txs[j]
           /\ txs'[Len(txs) + 1] = [seq |-> cursor + 1, fate |-> "held"]
<1>1. [seq |-> cursor + 1, fate |-> "held"] \in Tx
  BY DEF SequenceTypeOK, Tx, Fate
<1> QED
  BY <1>1 DEF SequenceTypeOK, Allocate

LEMMA TypeStep == ASSUME SequenceTypeOK, [SequenceNext]_sequencing PROVE SequenceTypeOK'
<1>0. CASE UNCHANGED sequencing
  BY <1>0 DEF SequenceTypeOK
<1>1. CASE Allocate
  BY <1>1, Allocated DEF SequenceTypeOK, Allocate
<1>2. ASSUME NEW c \in Callers, RefreshAsks(c) \/ HorizonAnswers(c) PROVE SequenceTypeOK'
  BY <1>2 DEF SequenceTypeOK, RefreshAsks, HorizonAnswers
<1>3. ASSUME NEW c \in Callers, RefreshReturns(c) PROVE SequenceTypeOK'
  <2>1. lastKnown' \in Nat /\ cursor' \in Nat /\ allocated' \in Seq(Nat)
    <3>1. reply[c] \in Nat /\ Refreshed(reply[c])
      BY <1>3 DEF RefreshReturns
    <3>2. CASE UNCHANGED manager
      BY <3>2 DEF SequenceTypeOK
    <3>3. CASE Reanchor(reply[c])
      BY <3>1, <3>3 DEF Reanchor
    <3> QED
      BY <3>1, <3>2, <3>3 DEF Refreshed
  <2>2. reply' \in [Callers -> Nat \cup {Idle, Asked}] /\ UNCHANGED <<habits, chain, txs>>
    BY <1>3 DEF SequenceTypeOK, RefreshReturns
  <2> QED
    BY <2>1, <2>2 DEF SequenceTypeOK
<1>4. CASE Elsewhere
  BY <1>4 DEF SequenceTypeOK, Elsewhere
<1>5. ASSUME NEW i \in 1..Len(txs), LedgerApplies(i) PROVE SequenceTypeOK'
  BY <1>5, FateChanged DEF SequenceTypeOK, Fate, LedgerApplies
<1>6. ASSUME NEW i \in 1..Len(txs), LedgerRejects(i) PROVE SequenceTypeOK'
  BY <1>6, FateChanged DEF SequenceTypeOK, Fate, LedgerRejects
<1>7. ASSUME NEW i \in 1..Len(txs), Abandon(i) PROVE SequenceTypeOK'
  BY <1>7, FateChanged DEF SequenceTypeOK, Fate, Abandon
<1> QED
  BY <1>0, <1>1, <1>2, <1>3, <1>4, <1>5, <1>6, <1>7 DEF SequenceNext, Ledger

LEMMA AnchoredStep == ASSUME SequenceTypeOK, Anchored, [SequenceNext]_sequencing PROVE Anchored'
<1>0. CASE UNCHANGED manager
  BY <1>0 DEF Anchored
<1>1. CASE Allocate
  <2>1. /\ Len(allocated') = Len(allocated) + 1
        /\ \A k \in 1..Len(allocated) : allocated'[k] = allocated[k]
        /\ allocated'[Len(allocated) + 1] = cursor + 1
    BY <1>1, Allocated
  <2>2. cursor' = cursor + 1 /\ lastKnown' = lastKnown
    BY <1>1 DEF Allocate
  <2>3. Len(allocated) \in Nat /\ lastKnown \in Nat /\ cursor = lastKnown + Len(allocated)
    BY DEF SequenceTypeOK, Anchored
  <2>4. ASSUME NEW k \in 1..Len(allocated') PROVE allocated'[k] = lastKnown' + k
    BY <2>1, <2>2, <2>3 DEF Anchored
  <2> QED
    BY <2>1, <2>2, <2>3, <2>4 DEF Anchored
<1>2. ASSUME NEW c \in Callers, RefreshReturns(c) PROVE Anchored'
  BY <1>2 DEF SequenceTypeOK, Anchored, RefreshReturns, Refreshed, Reanchor
<1> QED
  BY <1>0, <1>1, <1>2
  DEF SequenceNext, Ledger, RefreshAsks, HorizonAnswers, Elsewhere, LedgerApplies, LedgerRejects, Abandon

LEMMA PastStep == ASSUME SequenceTypeOK, Past, [SequenceNext]_sequencing PROVE Past'
<1>0. CASE UNCHANGED <<lastKnown, reply>> /\ chain' \in {chain, chain + 1}
  BY <1>0 DEF Past, SequenceTypeOK
<1>1. ASSUME NEW c \in Callers, RefreshAsks(c) PROVE Past'
  BY <1>1, SequenceAssumption DEF RefreshAsks, Past, SequenceTypeOK
<1>2. ASSUME NEW c \in Callers, HorizonAnswers(c) PROVE Past'
  BY <1>2 DEF HorizonAnswers, Past, SequenceTypeOK
<1>3. ASSUME NEW c \in Callers, RefreshReturns(c) PROVE Past'
  <2>1. lastKnown' \in {lastKnown, reply[c]} /\ chain' = chain
    BY <1>3 DEF RefreshReturns, Refreshed, Reanchor
  <2>2. \A d \in Callers : reply'[d] \in Nat => reply'[d] = reply[d]
    BY <1>3, SequenceAssumption DEF RefreshReturns, SequenceTypeOK
  <2>3. reply[c] \in Nat
    BY <1>3 DEF RefreshReturns
  <2> QED
    BY <2>1, <2>2, <2>3 DEF Past
<1> QED
  BY <1>0, <1>1, <1>2, <1>3
  DEF SequenceNext, Ledger, Allocate, Elsewhere, LedgerApplies, LedgerRejects, Abandon

\* A transaction in flight meets its fate: the others stay in flight.
LEMMA HeldWithout ==
    ASSUME SequenceTypeOK, NEW i \in Held, NEW f \in Fate \ {"held"}, SetFate(i, f)
    PROVE  Held' = Held \ {i} /\ \A j \in Held' : txs'[j].seq = txs[j].seq
<1>1. i \in 1..Len(txs)
  BY DEF Held
<1>2. /\ Len(txs') = Len(txs)
      /\ \A j \in 1..Len(txs) : txs'[j].seq = txs[j].seq
      /\ txs'[i].fate = f
      /\ \A j \in 1..Len(txs) : j # i => txs'[j].fate = txs[j].fate
  BY <1>1, FateChanged
<1> QED
  BY <1>1, <1>2 DEF Held

LEMMA BackedStep ==
    ASSUME SequenceTypeOK, Past, Followed, Backed, [SequenceNext]_sequencing
    PROVE  Backed'
<1>0. CASE UNCHANGED <<chain, cursor, txs>>
  BY <1>0 DEF Backed, Held
<1>1. CASE Allocate
  <2>1. /\ Len(txs') = Len(txs) + 1 /\ Len(txs) \in Nat
        /\ \A j \in 1..Len(txs) : txs'[j] = txs[j]
        /\ txs'[Len(txs) + 1] = [seq |-> cursor + 1, fate |-> "held"]
    BY <1>1, Allocated DEF SequenceTypeOK
  <2>2. cursor' = cursor + 1 /\ chain' = chain
    BY <1>1 DEF Allocate
  <2>3. Len(txs) + 1 \in Held' /\ Held \subseteq Held'
    BY <2>1 DEF Held
  <2> SUFFICES ASSUME NEW n \in chain' + 1 .. cursor' PROVE \E i \in Held' : txs'[i].seq = n
    BY DEF Backed
  <2>4. CASE n = cursor + 1
    BY <2>1, <2>3, <2>4
  <2>5. CASE n # cursor + 1
    <3>1. n \in chain + 1 .. cursor
      BY <2>2, <2>5 DEF SequenceTypeOK
    <3>2. PICK i \in Held : txs[i].seq = n
      BY <3>1 DEF Backed
    <3>3. i \in Held' /\ txs'[i] = txs[i]
      BY <2>1, <2>3, <3>2 DEF Held
    <3> QED
      BY <3>2, <3>3
  <2> QED
    BY <2>4, <2>5
<1>2. ASSUME NEW c \in Callers, RefreshReturns(c) PROVE Backed'
  <2>1. reply[c] \in Nat /\ Refreshed(reply[c]) /\ UNCHANGED <<chain, txs>>
    BY <1>2 DEF RefreshReturns
  <2>2. CASE Reanchor(reply[c])
    BY <2>1, <2>2 DEF Reanchor, Backed, Past, SequenceTypeOK
  <2>3. CASE UNCHANGED manager
    BY <2>1, <2>3, <1>0
  <2> QED
    BY <2>1, <2>2, <2>3 DEF Refreshed
<1>3. CASE Elsewhere
  <2>1. chain' = chain + 1 /\ UNCHANGED <<cursor, txs>>
    BY <1>3 DEF Elsewhere
  <2>2. Held' = Held
    BY <2>1 DEF Held
  <2>3. chain' + 1 .. cursor' \subseteq chain + 1 .. cursor
    BY <2>1 DEF SequenceTypeOK
  <2> QED
    BY <2>1, <2>2, <2>3 DEF Backed
<1>4. ASSUME NEW i \in 1..Len(txs), LedgerApplies(i) PROVE Backed'
  <2>1. /\ i \in Held /\ txs[i].seq = chain + 1 /\ chain' = chain + 1
        /\ SetFate(i, "applied") /\ cursor' = cursor
    BY <1>4 DEF LedgerApplies
  <2>2. Held' = Held \ {i} /\ \A j \in Held' : txs'[j].seq = txs[j].seq
    BY <2>1, HeldWithout DEF Fate
  <2> SUFFICES ASSUME NEW n \in chain' + 1 .. cursor' PROVE \E j \in Held' : txs'[j].seq = n
    BY DEF Backed
  <2>3. n \in chain + 1 .. cursor /\ n # chain + 1
    BY <2>1 DEF SequenceTypeOK
  <2>4. PICK j \in Held : txs[j].seq = n
    BY <2>3 DEF Backed
  <2> QED
    BY <2>1, <2>2, <2>3, <2>4
<1>5. ASSUME NEW i \in 1..Len(txs), LedgerRejects(i) PROVE Backed'
  <2>1. /\ i \in Held /\ txs[i].seq # chain + 1 /\ SetFate(i, "rejected")
        /\ UNCHANGED <<chain, cursor>>
    BY <1>5 DEF LedgerRejects
  <2>2. Held' = Held \ {i} /\ \A j \in Held' : txs'[j].seq = txs[j].seq
    BY <2>1, HeldWithout DEF Fate
  <2>3. \A j \in Held : txs[i].seq <= txs[j].seq
    BY <1>5 DEF LedgerRejects, InOrder, Followed
  <2>4. \A j \in Held : txs[j].seq \in Nat
    BY TxType DEF Held
  \* It is not the first that the ledger waits for, so none is.
  <2> SUFFICES ASSUME NEW n \in chain' + 1 .. cursor' PROVE \E j \in Held' : txs'[j].seq = n
    BY DEF Backed
  <2>5. n \in chain + 1 .. cursor /\ chain + 1 \in chain + 1 .. cursor
    BY <2>1 DEF SequenceTypeOK
  <2>6. PICK j \in Held : txs[j].seq = n
    BY <2>5 DEF Backed
  <2>7. PICK first \in Held : txs[first].seq = chain + 1
    BY <2>5 DEF Backed
  <2>8. txs[i].seq < chain + 1
    BY <2>1, <2>3, <2>4, <2>7 DEF SequenceTypeOK
  <2>9. j # i
    BY <2>1, <2>4, <2>5, <2>6, <2>8 DEF SequenceTypeOK
  <2> QED
    BY <2>2, <2>6, <2>9
<1>6. ASSUME NEW i \in 1..Len(txs), Abandon(i) PROVE Backed'
  BY <1>6 DEF Abandon, Followed
<1> QED
  BY <1>0, <1>1, <1>2, <1>3, <1>4, <1>5, <1>6
  DEF SequenceNext, Ledger, RefreshAsks, HorizonAnswers

\* With nothing in flight the cursor is not ahead of the ledger.
LEMMA NotAhead == ASSUME SequenceTypeOK, Backed, Held = {} PROVE cursor <= chain
<1> SUFFICES ASSUME ~(cursor <= chain) PROVE FALSE
  OBVIOUS
<1>1. cursor \in chain + 1 .. cursor
  BY DEF SequenceTypeOK
<1> QED
  BY <1>1 DEF Backed

LEMMA QuietStep ==
    ASSUME SequenceTypeOK, Followed, Quiescent, Backed, Quiet, Answered, [SequenceNext]_sequencing
    PROVE  Quiet' /\ Answered'
<1>0. CASE UNCHANGED <<cursor, reply, txs>>
  BY <1>0 DEF Quiet, Answered, Held
<1>1. CASE Allocate
  <2>1. \A c \in Callers : reply[c] = Idle /\ reply'[c] = Idle
    BY <1>1 DEF Allocate
  <2> QED
    BY <2>1, SequenceAssumption DEF Quiet, Answered
<1>2. ASSUME NEW c \in Callers, RefreshAsks(c) PROVE Quiet' /\ Answered'
  <2>1. /\ Held = {} /\ \A d \in Callers : reply[d] = Idle
        /\ reply' = [reply EXCEPT ![c] = Asked] /\ UNCHANGED <<cursor, txs>>
    BY <1>2 DEF RefreshAsks
  <2>2. Held' = {}
    BY <2>1 DEF Held
  <2> QED
    BY <2>1, <2>2, SequenceAssumption DEF Quiet, Answered, SequenceTypeOK
<1>3. ASSUME NEW c \in Callers, HorizonAnswers(c) PROVE Quiet' /\ Answered'
  <2>1. /\ reply[c] = Asked /\ reply' = [reply EXCEPT ![c] = chain]
        /\ UNCHANGED <<cursor, txs>>
    BY <1>3 DEF HorizonAnswers
  <2>2. Held = {} /\ \A d \in Callers : d # c => reply[d] = Idle
    BY <2>1, SequenceAssumption DEF Quiet
  <2>3. cursor <= chain
    BY <2>2, NotAhead
  <2>4. Held' = {}
    BY <2>1, <2>2 DEF Held
  <2>5. Quiet'
    BY <2>1, <2>2, <2>4 DEF Quiet, SequenceTypeOK
  <2>6. Answered'
    BY <2>1, <2>2, <2>3, SequenceAssumption DEF Answered, SequenceTypeOK
  <2> QED
    BY <2>5, <2>6
<1>4. ASSUME NEW c \in Callers, RefreshReturns(c) PROVE Quiet' /\ Answered'
  <2>1. reply[c] \in Nat /\ reply' = [reply EXCEPT ![c] = Idle]
    BY <1>4 DEF RefreshReturns
  <2>2. \A d \in Callers : reply'[d] = Idle
    BY <2>1, SequenceAssumption DEF Quiet, SequenceTypeOK
  <2> QED
    BY <2>2, SequenceAssumption DEF Quiet, Answered
<1>5. ASSUME NEW i \in 1..Len(txs), LedgerApplies(i) \/ LedgerRejects(i) PROVE Quiet' /\ Answered'
  <2>1. i \in Held /\ reply' = reply
    BY <1>5 DEF LedgerApplies, LedgerRejects
  <2>2. \A c \in Callers : reply'[c] = Idle
    BY <2>1 DEF Quiet
  <2> QED
    BY <2>2, SequenceAssumption DEF Quiet, Answered
<1>6. ASSUME NEW i \in 1..Len(txs), Abandon(i) PROVE Quiet' /\ Answered'
  BY <1>6 DEF Abandon, Followed
<1> QED
  BY <1>0, <1>1, <1>2, <1>3, <1>4, <1>5, <1>6 DEF SequenceNext, Ledger, Elsewhere

\* The habits of the users do not change.
LEMMA HabitsStep == [SequenceNext]_sequencing => UNCHANGED <<Followed, Quiescent>>
<1>1. [SequenceNext]_sequencing => UNCHANGED habits
  BY DEF SequenceNext, Ledger, Allocate, RefreshAsks, HorizonAnswers, RefreshReturns, Elsewhere,
         LedgerApplies, LedgerRejects, Abandon
<1> QED
  BY <1>1 DEF Followed, Orderly, Quiescent, Abandonment

LEMMA Inductive == SequenceSpec => []IInv
<1>1. IInv /\ [SequenceNext]_sequencing => IInv'
  <2> SUFFICES ASSUME IInv, [SequenceNext]_sequencing PROVE IInv'
    OBVIOUS
  <2>1. SequenceTypeOK' /\ Anchored' /\ Past'
    BY TypeStep, AnchoredStep, PastStep DEF IInv
  <2>2. ASSUME Followed' PROVE Backed'
    BY <2>2, HabitsStep, BackedStep DEF IInv
  <2>3. ASSUME Followed', Quiescent' PROVE Quiet' /\ Answered'
    BY <2>3, HabitsStep, QuietStep DEF IInv
  <2> QED
    BY <2>1, <2>2, <2>3 DEF IInv
<1> QED
  BY InitIInv, <1>1, PTL DEF SequenceSpec

-----------------------------------------------------------------------------
\* SequenceTypeOK, for every value of the constants.
THEOREM TypeCorrect == SequenceSpec => []SequenceTypeOK
BY Inductive, PTL DEF IInv

\* The bookkeeping that status() shows is consistent (allocate and refresh of
\* LocalSequenceManager), with any number of callers racing.
THEOREM BookkeepingConsistent == SequenceSpec => []Anchored
BY Inductive, PTL DEF IInv

\* If nothing is in flight while refresh() runs, which nothing in the code
\* sees to, allocate() never hands a number out again, not even after the
\* cursor followed the ledger past numbers another process took.
THEOREM NoNumberTwice == SequenceSpec => NeverReissued
<1>1. IInv /\ [SequenceNext]_sequencing => [Followed /\ Quiescent => cursor' >= cursor]_sequencing
  <2> SUFFICES ASSUME IInv, Followed, Quiescent, SequenceNext PROVE cursor' >= cursor \/ cursor' = cursor
    BY DEF IInv, SequenceTypeOK
  <2>1. CASE Allocate
    BY <2>1 DEF Allocate, IInv, SequenceTypeOK
  <2>2. ASSUME NEW c \in Callers, RefreshReturns(c) PROVE cursor' >= cursor \/ cursor' = cursor
    BY <2>2 DEF RefreshReturns, Refreshed, Reanchor, IInv, SequenceTypeOK, Answered
  <2> QED
    BY <2>1, <2>2 DEF SequenceNext, Ledger, RefreshAsks, HorizonAnswers, Elsewhere, LedgerApplies,
                      LedgerRejects, Abandon
<1> QED
  BY Inductive, <1>1, PTL DEF SequenceSpec, NeverReissued

\* For users that submit in order and abandon nothing, a refresh() that
\* returns the current sequence with nothing in flight leaves the cursor
\* there: it was not ahead of the ledger, and was re-anchored if behind, in
\* whatever order the answers of other refreshes came.
THEOREM RefreshResynchronises == SequenceSpec => Resynchronised
<1>1. IInv /\ [SequenceNext]_sequencing => [Followed => \A c \in Callers : ResyncStep(c)]_sequencing
  <2> SUFFICES ASSUME IInv, Followed, SequenceNext, NEW c \in Callers,
                      reply[c] = chain, reply'[c] = Idle, Held = {}
               PROVE  cursor' = chain
    BY DEF ResyncStep
  <2>1. chain \in Nat /\ chain # Idle
    BY SequenceAssumption DEF IInv, SequenceTypeOK
  <2>2. PICK d \in Callers : RefreshReturns(d)
    BY <2>1, SequenceAssumption
    DEF SequenceNext, Ledger, Allocate, RefreshAsks, HorizonAnswers, Elsewhere,
        LedgerApplies, LedgerRejects, Abandon, IInv, SequenceTypeOK
  <2>3. d = c
    BY <2>1, <2>2 DEF RefreshReturns, IInv, SequenceTypeOK
  <2>4. Refreshed(chain)
    BY <2>2, <2>3 DEF RefreshReturns
  <2>5. CASE chain # lastKnown
    BY <2>4, <2>5 DEF Refreshed, Reanchor
  <2>6. CASE chain = lastKnown
    <3>1. cursor' = cursor
      BY <2>4, <2>6 DEF Refreshed
    <3>2. cursor <= chain
      BY NotAhead DEF IInv
    <3>3. lastKnown <= cursor
      BY DEF IInv, Anchored, SequenceTypeOK
    <3> QED
      BY <2>6, <3>1, <3>2, <3>3 DEF IInv, SequenceTypeOK
  <2> QED
    BY <2>5, <2>6
<1> QED
  BY Inductive, <1>1, PTL DEF SequenceSpec, Resynchronised

-----------------------------------------------------------------------------
(* FeeBumpRecovery                                                         *)

\* The one sequence number guards the ledger: while it is not spent nothing
\* is included, and everything that is included is one and the same.
OneSequence == /\ spent \subseteq {"inner"}
               /\ spent = {} => included = {}
               /\ \A r, s \in included : r = s

\* What a run has seen in an answer is in the ledger.
Witnessed == /\ phase \in Returned \cup {"confirm"} => included # {}
             /\ visible \subseteq Included
             /\ ~OpsMayFail => \A r \in included : r.ok

RecoveryInv == RecoveryTypeOK /\ OneSequence /\ Witnessed

USE DEF recovery, fees, outside, Goto, Envelope, Returned, Waiting

LEMMA InitRecoveryInv == RecoveryInit => RecoveryInv
BY DEF RecoveryInit, RecoveryInv, RecoveryTypeOK, OneSequence, Witnessed, Included

\* One more envelope in the ledger: it is the only one.
LEMMA Inclusion ==
    ASSUME RecoveryInv, NEW env \in Envelope, Include(env)
    PROVE  /\ \E ok \in BOOLEAN : included' = {[env |-> env, ok |-> ok]} /\ (~OpsMayFail => ok)
           /\ spent' = {"inner"} /\ visible = {}
<1>1. spent = {} /\ spent' = {"inner"} /\ included = {}
  BY DEF Include, SequenceOf, RecoveryInv, OneSequence
<1>2. PICK ok \in {TRUE} \cup {~OpsMayFail} : included' = included \cup {[env |-> env, ok |-> ok]}
  BY DEF Include
<1>3. ok \in BOOLEAN /\ (~OpsMayFail => ok)
  BY <1>2, FeesAssumption
<1> QED
  BY <1>1, <1>2, <1>3 DEF RecoveryInv, RecoveryTypeOK, Included

LEMMA NextRecoveryInv == RecoveryInv /\ [RecoveryNext]_recovery => RecoveryInv'
<1> SUFFICES ASSUME RecoveryInv, [RecoveryNext]_recovery PROVE RecoveryInv'
  OBVIOUS
<1>0. CASE UNCHANGED recovery
  BY <1>0 DEF RecoveryInv, RecoveryTypeOK, OneSequence, Witnessed, Included
<1>1. CASE IncludeLate
  <2>1. PICK env \in flying : Include(env) /\ flying' = flying \ {env}
    BY <1>1 DEF IncludeLate
  <2>2. UNCHANGED <<phase, fees, price, visible, expired, confirmed>>
    BY <1>1 DEF IncludeLate
  <2>3. env \in Envelope
    BY DEF RecoveryInv, RecoveryTypeOK
  <2>4. PICK ok \in BOOLEAN : included' = {[env |-> env, ok |-> ok]} /\ (~OpsMayFail => ok)
    BY <2>1, <2>3, Inclusion
  <2>5. spent' = {"inner"} /\ visible = {}
    BY <2>1, <2>3, Inclusion
  <2>6. RecoveryTypeOK'
    <3>1. included' \subseteq [env : Envelope, ok : BOOLEAN]
      BY <2>3, <2>4
    <3>2. visible' \subseteq Included'
      BY <2>2, <2>5
    <3>3. flying' \subseteq Envelope /\ spent' \subseteq Envelope
      BY <2>1, <2>5 DEF RecoveryInv, RecoveryTypeOK
    <3> QED
      BY <2>2, <3>1, <3>2, <3>3 DEF RecoveryInv, RecoveryTypeOK
  <2>7. OneSequence' /\ Witnessed'
    BY <2>2, <2>4, <2>5 DEF OneSequence, Witnessed
  <2> QED
    BY <2>6, <2>7 DEF RecoveryInv
<1>2. CASE Step
  <2>1. UNCHANGED <<fees, price, included, visible, expired, spent>>
    BY <1>2 DEF Step, Submit, OriginalAccepted, OriginalFailed, OriginalUnknown, FirstDelay, Lookup,
                LookupThrows, Verify, BumpAccepted, BumpThrows, Confirm
  <2>2. flying' \subseteq Envelope /\ confirmed' \in BOOLEAN
    <3>1. flying' \subseteq flying \cup Envelope
      BY <1>2 DEF Step, Submit, OriginalAccepted, OriginalFailed, OriginalUnknown, FirstDelay, Lookup,
                  LookupThrows, Verify, BumpAccepted, BumpThrows, Confirm
    <3>2. \/ confirmed' \in {TRUE, confirmed}
          \/ confirmed' = ("inner" \in visible)
      BY <1>2 DEF Step, Submit, OriginalAccepted, OriginalFailed, OriginalUnknown, FirstDelay, Lookup,
                  LookupThrows, Verify, BumpAccepted, BumpThrows, Confirm, IsTransactionConfirmed
    <3>3. confirmed \in BOOLEAN
      BY DEF RecoveryInv, RecoveryTypeOK
    <3>4. confirmed' \in BOOLEAN
      <4>1. CASE confirmed' \in {TRUE, confirmed}
        BY <3>3, <4>1, Zenon
      <4>2. CASE confirmed' = ("inner" \in visible)
        <5>1. CASE "inner" \in visible
          BY <4>2, <5>1
        <5>2. CASE "inner" \notin visible
          BY <4>2, <5>2
        <5> QED
          BY <5>1, <5>2
      <4> QED
        BY <3>2, <4>1, <4>2, Zenon
    <3> QED
      BY <3>1, <3>4 DEF RecoveryInv, RecoveryTypeOK
  <2>3. phase' \in {"submit", "threw"} \cup Waiting \cup Returned
    BY <1>2 DEF Step, Submit, OriginalAccepted, OriginalFailed, OriginalUnknown, FirstDelay, Lookup,
                LookupThrows, Verify, BumpAccepted, BumpThrows, Confirm, RecoveryInv, RecoveryTypeOK
  <2>4. phase' \in Returned \cup {"confirm"} => included # {}
    BY <1>2 DEF Step, Submit, OriginalAccepted, OriginalFailed, OriginalUnknown, FirstDelay, Lookup,
                LookupThrows, Verify, BumpAccepted, BumpThrows, Confirm, IsTransactionConfirmed,
                RecoveryInv, Witnessed, Included
  <2> QED
    BY <2>1, <2>2, <2>3, <2>4 DEF RecoveryInv, RecoveryTypeOK, OneSequence, Witnessed, Included
<1>3. CASE Lose \/ PriceMoves \/ Expire
  BY <1>3 DEF Lose, PriceMoves, Expire, RecoveryInv, RecoveryTypeOK, OneSequence, Witnessed, Included
<1>4. CASE Ingest
  BY <1>4 DEF Ingest, RecoveryInv, RecoveryTypeOK, OneSequence, Witnessed, Included
<1> QED
  BY <1>0, <1>1, <1>2, <1>3, <1>4 DEF RecoveryNext

LEMMA RecoveryInductive == RecoverySpec => []RecoveryInv
BY InitRecoveryInv, NextRecoveryInv, PTL DEF RecoverySpec

-----------------------------------------------------------------------------
\* RecoveryTypeOK, for every set of fees.
THEOREM RecoveryTypeCorrect == RecoverySpec => []RecoveryTypeOK
BY RecoveryInductive, PTL DEF RecoveryInv

\* The payment reaches the ledger at most once although two envelopes carry
\* it: both spend the sequence number of the inner transaction (line 189).
THEOREM NeverPaidTwice == RecoverySpec => []PaidAtMostOnce
<1>1. RecoveryInv => PaidAtMostOnce
  <2> SUFFICES ASSUME RecoveryInv PROVE Cardinality(included) <= 1
    BY DEF PaidAtMostOnce
  <2>1. CASE included = {}
    BY <2>1, FS_EmptySet
  <2>2. CASE included # {}
    <3>1. PICK r : included = {r}
      BY <2>2 DEF RecoveryInv, OneSequence
    <3> QED
      BY <3>1, FS_Singleton
  <2> QED
    BY <2>1, <2>2
<1> QED
  BY RecoveryInductive, <1>1, PTL

\* When the payment operation cannot fail, a run that returns has paid.
THEOREM ReturnedHasPaid == ASSUME ~OpsMayFail PROVE RecoverySpec => []ReturnMeansPaid
<1>1. RecoveryInv => ReturnMeansPaid
  BY DEF RecoveryInv, Witnessed, ReturnMeansPaid
<1> QED
  BY RecoveryInductive, <1>1, PTL

=============================================================================
