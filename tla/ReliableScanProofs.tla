------------------------- MODULE ReliableScanProofs -------------------------
(***************************************************************************)
(* For every number of processes, scopes, history and page size: the type  *)
(* invariant, that no crash, retry or concurrent run loses a record        *)
(* (NoLoss), that the checkpoint is never half-written (NeverTorn), and    *)
(* that the scan implements CheckpointContract.                            *)
(***************************************************************************)
EXTENDS ReliableScan, TLAPS

\* The steps of a run that leave the checkpoint and its contents alone keep
\* these facts; together with TypeOK and NoLoss they are inductive.

\* What a run holds in memory was processed: where it resumes from, and the
\* identities it refuses to process again.
MemoryInv == \A p \in Procs :
    /\ Covered(scope[p], cursor[p])
    /\ seen[p] \cup batch[p] \subseteq processed[scope[p]]

\* While a page is handled, a record that is not waiting was processed.
PageInv == \A p \in Procs :
    /\ \A q \in todo[p] : IdOf[scope[p]][q] # Skip
    /\ (pc[p] = "process" /\ Advances(p)) => \A q \in (cursor[p] + 1)..answer[p] :
           q \in todo[p] \/ IdOf[scope[p]][q] \in processed[scope[p]] \cup {Skip}
    /\ pc[p] = "process" => /\ \A q \in todo[p] : q > cursor[p]
                            /\ Advances(p) => answer[p] > cursor[p]

\* While a checkpoint is saved, everything it covers was processed.
SaveInv == \A p \in Procs :
    /\ pc[p] \in {"writing", "rename"} => answer[p] > cursor[p] /\ Covered(scope[p], answer[p])
    /\ pc[p] = "rename" => tmp[p] = [scope |-> scope[p], cursor |-> answer[p]]

\* The two counters stand below their bounds while they can still grow.
BudgetInv == \A p \in Procs :
    /\ pc[p] \in Running => pages[p] < MaxPages
    /\ pc[p] = "backoff" => attempt[p] < MaxRetries

Safe == NoLoss /\ NeverTorn /\ MemoryInv /\ PageInv /\ SaveInv /\ BudgetInv

IInv == TypeOK /\ Safe

USE DEF vars, world, page, run, Position, Checkpoint, FileContent, Running, Stopped,
        MaxRetries, Goto

\* What the history can hold at a position.
LEMMA IdentityType ==
    ASSUME NEW s \in Scopes, NEW q \in 1..N
    PROVE  IdOf[s][q] \in Ids \cup {NoId, Skip}
BY HistoryAssumption

LEMMA InitIInv == Init => IInv
BY BoundsAssumption, FileAssumption
DEF Init, IInv, Safe, TypeOK, NoLoss, NeverTorn, MemoryInv, PageInv, SaveInv, BudgetInv,
    Covered

LEMMA TypeStep == ASSUME IInv, [Next]_vars PROVE TypeOK'
<1> USE DEF IInv, Safe, TypeOK
<1>0. CASE UNCHANGED vars
  BY <1>0
<1>1. ASSUME NEW p \in Procs, Start(p) PROVE TypeOK'
  <2>1. PICK s \in Scopes : Loadable(file, s) /\ scope' = [scope EXCEPT ![p] = s]
    BY <1>1 DEF Start
  <2>2. LoadedCursor(file) \in Position
    BY <2>1, BoundsAssumption, FileAssumption DEF Loadable, LoadedCursor
  <2>3. <<>> \in Seq(1..N)
    OBVIOUS
  <2> QED
    BY <1>1, <2>1, <2>2, <2>3, BoundsAssumption DEF Start
<1>2. ASSUME NEW p \in Procs, Refuse(p) PROVE TypeOK'
  BY <1>2 DEF Refuse
<1>3. ASSUME NEW p \in Procs, FetchPage(p) PROVE TypeOK'
  <2>1. PICK hi \in cursor[p]..head[scope[p]] :
           todo' = [todo EXCEPT ![p] = Matches(scope[p], cursor[p] + 1, hi)]
           /\ \E c \in {hi, cursor[p], 0} : answer' = [answer EXCEPT ![p] = c]
    BY <1>3 DEF FetchPage
  <2>2. hi \in Position /\ cursor[p] \in Position
    BY BoundsAssumption
  <2>3. Matches(scope[p], cursor[p] + 1, hi) \subseteq 1..N
    BY <2>2, BoundsAssumption DEF Matches
  <2>4. todo' \in [Procs -> SUBSET (1..N)] /\ answer' \in [Procs -> Position]
    BY <2>1, <2>2, <2>3, BoundsAssumption
  <2>5. nonempty' \in [Procs -> BOOLEAN]
    BY <1>3, Zenon DEF FetchPage
  <2>6. attempt' = [attempt EXCEPT ![p] = 0] /\ batch' = [batch EXCEPT ![p] = {}]
    BY <1>3, Zenon DEF FetchPage
  <2>7. pc' = [pc EXCEPT ![p] = "process"]
    BY <1>3, Zenon DEF FetchPage
  <2> QED
    BY <1>3, <2>4, <2>5, <2>6, <2>7 DEF FetchPage
<1>4. ASSUME NEW p \in Procs, FetchTransient(p) PROVE TypeOK'
  BY <1>4 DEF FetchTransient
<1>5. ASSUME NEW p \in Procs, Wake(p) PROVE TypeOK'
  <2>1. attempt[p] \in 0..MaxRetries /\ attempt[p] < MaxRetries
    BY <1>5 DEF Wake, BudgetInv
  <2>2. attempt' = [attempt EXCEPT ![p] = attempt[p] + 1]
    BY <1>5 DEF Wake
  <2>3. attempt' \in [Procs -> 0..MaxRetries]
    BY <2>1, <2>2
  <2> QED
    BY <1>5, <2>3 DEF Wake
<1>6. ASSUME NEW p \in Procs, FetchFails(p) PROVE TypeOK'
  BY <1>6 DEF FetchFails
<1>7. ASSUME NEW p \in Procs, ProcessRecord(p) PROVE TypeOK'
  <2>1. PICK q \in todo[p] : /\ IdOf[scope[p]][q] # NoId
                            /\ processed' = [processed EXCEPT ![scope[p]] = @ \cup {IdOf[scope[p]][q]}]
                            /\ log' = [log EXCEPT ![p] = Append(@, q)]
                            /\ Visit(p, q)
    BY <1>7 DEF ProcessRecord
  <2>2. q \in 1..N /\ IdOf[scope[p]][q] \in Ids
    <3>1. q \in 1..N /\ scope[p] \in Scopes
      BY <2>1
    <3>2. IdOf[scope[p]][q] \in Ids \cup {NoId, Skip}
      BY <3>1, IdentityType
    <3>3. IdOf[scope[p]][q] # Skip
      BY <2>1 DEF PageInv
    <3> QED
      BY <2>1, <3>1, <3>2, <3>3
  <2>3. Append(log[p], q) \in Seq(1..N)
    BY <2>2
  <2> QED
    BY <2>1, <2>2, <2>3 DEF Visit
<1>8. ASSUME NEW p \in Procs, SkipDuplicate(p) PROVE TypeOK'
  <2>1. PICK q \in todo[p] : Known(p, q) /\ Visit(p, q) /\ UNCHANGED <<processed, log>>
    BY <1>8 DEF SkipDuplicate
  <2>2. IdOf[scope[p]][q] \in Ids
    BY <2>1 DEF Known
  <2> QED
    BY <2>1, <2>2 DEF Visit
<1>9. ASSUME NEW p \in Procs, RecordFails(p) PROVE TypeOK'
  BY <1>9 DEF RecordFails
<1>10. ASSUME NEW p \in Procs, StopAtPage(p) PROVE TypeOK'
  BY <1>10 DEF StopAtPage
<1>11. ASSUME NEW p \in Procs, BeginWrite(p) PROVE TypeOK'
  BY <1>11 DEF BeginWrite
<1>12. ASSUME NEW p \in Procs, EndWrite(p) PROVE TypeOK'
  BY <1>12 DEF EndWrite
<1>13. ASSUME NEW p \in Procs, Rename(p) PROVE TypeOK'
  BY <1>13, BoundsAssumption DEF Rename, AfterCommit, BudgetInv
<1>14. ASSUME NEW p \in Procs, SaveFails(p) PROVE TypeOK'
  BY <1>14 DEF SaveFails
<1>15. ASSUME NEW p \in Procs, Crash(p) PROVE TypeOK'
  BY <1>15 DEF Crash
<1>16. CASE Publish
  BY <1>16, BoundsAssumption DEF Publish
<1>17. CASE OperatorEdits
  BY <1>17 DEF OperatorEdits
<1> QED
  BY <1>0, <1>1, <1>2, <1>3, <1>4, <1>5, <1>6, <1>7, <1>8, <1>9, <1>10, <1>11, <1>12, <1>13, <1>14, <1>15, <1>16, <1>17 DEF Next, Load, RunStep, Retrieve, Handle, Close

\* Processed identities are never forgotten.
LEMMA ProcessedGrows ==
    ASSUME TypeOK, [Next]_vars, NEW s \in Scopes
    PROVE  processed[s] \subseteq processed'[s]
<1>1. ASSUME NEW p \in Procs, ProcessRecord(p) PROVE processed[s] \subseteq processed'[s]
  <2>1. PICK q \in todo[p] :
           processed' = [processed EXCEPT ![scope[p]] = @ \cup {IdOf[scope[p]][q]}]
    BY <1>1 DEF ProcessRecord
  <2> QED
    BY <2>1 DEF TypeOK
<1>2. ASSUME NEW p \in Procs, Load(p) \/ Retrieve(p) \/ SkipDuplicate(p) \/ RecordFails(p)
                              \/ Close(p) \/ Crash(p)
      PROVE  processed' = processed
  BY <1>2, Zenon DEF Load, Start, Refuse, Retrieve, FetchPage, FetchTransient, Wake, FetchFails,
     SkipDuplicate, RecordFails, Close, StopAtPage, BeginWrite, EndWrite, Rename, SaveFails, Crash
<1>3. Publish \/ OperatorEdits \/ UNCHANGED vars => processed' = processed
  BY DEF Publish, OperatorEdits
<1> QED
  BY <1>1, <1>2, <1>3 DEF Next, RunStep, Handle

LEMMA CoveredStable ==
    ASSUME TypeOK, [Next]_vars, NEW s \in Scopes, NEW c \in Position, Covered(s, c)
    PROVE  Covered(s, c)'
BY ProcessedGrows DEF Covered

\* A step that only moves pc, to a place where nothing is claimed, keeps all.
LEMMA QuietStep ==
    ASSUME IInv, NEW p \in Procs, UNCHANGED <<world, page, run>>,
           NEW l \in Stopped \cup {"backoff"}, pc' = [pc EXCEPT ![p] = l],
           l = "backoff" => pc[p] \in Running /\ attempt[p] < MaxRetries
    PROVE  Safe'
<1> USE DEF IInv, Safe, TypeOK
<1>1. NoLoss' /\ NeverTorn' /\ MemoryInv'
  BY DEF NoLoss, NeverTorn, MemoryInv, Covered
<1>2. PageInv'
  BY DEF PageInv, Advances
<1>3. SaveInv'
  BY DEF SaveInv, Covered
<1>4. BudgetInv'
  BY DEF BudgetInv
<1> QED
  BY <1>1, <1>2, <1>3, <1>4

LEMMA SafeStep == ASSUME IInv, [Next]_vars PROVE Safe'
<1> USE DEF IInv
<1>0. CASE UNCHANGED vars
  BY <1>0 DEF Safe, NoLoss, NeverTorn, MemoryInv, PageInv, SaveInv, BudgetInv, Covered, Advances
<1>1. ASSUME NEW p \in Procs, Refuse(p) \/ FetchFails(p) \/ RecordFails(p)
                              \/ StopAtPage(p) \/ SaveFails(p) \/ Crash(p)
      PROVE  Safe'
  <2>1. PICK l \in Stopped : pc' = [pc EXCEPT ![p] = l] /\ UNCHANGED <<world, page, run>>
    BY <1>1 DEF Refuse, FetchFails, RecordFails, StopAtPage, SaveFails, Crash
  <2> QED
    BY <2>1, QuietStep
<1>2. ASSUME NEW p \in Procs, FetchTransient(p) PROVE Safe'
  BY <1>2, QuietStep DEF FetchTransient, RetriesLeft
<1>3. ASSUME NEW p \in Procs, Start(p) PROVE Safe'
  <2>1. PICK s \in Scopes : /\ Loadable(file, s)
                            /\ scope' = [scope EXCEPT ![p] = s]
                            /\ cursor' = [cursor EXCEPT ![p] = LoadedCursor(file)]
    BY <1>3 DEF Start
  <2>2. Covered(s, LoadedCursor(file))
    BY <2>1, FileAssumption DEF Loadable, LoadedCursor, Safe, NoLoss, Covered
  <2>3. NoLoss' /\ NeverTorn'
    BY <1>3 DEF Start, Safe, NoLoss, NeverTorn, Covered
  <2>4. MemoryInv'
    BY <1>3, <2>1, <2>2 DEF Start, Safe, MemoryInv, Covered, TypeOK
  <2>5. PageInv'
    BY <1>3, <2>1 DEF Start, Safe, PageInv, Advances, TypeOK
  <2>6. SaveInv'
    BY <1>3, <2>1 DEF Start, Safe, SaveInv, Covered, TypeOK
  <2>7. BudgetInv'
    BY <1>3, BoundsAssumption DEF Start, Safe, BudgetInv, TypeOK
  <2> QED
    BY <2>3, <2>4, <2>5, <2>6, <2>7 DEF Safe
<1>4. ASSUME NEW p \in Procs, FetchPage(p) PROVE Safe'
  <2>1. PICK hi \in cursor[p]..head[scope[p]] :
           /\ todo' = [todo EXCEPT ![p] = Matches(scope[p], cursor[p] + 1, hi)]
           /\ \E c \in {hi, cursor[p], 0} : answer' = [answer EXCEPT ![p] = c]
    BY <1>4 DEF FetchPage
  <2>2. NoLoss' /\ NeverTorn' /\ MemoryInv'
    BY <1>4 DEF FetchPage, Safe, NoLoss, NeverTorn, MemoryInv, Covered, TypeOK
  <2>3. PageInv'
    BY <1>4, <2>1 DEF FetchPage, Safe, PageInv, Advances, Matches, TypeOK
  <2>4. SaveInv'
    BY <1>4, <2>1 DEF FetchPage, Safe, SaveInv, Covered, TypeOK
  <2>5. BudgetInv'
    BY <1>4 DEF FetchPage, Safe, BudgetInv, TypeOK
  <2> QED
    BY <2>2, <2>3, <2>4, <2>5 DEF Safe
<1>5. ASSUME NEW p \in Procs, Wake(p) PROVE Safe'
  <2>1. NoLoss' /\ NeverTorn' /\ MemoryInv'
    BY <1>5 DEF Wake, Safe, NoLoss, NeverTorn, MemoryInv, Covered
  <2>2. PageInv' /\ SaveInv'
    BY <1>5 DEF Wake, Safe, PageInv, SaveInv, Covered, Advances, TypeOK
  <2>3. BudgetInv'
    BY <1>5 DEF Wake, Safe, BudgetInv, TypeOK
  <2> QED
    BY <2>1, <2>2, <2>3 DEF Safe
<1>6. ASSUME NEW p \in Procs, ProcessRecord(p) PROVE Safe'
  <2>1. PICK q \in todo[p] :
           /\ pc[p] = "process"
           /\ processed' = [processed EXCEPT ![scope[p]] = @ \cup {IdOf[scope[p]][q]}]
           /\ Visit(p, q)
    BY <1>6 DEF ProcessRecord
  <2>2. \A s \in Scopes : processed[s] \subseteq processed'[s]
    BY ProcessedGrows
  <2>3. IdOf[scope[p]][q] \in processed'[scope[p]]
    BY <2>1 DEF TypeOK
  <2>4. NoLoss' /\ NeverTorn'
    BY <2>1, <2>2 DEF Visit, Safe, NoLoss, NeverTorn, Covered
  <2>5. MemoryInv'
    BY <2>1, <2>2, <2>3 DEF Visit, Safe, MemoryInv, Covered, TypeOK
  <2>6. PageInv'
    BY <2>1, <2>2, <2>3 DEF Visit, Safe, PageInv, Advances, TypeOK
  <2>7. SaveInv' /\ BudgetInv'
    BY <2>1, <2>2 DEF Visit, Safe, SaveInv, BudgetInv, Covered, TypeOK
  <2> QED
    BY <2>4, <2>5, <2>6, <2>7 DEF Safe
<1>7. ASSUME NEW p \in Procs, SkipDuplicate(p) PROVE Safe'
  <2>1. PICK q \in todo[p] : Known(p, q) /\ Visit(p, q) /\ processed' = processed
    BY <1>7 DEF SkipDuplicate
  <2>2. IdOf[scope[p]][q] \in processed[scope[p]]
    BY <2>1 DEF Known, Safe, MemoryInv
  <2>3. NoLoss' /\ NeverTorn' /\ MemoryInv'
    BY <2>1, <2>2 DEF Visit, Safe, NoLoss, NeverTorn, MemoryInv, Covered, TypeOK
  <2>4. PageInv'
    BY <2>1, <2>2 DEF Visit, Safe, PageInv, Advances, TypeOK
  <2>5. SaveInv' /\ BudgetInv'
    BY <2>1 DEF Visit, Safe, SaveInv, BudgetInv, Covered
  <2> QED
    BY <2>3, <2>4, <2>5 DEF Safe
<1>8. ASSUME NEW p \in Procs, BeginWrite(p) PROVE Safe'
  <2>1. NoLoss' /\ NeverTorn' /\ MemoryInv'
    BY <1>8 DEF BeginWrite, Safe, NoLoss, NeverTorn, MemoryInv, Covered
  <2>2. PageInv'
    BY <1>8 DEF BeginWrite, Safe, PageInv, Advances, TypeOK
  <2>3. Covered(scope[p], answer[p])
    <3>1. \A q \in (cursor[p] + 1)..answer[p] : IdOf[scope[p]][q] \in processed[scope[p]] \cup {Skip}
      BY <1>8 DEF BeginWrite, PageDone, Safe, PageInv
    <3>2. Covered(scope[p], cursor[p])
      BY DEF Safe, MemoryInv
    <3> QED
      BY <3>1, <3>2, BoundsAssumption DEF Covered, TypeOK
  <2>4. SaveInv'
    BY <1>8, <2>3 DEF BeginWrite, Safe, PageInv, SaveInv, Covered, TypeOK
  <2>5. BudgetInv'
    BY <1>8 DEF BeginWrite, Safe, BudgetInv, TypeOK
  <2> QED
    BY <2>1, <2>2, <2>4, <2>5 DEF Safe
<1>9. ASSUME NEW p \in Procs, EndWrite(p) PROVE Safe'
  <2>1. NoLoss' /\ NeverTorn' /\ MemoryInv'
    BY <1>9 DEF EndWrite, Safe, NoLoss, NeverTorn, MemoryInv, Covered
  <2>2. PageInv'
    BY <1>9 DEF EndWrite, Safe, PageInv, Advances, TypeOK
  <2>3. SaveInv'
    BY <1>9 DEF EndWrite, Safe, SaveInv, Covered, TypeOK
  <2>4. BudgetInv'
    BY <1>9 DEF EndWrite, Safe, BudgetInv, TypeOK
  <2> QED
    BY <2>1, <2>2, <2>3, <2>4 DEF Safe
<1>10. ASSUME NEW p \in Procs, Rename(p) PROVE Safe'
  <2>1. Covered(scope[p], answer[p]) /\ tmp[p] = [scope |-> scope[p], cursor |-> answer[p]]
    BY <1>10 DEF Rename, Safe, SaveInv
  <2>2. tmp[p] \in Checkpoint
    BY <2>1 DEF TypeOK
  <2>3. NoLoss' /\ NeverTorn'
    BY <1>10, <2>1, <2>2, FileAssumption DEF Rename, NoLoss, NeverTorn, Covered
  <2>4. MemoryInv'
    BY <1>10, <2>1 DEF Rename, Safe, MemoryInv, Covered, TypeOK
  <2>5. PageInv'
    BY <1>10 DEF Rename, AfterCommit, Safe, PageInv, Advances, TypeOK
  <2>6. SaveInv'
    BY <1>10 DEF Rename, AfterCommit, Safe, SaveInv, Covered, TypeOK
  <2>7. BudgetInv'
    <3>1. pages[p] \in Nat /\ pages[p] < MaxPages
      BY <1>10 DEF Rename, Safe, BudgetInv, TypeOK
    <3>2. AfterCommit(p) \in Running => pages[p] + 1 # MaxPages
      BY DEF AfterCommit
    <3>3. /\ pages' = [pages EXCEPT ![p] = @ + 1] /\ UNCHANGED attempt
          /\ pc' = [pc EXCEPT ![p] = AfterCommit(p)]
      BY <1>10 DEF Rename
    <3>4. AfterCommit(p) # "backoff"
      BY DEF AfterCommit
    <3> QED
      BY <3>1, <3>2, <3>3, <3>4, BoundsAssumption DEF Safe, BudgetInv, TypeOK
  <2> QED
    BY <2>3, <2>4, <2>5, <2>6, <2>7 DEF Safe
<1>11. CASE Publish
  BY <1>11 DEF Publish, Safe, NoLoss, NeverTorn, MemoryInv, PageInv, SaveInv, BudgetInv,
     Covered, Advances
<1>12. CASE OperatorEdits
  BY <1>12, FileAssumption DEF OperatorEdits, Safe, NoLoss, NeverTorn, MemoryInv, PageInv,
     SaveInv, BudgetInv, Covered, Advances
<1> QED
  BY <1>0, <1>1, <1>2, <1>3, <1>4, <1>5, <1>6, <1>7, <1>8, <1>9, <1>10, <1>11, <1>12
  DEF Next, Load, RunStep, Retrieve, Handle, Close

LEMMA Invariance == Spec => []IInv
<1>1. IInv /\ [Next]_vars => IInv'
  BY TypeStep, SafeStep DEF IInv
<1> QED
  BY InitIInv, <1>1, PTL DEF Spec

-----------------------------------------------------------------------------

\* Every variable keeps to its type, for any number of processes.
THEOREM TypeCorrect == Spec => []TypeOK
BY Invariance, PTL DEF IInv

\* A durable cursor never stands past a record that nobody processed.
THEOREM NothingLost == Spec => []NoLoss
<1>1. IInv => NoLoss
  BY DEF IInv, Safe
<1> QED
  BY Invariance, <1>1, PTL

\* No crash leaves a half-written checkpoint.
THEOREM NeverHalfWritten == Spec => []NeverTorn
<1>1. IInv => NeverTorn
  BY DEF IInv, Safe
<1> QED
  BY Invariance, <1>1, PTL

-----------------------------------------------------------------------------
(* No identity twice in one run                                            *)

\* What stands in memory while the run in p is not between two pages: with
\* a fetch the batch of the page before is merged into seen, or dropped.
Memory(p) == seen[p] \cup (IF pc[p] \in {"process", "writing", "rename"} THEN batch[p] ELSE {})

\* While p runs, it knows every identity that it handed to the callback.
Remembers == \A p \in Procs : pc[p] \in Running =>
    \A i \in 1..Len(log[p]) : IdOf[scope[p]][log[p][i]] \in Memory(p)

LEMMA RemembersStep ==
    ASSUME IInv, Remembers, OncePerRun, [Next]_vars PROVE Remembers' /\ OncePerRun'
<1> USE DEF IInv, TypeOK
<1>1. ASSUME UNCHANGED <<scope, log>>, NEW p \in Procs,
             \A r \in Procs \ {p} : UNCHANGED <<pc[r], seen[r], batch[r]>>,
             pc'[p] \in Running => pc[p] \in Running /\ Memory(p) \subseteq Memory(p)'
      PROVE  Remembers' /\ OncePerRun'
  <2>1. OncePerRun'
    BY <1>1 DEF OncePerRun
  <2>2. ASSUME NEW r \in Procs, pc'[r] \in Running
        PROVE  pc[r] \in Running /\ Memory(r) \subseteq Memory(r)'
    BY <1>1, <2>2 DEF Memory
  <2> QED
    BY <1>1, <2>1, <2>2 DEF Remembers
<1>2. ASSUME UNCHANGED <<scope, log, pc, seen, batch>> PROVE Remembers' /\ OncePerRun'
  BY <1>2 DEF Remembers, OncePerRun, Memory
<1>3. ASSUME NEW p \in Procs, Start(p) PROVE Remembers' /\ OncePerRun'
  <2>1. /\ log' = [log EXCEPT ![p] = <<>>]
        /\ \A r \in Procs \ {p} : UNCHANGED <<pc[r], seen[r], batch[r], scope[r]>>
        /\ Len(log'[p]) = 0
    BY <1>3 DEF Start
  <2>2. \A r \in Procs \ {p} : UNCHANGED <<log[r], Memory(r)>>
    BY <2>1 DEF Memory
  <2>3. OncePerRun'
    BY <2>1, <2>2 DEF OncePerRun
  <2>4. Remembers'
    BY <2>1, <2>2 DEF Remembers
  <2> QED
    BY <2>3, <2>4
<1>4. ASSUME NEW p \in Procs, ProcessRecord(p) PROVE Remembers' /\ OncePerRun'
  <2>1. PICK q \in todo[p] :
           /\ pc[p] = "process" /\ ~Known(p, q)
           /\ log' = [log EXCEPT ![p] = Append(@, q)]
           /\ Visit(p, q)
    BY <1>4 DEF ProcessRecord
  <2>2. UNCHANGED <<scope, pc, seen>> /\ batch' = [batch EXCEPT ![p] = @ \cup {IdOf[scope[p]][q]}]
    BY <2>1 DEF Visit
  <2>3. q \in 1..N /\ log[p] \in Seq(1..N)
    OBVIOUS
  <2>4. /\ Len(log'[p]) = Len(log[p]) + 1 /\ log'[p][Len(log[p]) + 1] = q
        /\ \A i \in 1..Len(log[p]) : log'[p][i] = log[p][i]
    BY <2>1, <2>3
  <2>5. \A i \in 1..Len(log[p]) : IdOf[scope[p]][log[p][i]] \in seen[p] \cup batch[p]
    BY <2>1 DEF Remembers, Memory
  <2>6. Remembers'
    <3>1. ASSUME NEW i \in 1..Len(log'[p])
          PROVE  IdOf[scope[p]][log'[p][i]] \in seen[p] \cup batch'[p]
      <4>1. i \in 1..Len(log[p]) \/ i = Len(log[p]) + 1
        BY <2>3, <2>4
      <4>2. batch'[p] = batch[p] \cup {IdOf[scope[p]][q]}
        BY <2>2
      <4> QED
        BY <2>4, <2>5, <4>1, <4>2
    <3>2. \A r \in Procs \ {p} : UNCHANGED <<log[r], Memory(r)>>
      BY <2>1, <2>2 DEF Memory
    <3>3. Memory(p)' = seen[p] \cup batch'[p]
      BY <2>1, <2>2 DEF Memory
    <3> QED
      <4>1. SUFFICES ASSUME NEW r \in Procs, pc'[r] \in Running, NEW i \in 1..Len(log'[r])
                     PROVE  IdOf[scope'[r]][log'[r][i]] \in Memory(r)'
        BY DEF Remembers
      <4>2. CASE r = p
        BY <2>2, <3>1, <3>3, <4>1, <4>2
      <4>3. CASE r # p
        BY <2>2, <3>2, <4>1, <4>3 DEF Remembers
      <4> QED
        BY <4>2, <4>3
  <2>7. OncePerRun'
    <3>1. \A i \in 1..Len(log[p]) : IdOf[scope[p]][log[p][i]] # IdOf[scope[p]][q]
      BY <2>1, <2>5 DEF Known
    <3>2. \A r \in Procs \ {p} : UNCHANGED log[r]
      BY <2>1
    <3>3. ASSUME NEW i \in 1..Len(log'[p]), NEW j \in 1..Len(log'[p]), i # j
          PROVE  IdOf[scope[p]][log'[p][i]] # IdOf[scope[p]][log'[p][j]]
      <4>1. i \in 1..Len(log[p]) \/ i = Len(log[p]) + 1
        BY <2>3, <2>4
      <4>2. j \in 1..Len(log[p]) \/ j = Len(log[p]) + 1
        BY <2>3, <2>4
      <4>3. i \in 1..Len(log[p]) /\ j \in 1..Len(log[p])
               => IdOf[scope[p]][log[p][i]] # IdOf[scope[p]][log[p][j]]
        BY <3>3 DEF OncePerRun
      <4> QED
        BY <2>4, <3>1, <3>3, <4>1, <4>2, <4>3
    <3> QED
      <4>1. SUFFICES ASSUME NEW r \in Procs, NEW i \in 1..Len(log'[r]), NEW j \in 1..Len(log'[r]),
                            i # j
                     PROVE  IdOf[scope'[r]][log'[r][i]] # IdOf[scope'[r]][log'[r][j]]
        BY DEF OncePerRun
      <4>2. CASE r = p
        BY <2>2, <3>3, <4>1, <4>2
      <4>3. CASE r # p
        BY <2>1, <2>2, <3>2, <4>1, <4>3 DEF OncePerRun
      <4> QED
        BY <4>2, <4>3
  <2> QED
    BY <2>6, <2>7
<1>5. ASSUME NEW p \in Procs, SkipDuplicate(p) PROVE Remembers' /\ OncePerRun'
  <2>1. PICK q \in todo[p] : Visit(p, q) /\ UNCHANGED log
    BY <1>5 DEF SkipDuplicate
  <2> QED
    BY <2>1, <1>1 DEF Visit, Memory
<1>6. ASSUME NEW p \in Procs, Rename(p) PROVE Remembers' /\ OncePerRun'
  BY <1>6, <1>1 DEF Rename, AfterCommit, Memory
<1>7. ASSUME NEW p \in Procs, FetchPage(p) PROVE Remembers' /\ OncePerRun'
  <2>1. /\ pc[p] = "fetch" /\ UNCHANGED <<scope, log, seen>>
        /\ \A r \in Procs \ {p} : UNCHANGED <<pc[r], batch[r]>>
    BY <1>7 DEF FetchPage
  <2> QED
    BY <2>1, <1>1 DEF Memory
<1>8. ASSUME NEW p \in Procs, FetchTransient(p) \/ Wake(p) PROVE Remembers' /\ OncePerRun'
  BY <1>8, <1>1 DEF FetchTransient, Wake, Memory
<1>9. ASSUME NEW p \in Procs, BeginWrite(p) \/ EndWrite(p) PROVE Remembers' /\ OncePerRun'
  BY <1>9, <1>1 DEF BeginWrite, EndWrite, Memory
<1>10. ASSUME NEW p \in Procs, Refuse(p) \/ FetchFails(p) \/ RecordFails(p)
                               \/ StopAtPage(p) \/ SaveFails(p) \/ Crash(p)
       PROVE  Remembers' /\ OncePerRun'
  <2>1. PICK l \in Stopped : pc' = [pc EXCEPT ![p] = l] /\ UNCHANGED <<world, page, run>>
    BY <1>10 DEF Refuse, FetchFails, RecordFails, StopAtPage, SaveFails, Crash
  <2> QED
    BY <2>1, <1>1
<1>11. CASE Publish \/ OperatorEdits \/ UNCHANGED vars
  BY <1>11, <1>2 DEF Publish, OperatorEdits
<1> QED
  BY <1>3, <1>4, <1>5, <1>6, <1>7, <1>8, <1>9, <1>10, <1>11
  DEF Next, Load, RunStep, Retrieve, Handle, Close

\* Within one run no identity reaches the callback twice (lines 98 to 106 of
\* reliable-scan.ts), for any history and any pages the provider makes of it.
THEOREM NeverTwiceInARun == Spec => []OncePerRun
<1>1. Init => Remembers /\ OncePerRun
  BY DEF Init, Remembers, OncePerRun
<1>2. IInv /\ Remembers /\ OncePerRun /\ [Next]_vars => (Remembers /\ OncePerRun)'
  BY RemembersStep
<1> QED
  BY <1>1, <1>2, Invariance, PTL DEF Spec

-----------------------------------------------------------------------------
(* The refinement                                                          *)

LEMMA ContractInit == Init => Contract!Init
BY FileAssumption DEF Init, Contract!Init

\* Steps that touch neither the checkpoint nor what was processed stutter.
LEMMA ContractStep ==
    ASSUME IInv, [Next]_vars
    PROVE  [Contract!Next]_(Contract!vars)
<1> USE DEF Contract!vars
<1>1. ASSUME UNCHANGED <<file, processed>> PROVE UNCHANGED Contract!vars
  BY <1>1
<1>2. ASSUME NEW p \in Procs, ProcessRecord(p) PROVE Contract!Next
  <2>1. PICK q \in todo[p] :
           /\ processed' = [processed EXCEPT ![scope[p]] = @ \cup {IdOf[scope[p]][q]}]
           /\ Visit(p, q)
    BY <1>2 DEF ProcessRecord
  <2>2. scope[p] \in Scopes /\ q \in 1..N /\ IdOf[scope[p]][q] # Skip
    BY DEF IInv, Safe, TypeOK, PageInv
  <2>3. UNCHANGED file
    BY <2>1 DEF Visit
  <2> QED
    BY <2>1, <2>2, <2>3 DEF Contract!Next, Contract!Deliver
<1>3. ASSUME NEW p \in Procs, Rename(p) PROVE Contract!Next
  <2>1. /\ tmp[p] = [scope |-> scope[p], cursor |-> answer[p]]
        /\ Covered(scope[p], answer[p]) /\ answer[p] > cursor[p]
    BY <1>3 DEF Rename, IInv, Safe, SaveInv
  <2>2. scope[p] \in Scopes /\ answer[p] \in 1..N /\ tmp[p] \in Checkpoint
    BY <2>1, BoundsAssumption DEF IInv, TypeOK
  <2>3. file' = tmp[p] /\ UNCHANGED processed
    BY <1>3 DEF Rename
  <2>4. Contract!Covered(scope[p], answer[p])
    BY <2>1 DEF Covered, Contract!Covered
  <2> QED
    BY <2>1, <2>2, <2>3, <2>4 DEF Contract!Next, Contract!Commit
<1>4. ASSUME OperatorEdits PROVE Contract!Next
  BY <1>4, FileAssumption DEF OperatorEdits, Contract!Next, Contract!Reset
<1>5. ASSUME NEW p \in Procs, Load(p) \/ Retrieve(p) \/ SkipDuplicate(p) \/ RecordFails(p)
                              \/ StopAtPage(p) \/ BeginWrite(p) \/ EndWrite(p) \/ SaveFails(p)
                              \/ Crash(p)
      PROVE  UNCHANGED <<file, processed>>
  BY <1>5, Zenon DEF Load, Start, Refuse, Retrieve, FetchPage, FetchTransient, Wake, FetchFails,
     SkipDuplicate, Visit, RecordFails, StopAtPage, BeginWrite, EndWrite, SaveFails, Crash
<1>6. Publish \/ UNCHANGED vars => UNCHANGED <<file, processed>>
  BY DEF Publish
<1> QED
  BY <1>1, <1>2, <1>3, <1>4, <1>5, <1>6 DEF Next, RunStep, Handle, Close

\* The scan keeps the contract of a checkpoint, whatever the number of runs
\* at a time, the histories, the page size and the page budget.
THEOREM Refinement == Spec => ImplementsContract
<1>1. IInv /\ [Next]_vars => [Contract!Next]_(Contract!vars)
  BY ContractStep
<1> QED
  BY ContractInit, Invariance, <1>1, PTL DEF Spec, ImplementsContract, Contract!Spec

-----------------------------------------------------------------------------
(* One process per checkpoint                                              *)

\* A running process has the contents of the checkpoint file in memory.
OwnsFile == \A p \in Procs : pc[p] \in Running =>
    \/ file = NoFile /\ cursor[p] = 0
    \/ file \in Checkpoint /\ file.scope = scope[p] /\ file.cursor = cursor[p]

\* A slot that was used stays used.
LEMMA SoleBefore == ASSUME IInv, [Next]_vars, Sole' PROVE Sole
<1>1. \A p \in Procs : pc[p] # "idle" => pc'[p] # "idle"
  <2>1. ASSUME NEW r \in Procs, Load(r) \/ RunStep(r) \/ Crash(r), NEW p \in Procs, pc[p] # "idle"
        PROVE  pc'[p] # "idle"
    BY <2>1 DEF Load, Start, Refuse, RunStep, Retrieve, FetchPage, FetchTransient, Wake,
       FetchFails, Handle, ProcessRecord, SkipDuplicate, RecordFails, Visit, Close,
       StopAtPage, BeginWrite, EndWrite, AfterCommit, Rename, SaveFails, Crash, IInv, TypeOK
  <2>2. Publish \/ OperatorEdits \/ UNCHANGED vars => UNCHANGED pc
    BY DEF Publish, OperatorEdits
  <2> QED
    BY <2>1, <2>2 DEF Next
<1> QED
  BY <1>1 DEF Sole

\* The slot that takes a step other than being refused is used.
LEMMA SoleActor ==
    ASSUME IInv, NEW p \in Procs, Sole', [Next]_vars,
           Start(p) \/ RunStep(p) \/ Crash(p)
    PROVE  \A q \in Procs : pc'[q] # "idle" => q = p
<1>1. pc'[p] # "idle"
  BY DEF Start, RunStep, Retrieve, FetchPage, FetchTransient, Wake, FetchFails, Handle,
     ProcessRecord, SkipDuplicate, RecordFails, Visit, Close, StopAtPage, BeginWrite,
     EndWrite, AfterCommit, Rename, SaveFails, Crash, IInv, TypeOK
<1> QED
  BY <1>1 DEF Sole

LEMMA OwnsFileStep ==
    ASSUME IInv, OwnsFile, [Next]_vars, Sole'
    PROVE  OwnsFile'
<1> USE DEF OwnsFile
<1>1. ASSUME NEW p \in Procs, Start(p) PROVE OwnsFile'
  <2>1. \A q \in Procs : pc'[q] \in Running => q = p
    BY <1>1, SoleActor
  <2> QED
    BY <1>1, <2>1 DEF Start, Loadable, LoadedCursor, IInv, TypeOK
<1>2. ASSUME NEW p \in Procs, Rename(p) PROVE OwnsFile'
  <2>0. \A q \in Procs : pc'[q] \in Running => q = p
    BY <1>2, SoleActor DEF RunStep, Close
  <2>1. tmp[p] = [scope |-> scope[p], cursor |-> answer[p]]
    BY <1>2 DEF Rename, IInv, Safe, SaveInv
  <2>2. tmp[p] \in Checkpoint
    BY <2>1 DEF IInv, TypeOK
  <2>3. file' = tmp[p] /\ cursor' = [cursor EXCEPT ![p] = answer[p]] /\ UNCHANGED scope
    BY <1>2 DEF Rename
  <2> QED
    BY <2>0, <2>1, <2>2, <2>3 DEF IInv, TypeOK
<1>3. ASSUME NEW p \in Procs, Refuse(p) \/ Retrieve(p) \/ Handle(p) \/ StopAtPage(p)
                              \/ BeginWrite(p) \/ EndWrite(p) \/ SaveFails(p) \/ Crash(p)
      PROVE  /\ UNCHANGED <<file, scope, cursor>>
             /\ \A q \in Procs : pc'[q] \in Running => pc[q] \in Running
  BY <1>3 DEF Refuse, Retrieve, FetchPage, FetchTransient, Wake, FetchFails, Handle,
     ProcessRecord, SkipDuplicate, RecordFails, Visit, StopAtPage, BeginWrite, EndWrite,
     SaveFails, Crash, IInv, TypeOK
<1>4. CASE Publish \/ OperatorEdits \/ UNCHANGED vars
  BY <1>4 DEF Publish, OperatorEdits
<1> QED
  BY <1>1, <1>2, <1>3, <1>4 DEF Next, Load, RunStep, Close

LEMMA SoleOwner == Spec => [](IInv /\ (Sole => OwnsFile))
<1>1. Init => OwnsFile
  BY DEF Init, OwnsFile
<1>2. IInv /\ (Sole => OwnsFile) /\ [Next]_vars => (Sole => OwnsFile)'
  BY OwnsFileStep, SoleBefore
<1> QED
  BY <1>1, <1>2, Invariance, PTL DEF Spec

\* With one process per checkpoint a run only moves the checkpoint forward,
\* and never replaces one that belongs to another scope or does not parse.
THEOREM SoleOnlyForward == Spec => OnlyForward
<1>1. ASSUME IInv, OwnsFile, NEW p \in Procs PROVE ForwardStep(p)
  <2>0. SUFFICES ASSUME RunStep(p), file' # file
                 PROVE  /\ file = NoFile \/ (file \in Checkpoint /\ file.scope = scope[p])
                        /\ file'.cursor > DurableCursor
    BY DEF ForwardStep
  <2>1. CASE Rename(p)
    <3>1. /\ tmp[p] = [scope |-> scope[p], cursor |-> answer[p]]
          /\ answer[p] > cursor[p] /\ file' = tmp[p] /\ pc[p] \in Running
      BY <1>1, <2>1 DEF Rename, IInv, Safe, SaveInv
    <3> QED
      BY <3>1, <1>1, FileAssumption DEF OwnsFile, DurableCursor, IInv, TypeOK
  <2>2. ASSUME Retrieve(p) \/ Handle(p) \/ StopAtPage(p) \/ BeginWrite(p) \/ EndWrite(p)
               \/ SaveFails(p)
        PROVE  UNCHANGED file
    BY <2>2, Zenon DEF Retrieve, FetchPage, FetchTransient, Wake, FetchFails, Handle,
       ProcessRecord, SkipDuplicate, RecordFails, Visit, StopAtPage, BeginWrite, EndWrite,
       SaveFails
  <2> QED
    BY <2>0, <2>1, <2>2 DEF RunStep, Close
<1>2. IInv /\ (Sole => OwnsFile) /\ [Next]_vars
          => [Sole' => \A p \in Procs : ForwardStep(p)]_vars
  BY <1>1, SoleBefore
<1> QED
  BY SoleOwner, <1>2, PTL DEF OnlyForward, Spec

\* With one process per checkpoint a restart replays nothing at or before the
\* durable cursor.
THEOREM SoleReplay == Spec => ReplayOnlyUncommitted
<1>1. ASSUME IInv, OwnsFile, [Next]_vars, NEW p \in Procs PROVE ReplayStep(p)
  <2>0. SUFFICES ASSUME Len(log'[p]) > Len(log[p])
                 PROVE  log'[p][Len(log'[p])] > DurableCursor
    BY DEF ReplayStep
  <2>1. ProcessRecord(p)
    <3>1. ASSUME NEW r \in Procs, Start(r) PROVE Len(log'[p]) <= Len(log[p])
      BY <3>1 DEF Start, IInv, TypeOK
    <3>2. ASSUME NEW r \in Procs, Refuse(r) \/ Retrieve(r) \/ SkipDuplicate(r) \/ RecordFails(r)
                                  \/ Close(r) \/ Crash(r)
          PROVE  UNCHANGED log
      BY <3>2, Zenon DEF Refuse, Retrieve, FetchPage, FetchTransient, Wake, FetchFails,
         SkipDuplicate, RecordFails, Close, StopAtPage, BeginWrite, EndWrite, Rename,
         SaveFails, Crash
    <3>3. Publish \/ OperatorEdits \/ UNCHANGED vars => UNCHANGED log
      BY DEF Publish, OperatorEdits
    <3>4. Len(log[p]) \in Nat
      BY <1>1 DEF IInv, TypeOK
    <3>5. ASSUME NEW r \in Procs, ProcessRecord(r), r # p PROVE UNCHANGED log[p]
      BY <3>5, <1>1 DEF ProcessRecord, IInv, TypeOK
    <3>6. Len(log'[p]) \in Nat
      BY <1>1, TypeStep DEF TypeOK
    <3> QED
      BY <1>1, <2>0, <3>1, <3>2, <3>3, <3>4, <3>5, <3>6 DEF Next, Load, RunStep, Handle
  <2>2. PICK q \in todo[p] : pc[p] = "process" /\ log' = [log EXCEPT ![p] = Append(@, q)]
    BY <2>1 DEF ProcessRecord
  <2>3. q > cursor[p] /\ q \in 1..N
    BY <1>1, <2>2 DEF IInv, Safe, PageInv, TypeOK
  <2>4. log'[p][Len(log'[p])] = q
    BY <1>1, <2>2, <2>3 DEF IInv, TypeOK
  <2>5. DurableCursor = cursor[p]
    BY <1>1, <2>2, FileAssumption DEF OwnsFile, DurableCursor, IInv, TypeOK
  <2> QED
    BY <2>3, <2>4, <2>5
<1>2. IInv /\ (Sole => OwnsFile) /\ [Next]_vars
          => [Sole' => \A p \in Procs : ReplayStep(p)]_vars
  BY <1>1, SoleBefore
<1> QED
  BY SoleOwner, <1>2, PTL DEF ReplayOnlyUncommitted, Spec
=============================================================================
