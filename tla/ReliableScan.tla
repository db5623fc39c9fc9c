---------------------------- MODULE ReliableScan ----------------------------
(***************************************************************************)
(* src/utils/reliable-scan.ts and its two users, 254 (Soroban RPC events)  *)
(* and 257 (Horizon transactions): a scan that walks a growing history     *)
(* page by page, hands every new record to a callback, and persists its    *)
(* cursor in a checkpoint file once the whole page was processed.          *)
(*                                                                         *)
(* A run may crash at every await.  A process slot of Procs is started     *)
(* again and again; the checkpoint file is all that survives a run.  The   *)
(* record at position q of the history of scope s has identity IdOf[s][q]: *)
(* two positions may carry one identity (Horizon and RPC replays), NoId is *)
(* a record without one, Skip a position that does not match the query.    *)
(*                                                                         *)
(* A definition marked "mutant" is a plausible bug in the definition that  *)
(* follows it; no behaviour of the specification uses it.                  *)
(***************************************************************************)
EXTENDS Integers, Sequences, FiniteSets

CONSTANTS
    Procs,       \* slots in which a run of the scan can execute
    Scopes,      \* JSON.stringify([endpoint, passphrase, filter, ...])
    N,           \* bound: the history never grows past position N
    Ids,         \* stable record identities (transaction hash, event id)
    IdOf,        \* [Scopes -> [1..N -> Ids \cup {NoId, Skip}]]
    NoId, Skip,
    PageLimit,   \* "limit" of the query: records on one page
    MaxPages,    \* page budget of one run
    NoFile,      \* the checkpoint file does not exist
    Torn,        \* a file whose writeFile was cut short
    Unreadable   \* a file edited by hand: bad JSON or an unknown version

ASSUME BoundsAssumption == /\ N \in Nat
                           /\ PageLimit \in Nat \ {0}
                           /\ MaxPages \in Nat \ {0}
ASSUME HistoryAssumption == /\ IdOf \in [Scopes -> [1..N -> Ids \cup {NoId, Skip}]]
                            /\ NoId \notin Ids
                            /\ Skip \notin Ids \cup {NoId}

Position == 0..N                        \* 0: no cursor yet
Checkpoint == [scope : Scopes, cursor : Position]

ASSUME FileAssumption == /\ NoFile \notin Checkpoint \cup {Torn, Unreadable}
                         /\ Torn \notin Checkpoint \cup {Unreadable}
                         /\ Unreadable \notin Checkpoint

FileContent == Checkpoint \cup {NoFile, Torn, Unreadable}

MaxRetries == 3                         \* attempt >= 3 gives up

VARIABLES
    head,        \* head[s]: the last position of s's history so far
    file,        \* the checkpoint file
    tmp,         \* tmp[p]: the file "<checkpoint>.<pid>.tmp" of the run in p
    processed,   \* processed[s]: identities whose process() call succeeded
    pc,          \* where the run in p stands
    scope,       \* scope[p]: the scope the run in p was started with
    cursor,      \* checkpoint.cursor of the run in p
    attempt,     \* attempt of retryRead
    todo,        \* records of the current page that the loop has to visit
    nonempty,    \* page.records.length > 0
    answer,      \* page.cursor; 0 when it is undefined
    batch, seen, \* the two sets of scan()
    pages,       \* pageNumber
    log          \* history: the positions the current run of p processed

world == <<head, file, tmp, processed>>
page == <<todo, nonempty, answer, batch>>
run == <<scope, cursor, attempt, seen, pages, log>>
vars == <<world, page, run, pc>>

Stopped == {"idle", "done", "failed", "crashed"}
Running == {"fetch", "backoff", "process", "writing", "rename"}

Matches(s, lo, hi) == {q \in lo..hi : IdOf[s][q] # Skip}

Goto(p, l) == pc' = [pc EXCEPT ![p] = l]

Init == /\ head = [s \in Scopes |-> 0]
        /\ file = NoFile
        /\ tmp = [p \in Procs |-> NoFile]
        /\ processed = [s \in Scopes |-> {}]
        /\ pc = [p \in Procs |-> "idle"]
        /\ scope \in [Procs -> Scopes]
        /\ cursor = [p \in Procs |-> 0]
        /\ attempt = [p \in Procs |-> 0]
        /\ todo = [p \in Procs |-> {}]
        /\ nonempty = [p \in Procs |-> FALSE]
        /\ answer = [p \in Procs |-> 0]
        /\ batch = [p \in Procs |-> {}]
        /\ seen = [p \in Procs |-> {}]
        /\ pages = [p \in Procs |-> 0]
        /\ log = [p \in Procs |-> <<>>]

-----------------------------------------------------------------------------
(* loadCheckpoint                                                          *)

\* A missing file starts a new scan; a checkpoint of another scope, or one
\* that does not parse, is refused.
LoadableAnyScope(f, s) == f \in Checkpoint \cup {NoFile}      \* mutant

Loadable(f, s) == f = NoFile \/ (f \in Checkpoint /\ f.scope = s)

LoadedCursorForgotten(f) == 0                              \* mutant

LoadedCursor(f) == IF f = NoFile THEN 0 ELSE f.cursor

Start(p) == \E s \in Scopes :
    /\ pc[p] \in Stopped
    /\ Loadable(file, s)
    /\ scope' = [scope EXCEPT ![p] = s]
    /\ cursor' = [cursor EXCEPT ![p] = LoadedCursor(file)]
    /\ seen' = [seen EXCEPT ![p] = {}]
    /\ batch' = [batch EXCEPT ![p] = {}]
    /\ todo' = [todo EXCEPT ![p] = {}]
    /\ pages' = [pages EXCEPT ![p] = 0]
    /\ attempt' = [attempt EXCEPT ![p] = 0]
    /\ log' = [log EXCEPT ![p] = <<>>]
    /\ Goto(p, "fetch")
    /\ UNCHANGED <<world, nonempty, answer>>

Refuse(p) == \E s \in Scopes :
    /\ pc[p] \in Stopped
    /\ ~Loadable(file, s)
    /\ Goto(p, "failed")
    /\ UNCHANGED <<world, page, run>>

-----------------------------------------------------------------------------
(* retryRead(() => fetch(checkpoint.cursor))                               *)

\* The page covers the positions after the cursor up to hi.  RPC reports hi
\* even when nothing on the page matches; Horizon reports no cursor with an
\* empty page; a provider that is stuck reports the old cursor or none.
FetchPage(p) == \E hi \in cursor[p]..head[scope[p]] :
    LET records == Matches(scope[p], cursor[p] + 1, hi) IN
    /\ pc[p] = "fetch"
    /\ Cardinality(records) <= PageLimit
    /\ todo' = [todo EXCEPT ![p] = records]
    /\ nonempty' = [nonempty EXCEPT ![p] = records # {}]
    /\ \E c \in {hi, cursor[p], 0} : answer' = [answer EXCEPT ![p] = c]
    /\ batch' = [batch EXCEPT ![p] = {}]
    /\ attempt' = [attempt EXCEPT ![p] = 0]
    /\ Goto(p, "process")
    /\ UNCHANGED <<world, scope, cursor, seen, pages, log>>

RetriesLeft(p) == attempt[p] < MaxRetries

\* 429, 5xx, a timeout or a reset connection, with retries left.
FetchTransient(p) ==
    /\ pc[p] = "fetch"
    /\ RetriesLeft(p)
    /\ Goto(p, "backoff")
    /\ UNCHANGED <<world, page, run>>

WakeUncounted(p) ==                                        \* mutant
    /\ pc[p] = "backoff"
    /\ Goto(p, "fetch")
    /\ UNCHANGED <<world, page, run>>

\* The backoff timer of 500 * 2^attempt ms fires.
Wake(p) ==
    /\ pc[p] = "backoff"
    /\ attempt' = [attempt EXCEPT ![p] = @ + 1]
    /\ Goto(p, "fetch")
    /\ UNCHANGED <<world, page, scope, cursor, seen, pages, log>>

\* An error that is not transient, the fourth transient one, or a malformed
\* page.
FetchFails(p) ==
    /\ pc[p] = "fetch"
    /\ Goto(p, "failed")
    /\ UNCHANGED <<world, page, run>>

-----------------------------------------------------------------------------
(* The record loop                                                         *)

NextRecord(p, q) == q \in todo[p] /\ \A r \in todo[p] : q <= r

KnownOnPage(p, q) == IdOf[scope[p]][q] \in batch[p]        \* mutant

Known(p, q) == IdOf[scope[p]][q] \in seen[p] \cup batch[p]

\* Common to both branches: batch.add(id), on to the next record.
Visit(p, q) ==
    /\ todo' = [todo EXCEPT ![p] = @ \ {q}]
    /\ batch' = [batch EXCEPT ![p] = @ \cup {IdOf[scope[p]][q]}]
    /\ UNCHANGED <<head, file, tmp, nonempty, answer, scope, cursor, attempt, seen, pages, pc>>

ProcessRecord(p) == \E q \in todo[p] :
    /\ pc[p] = "process"
    /\ NextRecord(p, q)
    /\ IdOf[scope[p]][q] # NoId
    /\ ~Known(p, q)
    /\ processed' = [processed EXCEPT ![scope[p]] = @ \cup {IdOf[scope[p]][q]}]
    /\ log' = [log EXCEPT ![p] = Append(@, q)]
    /\ Visit(p, q)

SkipDuplicate(p) == \E q \in todo[p] :
    /\ pc[p] = "process"
    /\ NextRecord(p, q)
    /\ IdOf[scope[p]][q] # NoId
    /\ Known(p, q)
    /\ Visit(p, q)
    /\ UNCHANGED <<processed, log>>

\* The record has no identity, or the callback throws.
RecordFails(p) == \E q \in todo[p] :
    /\ pc[p] = "process"
    /\ NextRecord(p, q)
    /\ IdOf[scope[p]][q] = NoId \/ ~Known(p, q)
    /\ Goto(p, "failed")
    /\ UNCHANGED <<world, page, run>>

-----------------------------------------------------------------------------
(* The end of a page                                                       *)

PageAlwaysDone(p) == TRUE                                  \* mutant

PageDone(p) == todo[p] = {}

Advances(p) == answer[p] # 0 /\ answer[p] # cursor[p]

\* The provider did not move: fine after an empty page, an error otherwise.
StopAtPage(p) ==
    /\ pc[p] = "process" /\ PageDone(p)
    /\ ~Advances(p)
    /\ Goto(p, IF nonempty[p] THEN "failed" ELSE "done")
    /\ UNCHANGED <<world, page, run>>

BeginWriteInPlace(p) ==                                    \* mutant
    /\ pc[p] = "process" /\ PageDone(p)
    /\ Advances(p)
    /\ file' = Torn
    /\ Goto(p, "writing")
    /\ UNCHANGED <<head, tmp, processed, page, run>>

\* saveCheckpoint(next): fs.writeFile truncates the temporary file first.
BeginWrite(p) ==
    /\ pc[p] = "process" /\ PageDone(p)
    /\ Advances(p)
    /\ tmp' = [tmp EXCEPT ![p] = Torn]
    /\ Goto(p, "writing")
    /\ UNCHANGED <<head, file, processed, page, run>>

EndWrite(p) ==
    /\ pc[p] = "writing"
    /\ tmp' = [tmp EXCEPT ![p] = [scope |-> scope[p], cursor |-> answer[p]]]
    /\ Goto(p, "rename")
    /\ UNCHANGED <<head, file, processed, page, run>>

\* An empty page ends the run even though its cursor advanced.
AfterCommit(p) == IF ~nonempty[p] \/ pages[p] + 1 = MaxPages THEN "done" ELSE "fetch"

Rename(p) ==
    /\ pc[p] = "rename"
    /\ file' = tmp[p]
    /\ tmp' = [tmp EXCEPT ![p] = NoFile]
    /\ cursor' = [cursor EXCEPT ![p] = answer[p]]
    /\ seen' = [seen EXCEPT ![p] = @ \cup batch[p]]
    /\ pages' = [pages EXCEPT ![p] = @ + 1]
    /\ Goto(p, AfterCommit(p))
    /\ UNCHANGED <<head, processed, page, scope, attempt, log>>

\* writeFile or rename rejects (disk full): the scan stops.
SaveFails(p) ==
    /\ pc[p] \in {"writing", "rename"}
    /\ Goto(p, "failed")
    /\ UNCHANGED <<world, page, run>>

-----------------------------------------------------------------------------
(* The world around the runs                                               *)

\* Ctrl+C, a kill or a power failure at any await.
Crash(p) ==
    /\ pc[p] \in Running
    /\ Goto(p, "crashed")
    /\ UNCHANGED <<world, page, run>>

\* The ledger closes with another record.
Publish == \E s \in Scopes :
    /\ head[s] < N
    /\ head' = [head EXCEPT ![s] = @ + 1]
    /\ UNCHANGED <<file, tmp, processed, page, run, pc>>

\* "Inspect or delete the file explicitly to reset": while nothing runs.
OperatorEdits ==
    /\ \A p \in Procs : pc[p] \in Stopped
    /\ file' \in {NoFile, Unreadable}
    /\ UNCHANGED <<head, tmp, processed, page, run, pc>>

Load(p) == Start(p) \/ Refuse(p)
Retrieve(p) == FetchPage(p) \/ FetchTransient(p) \/ Wake(p) \/ FetchFails(p)
Handle(p) == ProcessRecord(p) \/ SkipDuplicate(p) \/ RecordFails(p)
Close(p) == StopAtPage(p) \/ BeginWrite(p) \/ EndWrite(p) \/ Rename(p) \/ SaveFails(p)

RunStep(p) == Retrieve(p) \/ Handle(p) \/ Close(p)

Next == \/ \E p \in Procs : Load(p) \/ RunStep(p) \/ Crash(p)
        \/ Publish
        \/ OperatorEdits

Spec == Init /\ [][Next]_vars

\* Every await of a run settles: a fetch has a timeout, a timer fires, a
\* file operation returns.  Nothing makes the operator start another run.
FairSpec == Spec /\ \A p \in Procs : WF_vars(RunStep(p))

-----------------------------------------------------------------------------
(* Properties                                                              *)

TypeOK ==
    /\ head \in [Scopes -> Position]
    /\ file \in FileContent
    /\ tmp \in [Procs -> FileContent]
    /\ processed \in [Scopes -> SUBSET Ids]
    /\ pc \in [Procs -> Stopped \cup Running]
    /\ scope \in [Procs -> Scopes]
    /\ cursor \in [Procs -> Position]
    /\ attempt \in [Procs -> 0..MaxRetries]
    /\ todo \in [Procs -> SUBSET (1..N)]
    /\ nonempty \in [Procs -> BOOLEAN]
    /\ answer \in [Procs -> Position]
    /\ batch \in [Procs -> SUBSET Ids]
    /\ seen \in [Procs -> SUBSET Ids]
    /\ pages \in [Procs -> 0..MaxPages]
    /\ log \in [Procs -> Seq(1..N)]

\* Every record of s at or before c was processed by some run.
Covered(s, c) == \A q \in 1..c : IdOf[s][q] \in processed[s] \cup {Skip}

\* No loss: a durable cursor never stands past a record that no run has
\* processed, whatever crashed, was retried or ran at the same time.
NoLoss == file \in Checkpoint => Covered(file.scope, file.cursor)

\* A crash never leaves the checkpoint half-written: saveCheckpoint writes
\* beside the file and renames.
NeverTorn == file # Torn

\* Within one run no identity reaches the callback twice, even when the
\* provider repeats a record on a page or on a later one.
OncePerRun == \A p \in Procs : \A i, j \in 1..Len(log[p]) :
    i # j => IdOf[scope[p]][log[p][i]] # IdOf[scope[p]][log[p][j]]

DurableCursor == IF file \in Checkpoint THEN file.cursor ELSE 0

\* p hands a record to the callback, and it lies past the durable cursor.
ReplayStep(p) == Len(log'[p]) > Len(log[p]) => log'[p][Len(log'[p])] > DurableCursor

\* p changes the checkpoint: forward, and only one that it could have loaded.
ForwardStep(p) == (RunStep(p) /\ file' # file) =>
    /\ file = NoFile \/ (file \in Checkpoint /\ file.scope = scope[p])
    /\ file'.cursor > DurableCursor

\* "Use a single process per checkpoint": no other slot has been used so far.
Sole == \A p, q \in Procs : pc[p] # "idle" /\ pc[q] # "idle" => p = q

\* "Checkpoints prevent blind replay of committed pages": with one process
\* per checkpoint, whatever is processed lies past the durable cursor.
ReplayOnlyUncommitted == [][Sole' => \A p \in Procs : ReplayStep(p)]_vars

\* With one process per checkpoint a run only moves the checkpoint forward,
\* within its own scope, and never replaces one it should have refused.
OnlyForward == [][Sole' => \A p \in Procs : ForwardStep(p)]_vars

\* Every run comes to an end: retries and pages are bounded.
RunEnds == \A p \in Procs : pc[p] \in Running ~> pc[p] \in Stopped

\* The scan implements the contract of a checkpoint: every step of it is a
\* delivery, a commit of a covered cursor, a reset by the operator, or none.
Contract == INSTANCE CheckpointContract WITH
    delivered <- processed,
    committed <- IF file \in Checkpoint THEN file ELSE NoFile,
    Fresh <- NoFile

ImplementsContract == Contract!Spec
=============================================================================
