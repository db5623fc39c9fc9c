# TLA+ models of stellar-sdk-example-hub

This directory specifies, model-checks and partly proves the parts of the
repository that have a protocol or an algorithm in them: state that survives an
await, a callback, a crash or a retry, and graphs that are searched. Paths below
are relative to the root of the repository; `96:171` means line 171 of the
example numbered 96 in `src/examples/`.

Modules are checked with TLC (`tlc -config X.cfg M`), proofs with TLAPS
(`tlapm MProofs.tla`). `PROJECT.json` lists the runs, the properties each one
checks, the lines each definition stands for, and for each property a bug that
breaks it: definitions marked `\* mutant` in the modules are such bugs. They
stand before the definition they could replace and no behaviour uses them.

## 1. The system and its parts

The repository is a hub of about 250 runnable examples of the Stellar SDK, a
framework that validates them in CI, a runner, and a set of offline analysers
for Soroban (WebAssembly) contracts. Most examples are linear: they build, sign,
submit and print, with one await after the other. The parts below carry logic
that can go wrong in ways a unit test hardly reaches; they are modelled.

| Part | Source | State it keeps | Operations | Hard behaviour |
| --- | --- | --- | --- | --- |
| Checkpointed scan | `utils/reliable-scan.ts`, used by 254 and 257 | checkpoint file, temporary file, cursor, `seen`, page budget, retry counter | load, fetch with retries, process a record, save | crash at any await, two processes, providers that repeat or get stuck |
| Streams | 158, 44, 19, 92, 159 | open stream, cursor, reconnect and duration timers, shutdown flag, statistics | open, message, error, reconnect, stop | callbacks and timers in any order, repeated records |
| Example validation | `validation/*`, `validate-examples.ts` | the loop over the examples, children, timers, results, exit code | skip, spawn, timeout, close, report | children that hang, fail, ignore a signal; a timeout racing an exit |
| Local sequence manager | 141 | last known ledger sequence, cursor, allocated numbers | allocate, refresh, status | concurrent refreshes, other users of the account, abandoned transactions |
| Fee-bump recovery | 96 | the step of the workflow, `originalConfirmed` | submit, look up, look again, fee-bump, confirm | envelopes lost, late, refused; ingestion lag |
| Polling and retry loops | 189, 120, 190, 160 | interval, retries, deadline, abort signal | ask, retry, sleep, give up | timeout racing a late answer, `Retry-After`, abort inside a sleep |
| Page walkers | 157, 187, 121, 30, the walks of 258, 169, 66, the event loops 209 and 210 | cursor, records and cursors seen, pages, what was kept | ask for a page, take, go on, stop | pages that overlap or come again, a collection that grows, an error half-way |
| Dominator analysis | 218 | control-flow graph under construction, reverse postorder, `idom` | build, reach, order, sweep, intersect, measure | structured control flow, a fixed point over a graph with loops |
| Call recursion | `analyzeRecursion` of `utils/wasm-static-analysis.ts` | Tarjan's stack, Johnson's blocked set and map | components, classification, shortest cycle, enumeration | blocking across starts, a limit on the cycles |
| Analyzer call graphs | `call-graph-builder.ts`, `reachability-analyzer.ts`, `function-dependency-analyzer.ts` in `analyzer/` | visited, recursion stack, depth and roots per function | recursive functions, depth, reachable functions, dependencies | early returns that leave the search stack dirty |

How they interact. The parts do not call each other: every example is a program
of its own. What composes is inside a part: 254 and 257 share `scan()`;
`validate-examples.ts` runs discovery, selection, the executor and the reporter
in a row, and its children are the examples (44, 92 and 158 handle SIGTERM and
exit with 0, which is why a verdict must look at the timeout before the exit
code); in 218 the graph builder feeds the dominator computation, which feeds the
report; the analyzer's graph of calls feeds its two other analyses. They meet the
same outside world: Horizon or Soroban RPC (pages, streams, answers that are
lost or late), the ledger (sequence numbers, fees, time bounds), the file system,
the operating system and the operator.

What makes each part correct:

- scan: no record before the durable cursor is unprocessed, whatever crashed;
  the file is never half-written; no identity is processed twice in one run;
  with one process per checkpoint the cursor only moves forward, in its scope;
- streams: while one runs exactly one of stream and reconnect timer will bring
  the next record; after a stop nothing is left that calls back; from the first
  record on no gap and no repeat; a run with a duration returns;
- validation: one child at a time; a verdict is what the child did; every
  requested example is reported and the exit code tells; the run ends;
- sequence manager: bookkeeping consistent at any interleaving; a refresh
  resynchronises users that follow its comments, and no number comes twice to
  those that also refresh with nothing in flight;
- fee-bump: the destination is paid at most once; a run that returns has paid;
- polling: requests are paced, a final transaction is missed only if it became
  final late or was hidden, a timeout is neither early nor much too late,
  nothing follows an abort;
- page walkers: nothing is left out before a record that is returned, nothing is
  returned twice, the caller is told the truth about the end, and the walk ends;
- dominators: the graph is that of the program, the dominators are those of
  the definition, and the sweeps end;
- calls: what is called recursive, reachable, a cycle or a dependency is one.

The other parts of the repository, and why they are not modelled, are in section 8.

## 2. Modules

| Module | Models | Uses |
| --- | --- | --- |
| `CheckpointContract` | what a checkpoint promises, abstractly: deliveries, commits of covered cursors, resets | - |
| `ReliableScan` | the scan, its runs and crashes; refines `CheckpointContract` | `INSTANCE CheckpointContract` |
| `ResilientStream` | one run of 158, 44, 19, 92 or 159 | - |
| `ExampleValidation` | one run of the validation | - |
| `LocalSequenceManager` | the manager, its users, the ledger | - |
| `FeeBumpRecovery` | one run of 96 and the network | - |
| `TransactionPolling` | one call of the loop of 189, 120, 190 or 160, with time | - |
| `PageWalk` | one walk of any of nine functions, with its server | - |
| `StructuredControl` | reference semantics of WebAssembly's structured control flow | - |
| `CfgBuilder` | `buildCfg` of 218 | extends `StructuredControl` |
| `Dominators` | the rest of the analysis of one function | extends `CfgBuilder` |
| `CallComponents` | `tarjanScc` of `analyzeRecursion`, and what it should find | - |
| `CallRecursion` | what `analyzeRecursion` does with each component, and the cycles it should report | extends `CallComponents` |
| `CallGraphs` | the searches of the analyzer's three call-graph files | extends `CallComponents` |
| `MC*` | constants and instances for TLC | the module of that name; `MCRequests` extends `LocalSequenceManager`, `FeeBumpRecovery`, `TransactionPolling` and `PageWalk`, `MCWasmGraphs` extends `MCDominators`, `CallRecursion` and `CallGraphs` |
| `*Proofs` | theorems and their proofs | the module of that name; `SequenceProofs` extends `LocalSequenceManager` and `FeeBumpRecovery` |

`StructuredControl` and `CheckpointContract` are independent of the
implementation: the first says which instruction can follow which, from the
meaning of `block`, `loop`, `if` and branches; the second knows only the
delivered identities and the committed cursor.

### How state and actions correspond to the code

**ReliableScan.** `file` and `tmp[p]` are the checkpoint and
`<checkpoint>.<pid>.tmp`; everything else belongs to a run in slot `p` and dies
with it. `Start`/`Refuse` are `loadCheckpoint`; `FetchPage`, `FetchTransient`,
`Wake`, `FetchFails` are `retryRead` around `fetch`; `ProcessRecord`,
`SkipDuplicate`, `RecordFails` are one turn of the record loop; `StopAtPage`,
`BeginWrite`, `EndWrite`, `Rename`, `SaveFails` the end of a page with
`saveCheckpoint` split at its awaits. A record is a position in the history of
its scope with an identity; two positions may carry the same one. A page covers
the positions up to `hi`, and the answer's cursor is `hi`, the old one, or none.
The preflight of 254 (`getNetwork`) touches no modelled state and is left out.

**ResilientStream.** `Variants` holds the runs to consider: the example, its
start cursor, event bound and duration, the records its filter rejects and the
malformed or repeated ones Horizon sends. `OnMessage`, `OnError` and its
siblings, `Reconnect`, `DurationElapses`, `Signal` are the callbacks; `Return` is
the end of `run()`. The examples differ in what an error does: 158 and 44 arm a
timer (`OnError`), 19 and 92 leave it to the SDK (`OnErrorGoOn`) unless it is
fatal to 92 (`OnErrorFatal`), 159 stops (`OnErrorStop`). `url` is the cursor the
SDK keeps for its own reconnects (`ServerClose`), which run no callback.

**ExampleValidation.** `process[e]` is the operating system's view of a child,
`at` the position of the executor's loop in the list, `results`, `armed`,
`timedOut`, `spawnError` its variables. `OnClose` resolves the promise, pushes
the verdict and continues the loop in one step, because the continuation runs
before the next event. `SpawnThrows` is the spawn that throws instead of
reporting an error: it ends the whole run.

**LocalSequenceManager.** `refresh()` is split at its await into `RefreshAsks`,
`HorizonAnswers` and `RefreshReturns`, and allocations, submissions and other
refreshes go on in between. `habits` is an assumption about the users, which the
manager does not know or enforce: orderly ones submit in the order of the numbers,
as the comments of the file ask; quiescent ones, beyond what the comments ask,
refresh only with nothing in flight and allocate only while no refresh runs;
abandoning ones may drop a transaction. Each property names the users it is
about.

**FeeBumpRecovery.** `phase` is the step of `run()`, `flying` are envelopes the
network may still include, `included` those in the ledger, `visible` those
Horizon shows. Both envelopes spend the sequence of the inner transaction.

**TransactionPolling.** `elapsed` is `now() - startedAt`; `Tick` moves it, but
never beyond the point where an answer is `Latency` or a timer `Late` ticks
late. `loop` says whose loop it is; the clock, the transaction, `Serve` (the
server looks) and `Ask` are common. 189: `Start`, `Wake`, `Reply`, `Fail`,
`AskAgain`; 120: `Lifecycle*`, which looks at its timeout before a request and
before a sleep; 190: `Monitor*`, which sleeps first; 160: `Request*`, which has
no timeout but counts its attempts.

**PageWalk.** A record is its position in the collection, and the cursor after it.
An answer and all that is done with its page up to the next await is one step,
`Answer`, in which each walker has an operator of its own (`Collection` is 157,
`Rpc` 187, `Operations` 121, `History` 258, `Holders` 169, `Traverse` 30, `Effects`
66, `Replay` 210, `Watch` 209). `Behave` changes how the server answers, within the
`Manners` open to the walker's server: 187, 209 and 210 ask `getEvents`
(`EventReaders`), which may answer for a part of the range only, with an empty or
short page and a cursor to go on from. `RequestFails` is a request that fails or is
overtaken by its timer, `Refuse` an RPC server that accepts no cursor next to a
`startLedger`; 209 sends both, 187 sends the `startLedger` only without a cursor
(`187:266`). `begin` and `known` are history. `Those` and `Sorted` are a filter and
a sort by rank, without recursion, so that the proofs can use them.

**CfgBuilder and Dominators.** One action per kind of instruction (`ReadBlock`,
`ReadLoop`, ... through `ReadNext`), `Finish` for the end of the body; then
`Reach`, the depth-first walk (`Descend`, `Ascend`), and the sweeps of
`computeDominators` with `intersect` one climb at a time. Blocks are numbered
from 1 (from 0 in the code). `home` is history: the block each instruction was
put into, which lets edges be compared with the program. The depth-first order,
a recursion in the code, is an explicit stack. The predecessors of a block are a
set met in the order of their numbers, which is the order in which the code fills
its lists. The walks over the finished tree (ancestors, levels, subtree sizes)
are recursive functions with one value per turn of the code's loop.

**CallComponents.** `calls` lists the calls of every function. `strongConnect`
calls itself; its open calls are `frames`, and `ahead` holds, per function, the
calls its loop has still to look at. One step is the entry of a function
(`Connect` from the outer loop, `FollowNew` from a call), a turn of the loop
(`FollowOpen`, `FollowElse`) or a return (`PopComponent`, `StayOpen`), in which
the caller takes over the lowlink. `onStack` says what `opened`, the code's
`stack`, holds.

**CallRecursion.** `stage` says where `analyzeRecursion` is: in `tarjanScc`
("connect"), between two components ("classify"), in `shortestCycleInScc`
("search") or in `enumerateCyclesInScc` ("enumerate"); `members` is the component
at hand. Both functions loop over the sorted members: `waiting` are those that are
still to come, `start` is the one whose turn it is. The search takes a function
off the queue (`Dequeue`) and looks at its calls one by one (`LookAtStart`,
`Discover`, `LookElse`). `circuit` calls itself; its open calls are `path`, the
code's `stack`, and `rest` holds the calls each has still to look at. One step is a
turn of its loop (`CloseCycle`, `Deepen`, `Decline`) or a return (`LeaveFound`,
`LeaveEmpty`; `CloseCycle` too when the limit is met). `found` holds the functions
whose local variable `found` is true. `unblock` is one step: `Freed` is what it frees.
The code's `null` for "no cycle so far" is a length no cycle can have,
`Len(calls) + 1`. The option `maxCycles` is any of `Limits`, chosen when it is
first needed.

**CallGraphs.** Each analysis runs to its end in one call, so these are operators
on `calls`. Closures of the code (`dfs`, `traverse`) are operators that take
and return the variables they share; loops over callees are folds in the order of
the code. The properties compare what they return with definitions by the set of
chains of calls.

## 3. Runs

State counts are distinct states. The runs take from a few seconds to less than three
minutes each. `MCRequests` and `MCWasmGraphs` check several parts in one run: no
part reads what another does, so each is run alone while the others stay in their
initial states, after a walk over an empty collection, or the analysis of the
smallest body, is over.

| Run | What it shows | Bounds | States |
| --- | --- | --- | --- |
| `MCReliableScan` | One process in two scopes: no identity twice in a run, committed pages are not replayed, the cursor only moves forward in its scope, every run ends. Two processes on one checkpoint: nothing is lost, the file is never torn. Every step is one of the abstract contract. | 3 positions, pages of 2, 2 pages a run | 637,125 |
| `MCResilientStream` | Five examples. One way forward, nothing left after a stop, no gap, the count holds, final report, later records arrive, a bounded run returns. | 6 records, 3 faults | 16,731 |
| `ExampleValidation_obedient` | Every selection, exclusion and way of ending; isolation, truth of verdicts, completeness, termination. | 3 examples | 168,608 |
| `ExampleValidation_stubborn` | Violation: a child that ignores SIGTERM. | 3 examples, 1 stubborn | - |
| `MCRequests` | Sequence numbers: bookkeeping for every user, resynchronisation for orderly ones, no number twice for quiescent ones. Fee bump: paid at most once, a return means paid. Four loops around a request: pacing, what a timeout may miss, no early timeout, bounded overrun, nothing after an abort. Nine page walkers: nothing skipped or repeated, the truth about the end, termination. | 3 transactions, 2 callers, ledger sequence to 5; every pair of 3 fees; 2 retries, timeout of 13 ticks, `Retry-After` to 5; 7 records, pages of 2, limits of 5 records and 3 pages, 3 faults | 889,838 |
| `LocalSequenceManager_abandoned` | Violation: refresh after an abandoned transaction. | 2 transactions | - |
| `LocalSequenceManager_inflight` | Violation: a refresh while a transaction is in flight. | 3 transactions, 1 caller | - |
| `FeeBumpRecovery_failing` | Violation: the payment fails in the ledger. | every pair of 3 fees | - |
| `MCWasmGraphs` | Graph, dominators, measures, meaning of the report, termination; components, cycles, the analyzer's answers. | bodies of up to 4 instructions of any kind and an `end`, up to 6 of the nesting kinds; up to 4 functions | 412,183 |
| `MCDominators_else` | Violation: the `else` block has no incoming edge. | bodies with `if` and `else` | - |
| `MCWasmGraphs_limit` | Violation: more cycles than the limit. | the same call graphs, a limit of 1 | - |
| `MCWasmGraphs_roots` | Violation: a root that is not tracked. | the same call graphs | - |

Why the bounds are enough for the interesting cases:

- scan, alone: the history of `s1` is `a, b, a` and a page holds two records, so
  the repeated identity falls on one page or on the next; `s2` has a position the
  query does not match and a record without identity. Two pages exhaust the
  budget while records are left; the fourth transient error is one too many.
- scan, together: two processes with two pages can commit in either order, load
  before the other's rename and rename after it; the cursor then moves back. This
  instance sees the first two records of one scope and no transient errors, which
  touch nothing the other process can see; `MCReliableScan` keeps the two
  instances apart by the slots that are used.
- streams: a malformed record between two good ones, repeats of any handled one,
  rejected records before, between and behind accepted ones, and three faults: an
  error, a second error before anything arrives, and a server close in between,
  with records published in the gaps.
- validation: three examples let a failure precede and follow a success and
  a skip; every subset of names and of exclusions, and an unknown name.
- sequence manager: three numbers and two refreshes interleave with the ledger,
  and another process can take numbers before, between and after them. Answers of
  two refreshes may return in either order, the older one last.
- polling: an interval of 2 doubling to a maximum of 4, not a divisor of the
  timeout of 13, so the last sleep is cut short; answers and timers are late by
  up to one tick; the retries of the last attempt cross the deadline; a
  `Retry-After` of 5 is longer than any interval.
- page walkers: seven records are three full pages and a short one, more than the
  five that are the limit and than the three pages that are; the limit falls
  inside a page; three faults let a server misbehave, recover and fail.
- dominators: four instructions contain every kind in every position; six
  suffice for loops in ifs and nested loops with branches out of both, where
  an edge back to a header is met before its source has a dominator. (Structured
  code gives reducible graphs, so that within these bounds the second sweep only
  confirms the first; graphs that need more cannot come out of `buildCfg`.)
  `MaxBlocks` is 8 so that some bodies are cut off by the guard that is 4,096
  in the code (`218:296`).
- calls: three functions with any calls, the first in any order, or four that
  call at most two others: two components joined by a call, two cycles that
  share a function, a cycle that is only reached from outside, and calls of
  functions that do not exist (yet). The limit on cycles is two or
  more than there are.

Named bounds of the state space: `N`, `MaxPages` (scan; the latter is the
`maxPages` parameter), `N` and `MaxFaults` (streams, page walkers), `MaxChain`,
`MaxTx` (sequence manager), `MaxShort`, `MaxLong` (dominators), `Small` and
`Sparse` (calls). `MaxRetries` of the scan is the code's 3.

`CHECK_DEADLOCK FALSE` stands where the program ends: a validation, a stream, a
workflow, a poll, a walk or an analysis is over, or a bound of users and ledger
is reached. The scan has no such end, as another run may always start.

The type invariants are proved (section 5) and therefore are not part of the runs.

## 4. Fairness

- `MCReliableScan!MCSpec`, the fairness of `ReliableScan!FairSpec`: weak fairness of
  the steps of each run. Every await of a run settles: a timer fires, a file
  operation returns, and a request is answered or fails. The last is an assumption
  on the network: 257 sets no timeout on its `Horizon.Server`. Starting runs,
  crashes, the ledger and the operator owe nothing.
- `ResilientStream!FairSpec`: weak fairness of the first request, a connection
  attempt, delivery on an open connection, and the timers and the loop of
  `run()`. Not of faults, signals, replays or the ledger.
- `ExampleValidation!FairSpec`: weak fairness of the executor's callbacks as a
  whole (one event loop), and of the reaction to SIGTERM of a child that is not
  stubborn. A child need not end by itself.
- `MCRequests!MCSpec`, the fairness of `PageWalk!WalkSpec`: weak fairness of an
  answer, be it an error: each walker awaits one request after the other. Not of the
  server's changes, failures or growth, nor of the interrupt of 209. `Ends` names
  the servers that hold a walk for ever all the same.
- `MCWasmGraphs!MCSpec`: weak fairness of the next step; one thread computes.

The other specifications need none: what they promise is safety. Delays of
`TransactionPolling` are bounds in the guards of `Tick`, not fairness.

## 5. What is proved

Theorems hold for every value of the constants under the module's `ASSUME`s,
which TLC evaluates in the runs. Each proof has the same shape: an inductive
invariant, one step of the proof per action, and a temporal step at the end.
Each module proves its `TypeCorrect`; the others are:

**`ReliableScanProofs`** - any number of processes, scopes, records and pages.

- `NothingLost` (`NoLoss`). A durable cursor covered by processed records is
  not inductive: a run whose page is half done will commit a cursor later. The
  invariant adds that what a run holds in memory was processed - the cursor it
  resumes from and the identities it skips as known (`MemoryInv`); that on its
  page a record which is not waiting was processed (`PageInv`); that while it
  saves, the answer's cursor is covered and the temporary file about to be
  renamed holds that cursor (`SaveInv`); and that its two counters stand below
  their bounds while they can grow (`BudgetInv`). Identities are only ever
  added to `processed`, so another process cannot spoil any of it.
- `NeverHalfWritten` (`NeverTorn`): only the renaming run's own temporary file
  replaces the checkpoint, and by then it is complete.
- `NeverTwiceInARun` (`OncePerRun`): a run that goes on remembers, in `seen` or
  in the batch of its page, every identity it handed to the callback (`Remembers`).
- `Refinement` (`ImplementsContract`): each step maps to a delivery, a covered
  commit, a reset or a stutter of `CheckpointContract`.
- `SoleOnlyForward`, `SoleReplay` (`OnlyForward`, `ReplayOnlyUncommitted`): both
  speak of a time in which a single process has used the checkpoint; the
  invariant adds that while it runs the file still holds the cursor it loaded or
  last wrote, in its scope.

**`ResilientStreamProofs`** - any set of variants, any number of records and faults.

- `OneWay`, `Cleaned`, `ReportStays` (`OneWayForward`, `NothingLeft`,
  `ReportIsFinal`), inductive together with: a stream or a reconnect timer
  belongs to a run that streams, and never both (`Owned`); nothing is armed
  before the first stream, and a report follows a stop (`Phases`).
- `Gapless` (`NoGap`). The handled records lie in the stretch between the first
  and the last one, all of which were handled or malformed (`Stretch`), and the
  places a stream can go on from - the cursor, the SDK's url and the position on
  the connection - are tied to the end of that stretch (`Anchored`).
- `CountBounds` (`CountHolds`): while the run goes on 159 has accepted fewer
  records than the bound, and the others have handled none at or past it that was
  not rejected (`CountOpen`), so the record that reaches the bound stops the run.

**`ExampleValidationProofs`** - any list, selection, exclusion and children.

- `Isolated`, `VerdictsTrue`, `ReportTells` (`OneAtATime`, `Truthful`,
  `ReportComplete`). The results name exactly the selected examples before `at`
  (`Progress`) in the order of the list (`Ordered`); nothing has happened to one
  whose turn has not come (`Untouched`); a result says what its child did
  (`Marks`, `Verdicts`), which cannot change any more; and the exit code of a
  report tells of the failures in it (`ExitTells`).

**`SequenceProofs`**, for `LocalSequenceManager`:

- `BookkeepingConsistent` (`Anchored`): for every user.
- `RefreshResynchronises` (`Resynchronised`): for users that submit in order and
  abandon nothing, while refreshes overlap with their transactions and with each
  other. What the manager knows of the ledger, or is about to be told, was true
  once (`Past`), and each number the cursor is ahead of the ledger belongs to a
  transaction in flight (`Backed`); an old answer may set the cursor back, never
  ahead. So with nothing in flight the cursor is not ahead of the ledger; if it is
  behind, so is the last known sequence (`Anchored`), and the comparison of
  `141:160` sees it.
- `NoNumberTwice` (`NeverReissued`): for those that also refresh with nothing in
  flight. A refresh then runs alone (`Quiet`), and its answer is not behind the
  cursor (`Answered`). Section 6 shows what a refresh in flight does.

and for `FeeBumpRecovery`, whose specification is `RecoverySpec`:

- `NeverPaidTwice` (`PaidAtMostOnce`): an included envelope has spent the one
  sequence both need.
- `ReturnedHasPaid` (`ReturnMeansPaid`), under the assumption that the payment
  operation cannot fail once included; section 6 shows the assumption is
  needed. The invariant `Witnessed` says that what the run has seen in an
  answer is in the ledger.

**`TransactionPollingProofs`** - any options the function accepts, four loops.

- `EndsInTime` (`Overrun`): `InTime` bounds, per loop, the time of the request or
  sleep under way by the number of retries behind it.
- `NoEarlyTimeout` (`GivesUpLate`), `FinalIsSeen` (`MissedOnlyLate`): an answer on
  its way was given by a server that looked (`Looked`); a transaction that is
  final, but was not in the last answer, became final after that answer was
  served, or the answer told nothing (`Watched`).
- `ServerIsSpared` (`Paced`): `n` requests of a call take at least `n - 1` initial
  intervals, and 160 makes no more than its retries allow. Delays grow by powers
  of two, a recursive function; that these are at least 1 is an induction over a
  set of exponents, by its least counterexample.
- `CancelIsFinal` (`NothingAfterCancel`): an aborted call is never asleep (`Awake`).

**`PageWalkProofs`** - any collection, page size, limits, predicate, type and
number of faults, nine walkers.

- `NothingSkipped` (`Unbroken`), `ToldTrue` (`Truthful`). The servers of 187, 209
  and 210 may search windows. "Completed" means everything there was all the same;
  187's "empty" does only if the server has no windows, since 187 ends with it at an
  empty page even when the answer has a cursor to go on from (`187:159`), and so
  does the end of 210. What lies before the cursor was returned, or looked at by 121
  (`Covered`), so a page that begins at or before the cursor leaves no hole. While
  the server goes on after the cursor - for 157 always - what is kept is a beginning
  of the collection (`Straight`) that ends at the cursor (`InStep`); what the
  walkers note for themselves is what they saw (`Noted`), and 121 keeps what it saw
  of its type (`Sifted`). A page is a stretch `Between(b, e)`; lemmas say what
  filtering, cutting, appending and sorting stretches give. The filter and the sort
  pick elements by their rank, so that facts on cardinality replace an induction.

**`DominatorsProofs`** - any set of bodies of WebAssembly, any `MAX_BLOCKS`.

- `ImmediateDominators` (`IdomsExact`). The reference is reachability with one
  block taken out, computed by levels. `AvoidingLeast` and `AvoidingClosed` say
  that these levels end at the least set closed under the edges: at each of
  them a block is added, or nothing ever will be. The search keeps every visited
  block on the stack or ended, with all ways out of an ended block visited
  (`Searched`), so that its order is complete and every block but the first has
  a predecessor earlier in it (`Sorted`). In the sweeps the `idom` of a block is
  an earlier block that all its strict dominators dominate (`Tree`), and so are
  the fingers (`Met`): they never climb past a common dominator. After a sweep
  without a change the `idom` of every block lies on the way up from each of its
  predecessors (`Fixed`); a path from the entry can then not get round it, so
  that it is a dominator. The proof makes no use of the graph's being reducible,
  or complete.
- `Measures` (`MeasuresExact`). In the tree of these `idom`s the ancestors of a
  block are its dominators; level `k` of the walk holds the blocks with `k` of them
  (`Levels`); after `k` turns of the addition a size counts the blocks dominated
  through the children already added (`PartialSize`), which needs the order to put
  children after their parent. `exitDominators` is compared without the exits
  themselves, of which section 6 says what the comment and the code do. That the
  list of what dominates all exits is the true one also needs an exit to be
  reachable: the code returns an empty list without one. While buildCfg reads, the
  blocks behind the open constructs are empty and none of them is being filled
  (`Waiting`), and no set of blocks that go on, each to others in the set, is closed
  under the edges (`Endless` does not hold): an edge is only ever added to a block
  that ends there or has still to be filled.
- `GraphExact` (`EdgesExact`), for bodies without `else` that are read whole. The
  invariant `Drawing` relates the graph drawn so far to the program: the labels
  are those of the constructs open at the place read next (`Nested`, `Shape`); a
  loop's label leads to its first place, any other behind its construct
  (`Aimed`); no block that ended in a jump is filled again (`Live`); the transfers
  of all instructions read so far stay in their block or have an edge (`Linked`),
  and each edge is one of them (`Justified`). Where a transfer leads to a place not
  read yet, `At` says which block that place will be in, and `AtStays` that this
  never changes. Which place a label names is a matter of counting: heights are
  differences of cardinalities, and the end of a construct is the first place
  after it at its height (`EndFacts`).
- `ReportTrue` (`MustPass`), for the same bodies. `ExecutedLeast` and
  `ExecutedClosed` characterise executions as the two lemmas above do reachability.
  An execution that keeps out of a block stays in what the graph reaches without
  it (`ExecutedAvoiding`); the converse needs that a block is filled once and is
  entered at its first place only (`Filling`, `InnerFrom`), so that all of a
  reachable block is executed (`ReachableExecuted`).

**`CallRecursionProofs`** - any number of functions, any calls, any limits.

- `Components` (`ComponentsExact`), from the invariant `TarjanInv`. The stack and
  the frames are in the order of the indices (`StacksRise`), and what a function
  was seen to call has been entered (`CallsTried`). A lowlink is the index of an
  open function that can be reached (`LowlinkReached`), and the lowlink of a
  frame lies at or below every open function that was seen to be called from it or
  from what is stacked between it and the next frame (`LowlinkCovers`). An
  open function leads to all above it (`OpenUpwards`) and back to a frame at or
  below it (`OpenBack`). So at a return whose lowlink is its index, nothing from
  there up calls an open function below, and all of it leads to each other; what
  it calls besides is in earlier components (`SccsClosed`). The reference for "leads
  to" is by closed sets: that a chain of calls never leaves a component and the
  earlier ones is shown by these being such a set.
- `RecursionComponents`: the same of the whole of `analyzeRecursion`, which
  leaves the components as they are.
- `Cycles` (`CyclesExact`): what is listed are simple cycles, none twice from the
  same function; below the limit none is missing; and the length called the
  shortest is. From the invariant `RecursionInv`. Of the component at
  hand it needs one thing (`AtHand`): no proper part of it that a member calls
  into is closed under the calls within it.
  - The search (`SearchInv`): a distance is the length of a path through functions
    that are all different, so a call of the start closes a simple cycle no longer
    than there are functions (`Distance`, `DistanceFacts`); the queue is in the
    order of the distances, none of which is more than one beyond its head or
    the function at hand (`QueueRises`, `FromLeads`); what is discovered is queued,
    or not worth it, or its calls were looked at (`Covered`). So when the queue is
    empty a cycle of the start shorter than `shortest` would have been seen one
    function after the other (`SearchEnded`). What `Promising` cuts off lies behind
    a distance that is no shorter than a known cycle.
  - The enumeration (`CircuitInv`): a simple cycle is listed, or still ahead -
    its start is, or it leaves the path by a call not yet looked at (`Ahead`,
    `Listed`). That a blocked function hides none is the difficult part: a
    blocked function off the path calls only blocked functions other than the
    start, and waits for each of them in `blockMap` (`Stuck`), so no cycle leads on
    through it (`DeadEnd`). Two facts keep this true. Where nothing was found,
    all that was called is blocked (`Fruitless`), so a return that blocks for good
    blocks a dead end. And `unblock` frees all that waits for what it frees, but
    nothing on the path (`Apart`: the path's functions do not wait for what lies
    behind them), so what stays blocked still calls blocked functions only.
    At the end of a start nothing is blocked any more, which is why it does not
    matter that only the members behind it are reset: a set of blocked
    functions that calls nothing else would be closed and miss the start
    (`NoneBeside`, `Blocking`).
  - The limit: `LimitExceeded` bounds by how much it is passed, fewer cycles than
    the component has members. Once it is met each cycle more costs a function of
    the path (`Spent`). The blocking invariants hold only until then, and need only
    then.

Recursive functions over `0..n` get their meaning from the lemma `Recursive` of
`DominatorsProofs`, and an induction over them is one over the set of numbers
for which a statement holds (`Induct`).

Only model-checked: all liveness (`RunEnds`, `RecordsArrive`, `RunReturns`,
`Concludes`, `Ends`, `Terminates`), since TLAPS does not prove liveness under
fairness or `ENABLED`; and `CallGraphTrue`, as the searches of `CallGraphs` are
recursive operators, out of the provers' reach. The seven runs of section
6 check what does not hold.

## 6. Where the code and its words disagree

Seven runs end in a counterexample on purpose.

1. `ExampleValidation_stubborn`. `executor.ts:128` sends one SIGTERM and the
   promise resolves on `close` only. A child that handles the signal and stays
   is awaited for ever: no result for it, none for any later example. A test
   says 'marks timed out execution as failed'.
2. `LocalSequenceManager_abandoned`. `refresh()` (`141:160`) compares the ledger
   with `lastKnownChainSequence`, not with the cursor. After an abandoned
   transaction the ledger has not moved, nothing looks stale, and the cursor
   stays ahead, so every later number is refused. The header says to reload the
   account in this case.
3. `FeeBumpRecovery_failing`. `isTransactionConfirmed` (`96:58`) asks whether
   Horizon knows the hash; Horizon also lists failed transactions. An original
   that ended in `tx_failed` is reported as confirmed after all, unpaid.
4. `MCDominators_else`. At `else` a new block is started and no edge leads to it
   (`218:352`); the block is taken for unreachable and the branches are not
   joined. The header calls the edges conservative. `EdgesExact` and
   `MustPass` therefore speak of bodies without `else`.
5. `LocalSequenceManager_inflight`. `refresh()` sets the cursor to the ledger's
   sequence whatever is in flight: "so future allocations start from the correct
   position" (`141:163`), as "previously allocated sequences are now invalid"
   (`141:167`). Those the ledger has not reached are still valid. With two
   numbers in flight and the first applied, a refresh hands out the second again,
   and two transactions in flight carry it. Nothing here is abandoned, submitted
   out of order or concurrent.
6. `MCWasmGraphs_limit`. `circuit` leaves only its innermost call when the limit is
   met (`wasm-static-analysis.ts:2190`); its callers go on, and a call of the start
   adds a cycle more. Calls `0 -> 1, 0` and `1 -> 0` with a limit of 1 give two. A
   test says 'enumerates cycles up to maxCycles and does not exceed the limit'
   (`tests/wasm-recursion.test.ts:391`); the comments at 2153 and 2279 say 'limited
   to maxCycles' and 'up to `maxCycles`'. Its body does not look at the cycles. (Its
   comment counts 'two distinct cycles' where the code lists each cycle once per
   member, as rotations, and counts them all.)
7. `MCWasmGraphs_roots`. "Track which root this came from"
   (`reachability-analyzer.ts:146`): `findRoot` takes the caller, if it is a root, or
   else the first root noted for it (`:172`). A root that leads to a function only
   through another root, or through what an earlier root reached, is not noted
   for it.

Met while modelling, and part of what the properties say (they are stated for
what the code does, at the lines they name):

- 92: the event count is looked at after a record that is displayed only
  (`92:448`); 159: its filter accepts everything unless every criterion is given.
- 189 has no limit on a request (`189:137`), and no look follows its last sleep;
  120 gives up before a sleep that would pass its timeout (`120:178`), so that
  one long `Retry-After` ends it at once; 190 overruns by a sleep (`190:237`).
- 160: `Retry-After` is not capped (`160:172`); a failed plan always claims
  `maxRetries + 1` attempts (`160:342`); the option `requestTimeoutMs` is unused.
- 157 notices no page that comes again, 121 compares a cursor with the one
  before it only (`121:156`): either can be held for ever. 187 notices a repeated
  cursor, after its page was fetched (`187:127`).
- 169 reports a truncated list when the collection has exactly as many holders
  as the limit; 66 asks for one record more to tell. 258 drops an error in the
  middle of a walk and returns what it has (`258:317`).
- 209 sends `startLedger` along with a cursor (`209:33`), which moves with
  non-empty pages only; 210 stops at the first short page, although a server
  may have searched a part of the range only.
- `exitDominators` should hold the blocks that dominate all exits "excluding the
  exit itself" (`218:548`); the code keeps an exit that dominates all exits, as a
  single one does. `MeasuresExact` leaves the exits out of the comparison: it says
  that every other block is listed exactly when it dominates all exits.
- `detectRecursion` (`call-graph-builder.ts:240`, `:265`) may also report a function
  that only calls into a cycle; the command `wasm-call-graph` prints them all as
  'Recursive Functions'. `CallGraphTrue` leaves these open: it says that no function
  on a cycle is missing, and that none is reported from which no cycle can be
  reached.
- `reachability-analyzer.ts`: a depth is that of some chain of calls, not always of
  the shortest, although line 151 says so. No property speaks of it.
- The depth of a transitive dependency counts a call back to a function that was
  visited (`function-dependency-analyzer.ts:86`).

Seen in the code, outside the models:

- 218: `dominatedBy` holds children only; blocks that end in a `br` count as exits;
  immediates of `0xfc` are read as instructions (`218:476`); a body beyond
  `MAX_BLOCKS` is cut off silently.
- 158: with the start cursor `now`, an error before the first record reopens the
  stream at a later now (`158:178`); what came between is not seen.
- `hasIndirectCycle` of `wasm-static-analysis.ts` looks at components of one
  function only.
- `280-wasm-side-effects.ts` imports `analyzeSideEffects`, which
  `utils/wasm-static-analysis.ts` does not export; the stand-alone analyser under
  `examples/soroban-wasm-side-effects` recurses without end when functions
  without effects call each other in a circle.
- `call-graph-builder.ts:63` numbers imported functions by their place among all
  imports, of tables and memories too.
- `validation.config.json:3` matches names with two digits, so examples from
  100 on are never validated.
- 226: the result of a merge depends on the order of snapshots without ledgers.
- The analyzer's `cfg-builder.ts` never fills the predecessors it declares.

## 7. Plan

Done: the scan with its contract (the only component whose state outlives a
process), the components with money or CI verdicts behind them, the streams, the
loops that poll and retry, the page walkers, and the graph algorithms. The safety
of all but the analyzer's searches of call graphs is proved. Left, in this order:

1. 226 and `soroban-state-snapshot.ts`: the merge as an operator against a
   reference definition, over all orders of a few snapshots.
2. The analyzer's stack usage along its call graph.
3. The three requests of 160's `run()` and its counters around the modelled retry.

## 8. What is not modelled, and why

- In modelled parts: wording, colours, JSON layout, argument and environment
  parsing; friendbot funding; the numeric backoff of the scan and of the streams
  (only that a timer is armed); which records a filter accepts; directory walking
  and wildcard matching in discovery (the set of names they yield is a constant,
  the excluded ones any subset); decoding of a WebAssembly binary (the models
  start from decoded instructions or calls); the linear walk-through of 141
  around its manager; the reports that 66, 169 and 258 make of what they fetched.
- Contract event queries (67): one query, tried once more with a narrower range.
- State tools (197, 216, 226 and their utilities): functions on snapshot files.
- The rest of the analyzer, its CLI and the other WebAssembly analyses: sequential
  decoders and reports, almost all of it data layout; the analyzer's dominator
  sets are stubs.
- Runner, catalog, inspector, ScVal helpers: dispatch, prompting, one request
  or a conversion. The catalog alone is 40,000 lines of data.
- Some two hundred examples that await one call after the other.

Assumptions about what is outside `src/`:

- SDK and Horizon: a closed stream delivers nothing more; `now` is resolved when
  the connection arrives; records of an open connection come in order, after
  which any handled one may come again; a page's cursor covers what the page
  returned; a page of a walk begins at the cursor or, from a server that
  misbehaves, not beyond it; Horizon lists failed transactions under their hash.
- Order of pages: new records come after all others. Events, operations and
  transactions are ordered by time. The accounts that 169 asks for (`169:379`) are
  ordered by their id, so a new holder could come before the cursor and be left out
  by any walk; the model of 169 has no holders that come during the walk.
- `getEvents` of 187 accepts its requests, as it sends `startLedger` only without a
  cursor. A server that answers a replaying walker (`Replayers`) does not repeat
  pages.
- Scan: `OnlyForward` assumes that an answer never carries an earlier cursor than
  the request; `reliable-scan.ts:79` does not compare them.
- Users of 141: what `habits` says. Only orderliness and abandonment are in its
  comments; that no refresh runs with transactions in flight is not, and section 6
  shows why `NeverReissued` needs it.
- Ledger: a transaction applies only with the next sequence number, and one
  that is included spends it whether or not its operations succeed.
- File system: a write truncates, then writes; a rename is atomic.
- Operator: edits or removes a checkpoint only while no run is active.
- Node: callbacks are atomic; a timer is never early; the clock does not jump
  back; no second signal arrives after the handlers are gone.
- Polling: intervals are positive, though 120 and 160 accept 0, which would ask
  without a pause; answers within `Latency`, timers within `Late`; a final status does
  not change. The code sets no limit on a request of its own, so every bound on
  time is stated in terms of these two.
