-------------------------- MODULE ExampleValidation --------------------------
(***************************************************************************)
(* src/src/validation and src/src/validate-examples.ts: the framework      *)
(* discovers examples, runs each one in a child process of its own, one    *)
(* after the other, kills a child that exceeds the timeout, and turns the  *)
(* results into a summary and an exit code for CI.                         *)
(*                                                                         *)
(* The children are the environment: they exit when and how they like,     *)
(* their pipes close some time after they exited, a signal may be handled. *)
(***************************************************************************)
EXTENDS Integers, Sequences, FiniteSets, SequencesExt

CONSTANTS
    Examples,   \* the discovered examples, in the order of their names
    Unknown,    \* a name --only may carry although no example has it
    Stubborn    \* the examples whose process does not end on SIGTERM

ASSUME ExamplesAssumption ==
    /\ Examples \in Seq(ToSet(Examples)) /\ IsInjective(Examples)
    /\ Unknown \notin ToSet(Examples)
    /\ Stubborn \subseteq ToSet(Examples)

VARIABLES
    only,           \* --only, {} when absent
    excluded,       \* the examples an exclusion rule of the config matches
    includeExcluded,\* --include-excluded
    at,             \* where the loop over the selected examples is, in Examples
    results,        \* the array of results
    phase,          \* of main(): loop, waiting for a child, reported, failed to start
    process,        \* per example, the operating system's view of its child
    signalled,      \* the examples whose child got SIGTERM while it ran
    armed,          \* the examples whose timeout timer is armed
    timedOut,       \* timedOut of each child
    spawnError,     \* spawnError of each child
    exitStatus      \* what the shell sees, 0 or 1, or -1 while main() runs

options == <<only, excluded, includeExcluded>>
child == <<process, signalled, armed, timedOut, spawnError>>
vars == <<options, at, results, phase, child, exitStatus>>

Names == ToSet(Examples)
Status == {"passed", "failed", "skipped"}
Ended == {"zero", "nonzero", "signal"}   \* how a child ended
ProcessState == {"absent", "unborn", "running"} \cup Ended

-----------------------------------------------------------------------------
\* filterSelectedExamples: an empty list selects everything.
Selected == {e \in Names : only = {} \/ e \in only}

\* The loop goes from the i-th to the j-th example; beyond the last it ends.
Follows(i, j) == /\ j \in (i + 1)..(Len(Examples) + 1)
                 /\ j <= Len(Examples) => Examples[j] \in Selected
                 /\ \A k \in (i + 1)..(j - 1) : Examples[k] \notin Selected

Over == at > Len(Examples)
Example == Examples[at]

Init == /\ only \in SUBSET (Names \cup {Unknown})
        /\ excluded \in SUBSET Names
        /\ includeExcluded \in BOOLEAN
        /\ at \in 1..(Len(Examples) + 1) /\ Follows(0, at)
        /\ results = <<>>
        /\ phase = "loop"
        /\ process = [e \in Names |-> "absent"]
        /\ signalled = {} /\ armed = {} /\ timedOut = {} /\ spawnError = {}
        /\ exitStatus = -1

IsExcluded(e) == e \in excluded /\ ~includeExcluded

\* push, and on to the next example.
Push(status) == /\ results' = Append(results, [name |-> Example, status |-> status])
                /\ at' \in 1..(Len(Examples) + 1) /\ Follows(at, at')

Skip == /\ phase = "loop" /\ ~Over
        /\ IsExcluded(Example)
        /\ Push("skipped")
        /\ UNCHANGED <<options, phase, child, exitStatus>>

\* runExampleInSubprocess up to its promise: spawn a child, arm the timer.
\* The child may never be born: then 'error' and 'close' are still to come.
Spawn == /\ phase = "loop" /\ ~Over
         /\ ~IsExcluded(Example)
         /\ \E born \in {"running", "unborn"} : process' = [process EXCEPT ![Example] = born]
         /\ armed' = armed \cup {Example}
         /\ phase' = "waiting"
         /\ UNCHANGED <<options, at, results, signalled, timedOut, spawnError, exitStatus>>

\* spawn() itself throws: nothing catches it below main(), which exits with 1.
SpawnThrows == /\ phase = "loop" /\ ~Over
               /\ ~IsExcluded(Example)
               /\ phase' = "aborted"
               /\ exitStatus' = 1
               /\ UNCHANGED <<options, at, results, child>>

-----------------------------------------------------------------------------
(* what a child does                                                       *)

Exit(e, how) == /\ process' = [process EXCEPT ![e] = how]
                /\ UNCHANGED <<options, at, results, phase, signalled, armed, timedOut,
                               spawnError, exitStatus>>

\* run() returns and nothing keeps the process alive, or it throws, or the
\* operating system ends it.
ChildEnds(e) == /\ process[e] = "running"
                /\ \E how \in Ended : Exit(e, how)

\* SIGTERM ends the child, or its handler does: 19, 44, 92 and 158 stop
\* their streams and exit with 0.
ChildObeys(e) == /\ process[e] = "running"
                 /\ e \in signalled \ Stubborn
                 /\ \E how \in Ended : Exit(e, how)

\* The 'error' event of a child that could not be spawned.
OnError(e) == /\ process[e] = "unborn"
              /\ spawnError' = spawnError \cup {e}
              /\ process' = [process EXCEPT ![e] = "nonzero"]
              /\ UNCHANGED <<options, at, results, phase, signalled, armed, timedOut, exitStatus>>

-----------------------------------------------------------------------------
(* the executor's callbacks                                                *)

OnTimeoutUnheeded(e) == /\ e \in armed                        \* mutant
                        /\ armed' = armed \ {e}
                        /\ timedOut' = timedOut \cup {e}
                        /\ UNCHANGED <<options, at, results, phase, process, signalled,
                                       spawnError, exitStatus>>

\* The timer fires: remember it, kill once.  A child that already exited but
\* whose pipes are still open is not signalled any more.
OnTimeout(e) == /\ e \in armed
                /\ armed' = armed \ {e}
                /\ timedOut' = timedOut \cup {e}
                /\ signalled' = IF process[e] = "running" THEN signalled \cup {e} ELSE signalled
                /\ UNCHANGED <<options, at, results, phase, process, spawnError, exitStatus>>

SettledOnTimeout(e) == phase = "waiting" /\ e = Example       \* mutant
                       /\ (process[e] \in Ended \/ e \in timedOut)

\* The promise resolves on 'close' only.
Settled(e) == phase = "waiting" /\ e = Example /\ process[e] \in Ended

HasErrorByExit(e) == process[e] # "zero"                      \* mutant

\* buildErrorMessage returns a message.
HasError(e) == e \in spawnError \/ e \in timedOut \/ process[e] # "zero"

\* clearTimeout
Disarmed(e) == armed \ {e}

\* 'close': the timer is cleared, the promise resolves, and the loop pushes
\* the result and goes on before any other event is handled.
OnClose(e) == /\ Settled(e)
              /\ armed' = Disarmed(e)
              /\ Push(IF HasError(e) THEN "failed" ELSE "passed")
              /\ phase' = "loop"
              /\ UNCHANGED <<options, process, signalled, timedOut, spawnError, exitStatus>>

Count(status) == Cardinality({i \in 1..Len(results) : results[i].status = status})

ExitOfReport == IF Count("passed") = 0 THEN 1 ELSE 0          \* mutant

\* main(): exitCode is 1 when the summary counts a failure.
ExitCode == IF Count("failed") > 0 THEN 1 ELSE 0

\* The loop is over: summary, report, exit code.
Report == /\ phase = "loop" /\ Over
          /\ phase' = "reported"
          /\ exitStatus' = ExitCode
          /\ UNCHANGED <<options, at, results, child>>

Executor == Skip \/ Spawn \/ Report \/ \E e \in Names : OnTimeout(e) \/ OnError(e) \/ OnClose(e)

Next == \/ Executor
        \/ SpawnThrows
        \/ \E e \in Names : ChildEnds(e) \/ ChildObeys(e)

Spec == Init /\ [][Next]_vars

\* Node runs its callbacks and its timers; a signalled child that is not
\* stubborn ends.  A child need not end by itself: it may stream for ever.
FairSpec == /\ Spec
            /\ WF_vars(Executor)
            /\ \A e \in Names : WF_vars(ChildObeys(e))

-----------------------------------------------------------------------------
(* properties                                                              *)

TypeOK == /\ only \subseteq Names \cup {Unknown}
          /\ excluded \subseteq Names
          /\ includeExcluded \in BOOLEAN
          /\ at \in 1..(Len(Examples) + 1)
          /\ results \in Seq([name : Names, status : Status])
          /\ phase \in {"loop", "waiting", "reported", "aborted"}
          /\ process \in [Names -> ProcessState]
          /\ signalled \subseteq Names /\ armed \subseteq Names
          /\ timedOut \subseteq Names /\ spawnError \subseteq Names
          /\ exitStatus \in {-1, 0, 1}

\* Examples are isolated: at most one child lives, it is the one the loop
\* waits for, main() never reports or aborts with a child still alive, and no
\* timer survives its child to fire while a later one runs (executor.ts
\* awaits each subprocess before the next).
OneAtATime == \A e \in Names :
    process[e] \in {"unborn", "running"} \/ e \in armed => phase = "waiting" /\ e = Example

\* A verdict tells what the child did: "passed" only for a child that exited
\* with 0, unsignalled and unharried; "failed" only for one that did not exit
\* with 0 or whose timeout elapsed (buildErrorMessage and its priorities).
Truthful == \A i \in 1..Len(results) :
    LET e == results[i].name IN
    /\ results[i].status = "passed" => /\ process[e] = "zero"
                                       /\ e \notin signalled \cup timedOut \cup spawnError
    /\ results[i].status = "failed" => process[e] \in {"nonzero", "signal"} \/ e \in timedOut
    /\ results[i].status = "skipped" => process[e] = "absent"

Before(d, e) == \E i, j \in 1..Len(Examples) : i < j /\ Examples[i] = d /\ Examples[j] = e

\* The report covers exactly the requested examples, each once and in order,
\* whatever failed before (the loop of executeExamples never stops early),
\* and skips exactly what the configuration excludes.  CI sees 1 exactly when
\* some child did not exit with 0 in time.
ReportComplete == phase = "reported" =>
    /\ {results[i].name : i \in 1..Len(results)} = Selected
    /\ \A i, j \in 1..Len(results) : i < j => Before(results[i].name, results[j].name)
    /\ \A i \in 1..Len(results) :
         results[i].status = "skipped" <=> results[i].name \in excluded /\ ~includeExcluded
    /\ exitStatus = 1 <=> timedOut # {} \/ \E e \in Names : process[e] \in {"nonzero", "signal"}

\* When every child obeys SIGTERM the framework always comes to an end, with
\* children that would stream for ever (the timeout of executor.ts).
Concludes == <>(phase \in {"reported", "aborted"})

\* "marks timed out execution as failed" (tests/validation-executor.test.ts).
TimedOutIsFailed == \A e \in Names :
    e \in timedOut ~> \E i \in 1..Len(results) : results[i] = [name |-> e, status |-> "failed"]

=============================================================================
