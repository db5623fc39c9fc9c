--------------------------- MODULE ResilientStream ---------------------------
(***************************************************************************)
(* The examples that consume a Horizon event stream: one run() opens it,   *)
(* handles its records and errors, and stops on a signal, a duration or an *)
(* event count.  Callbacks of the stream and of up to two timers           *)
(* interleave on one JavaScript thread.                                    *)
(*  - 158 and its smaller sibling 44 own their cursor and, after an error, *)
(*    a timer that opens the stream again;                                 *)
(*  - 19 and 92 leave reconnecting to the SDK; 92 shows one direction only *)
(*    and fails on a fatal error;                                          *)
(*  - 159 filters the records and stops at the first error.                *)
(*                                                                         *)
(* A run is of one of the Variants: an example, with its parameters,       *)
(* against a Horizon that behaves in one way or another.                   *)
(***************************************************************************)
EXTENDS Integers, Sequences, FiniteSets

CONSTANTS
    N,          \* bound: the ledger publishes at most N records
    MaxFaults,  \* bound: stream errors and server-side closes of one run
    Now,        \* the cursor "now"
    Undefined,  \* the paging token of a malformed record
    Variants    \* the runs to consider

Cursor == 0..N \cup {Now}

Examples == {158, 44, 19, 92, 159}

\* start is params.cursor, or Now; maxEvents is STREAM_MAX_EVENTS, 0 when it
\* is undefined; duration tells whether STREAM_DURATION_SECONDS is set; 92
\* and 159 filter out the rejected records.  Records at the malformed
\* positions carry no paging token and replays lets Horizon send a record
\* again: only 158 looks for either.
Variant == [example : Examples, start : Cursor, maxEvents : Nat, duration : BOOLEAN,
            rejected : SUBSET (1..N), malformed : SUBSET (1..N), replays : BOOLEAN]

ASSUME StreamAssumption ==
    /\ N \in Nat /\ MaxFaults \in Nat
    /\ Now \notin Int /\ Undefined \notin Int \cup {Now}
    /\ Variants \subseteq Variant
    /\ \A v \in Variants : /\ v.example # 158 => v.malformed = {} /\ ~v.replays
                           /\ v.example \notin {92, 159} => v.rejected = {}
                           /\ v.example \in {44, 19, 92} => v.start = Now

VARIABLES
    variant,    \* the run this one is
    head,       \* the last record the ledger has published
    faults,     \* faults so far
    phase,      \* of run(): probing the server, streaming, returned, failed
    stream,     \* the open stream of the SDK: off, connecting, open
    url,        \* the cursor in the SDK's own url
    at,         \* how far Horizon has sent on this connection
    cursor,     \* cursor, and stats.lastCursor; 19 and 92 keep none (history)
    log,        \* the records handled, in order: its length is the event count
    timer,      \* reconnectTimer is armed
    duration,   \* durationTimer is armed
    attempt,    \* reconnectAttempt
    shutdown,
    report      \* what run() returned

world == <<variant, head>>
sdk == <<stream, url, at>>
stats == <<cursor, log>>
vars == <<world, faults, phase, sdk, stats, timer, duration, attempt, shutdown, report>>

Example == variant.example
Filtering == Example = 158
Rejected == variant.rejected
Malformed == variant.malformed
MaxEvents == variant.maxEvents

Seen == {log[i] : i \in 1..Len(log)}

Init == /\ variant \in Variants
        /\ head = 0 /\ faults = 0
        /\ phase = "probing"
        /\ stream = "off" /\ url = variant.start /\ at = 0
        /\ cursor = variant.start /\ log = <<>>
        /\ timer = FALSE /\ duration = FALSE
        /\ attempt = 0 /\ shutdown = FALSE
        /\ report = <<>>

-----------------------------------------------------------------------------
(* stop and cleanup                                                        *)

StopLeavingTimer == /\ ~shutdown                              \* mutant
                    /\ shutdown' = TRUE
                    /\ stream' = "off"
                    /\ duration' = FALSE
                    /\ UNCHANGED timer

StopLeavingStream == /\ ~shutdown                             \* mutant
                     /\ shutdown' = TRUE
                     /\ timer' = FALSE
                     /\ duration' = FALSE
                     /\ UNCHANGED stream

\* stop(): once; the stream is closed and the timers are cleared, but 159
\* lets its duration timer run.
Stop == /\ ~shutdown
        /\ shutdown' = TRUE
        /\ stream' = "off"
        /\ timer' = FALSE
        /\ duration' = (duration /\ Example = 159)

\* SIGINT or SIGTERM while the handlers are registered; 159 has none.
Signal == /\ phase = "streaming"
          /\ Example # 159
          /\ Stop
          /\ UNCHANGED <<world, faults, phase, url, at, stats, attempt, report>>

\* The duration timer fires: stop(), which does nothing in a stopped 159.
DurationElapses == /\ duration
                   /\ duration' = FALSE
                   /\ shutdown' = TRUE /\ stream' = "off" /\ timer' = FALSE
                   /\ UNCHANGED <<world, faults, phase, url, at, stats, attempt, report>>

-----------------------------------------------------------------------------
(* openStream, onmessage, onerror, scheduleReconnect                       *)

OpenFrom(c) == /\ stream' = "connecting"
               /\ url' = c

DurationOnlyByDefault == Filtering /\ MaxEvents = 0           \* mutant

\* 158 falls back to eight seconds when no bound was given, 159 always.
DurationArmed == variant.duration \/ (Filtering /\ MaxEvents = 0) \/ Example = 159

\* server.root() has answered: the stream opens, the duration timer is armed.
Begin == /\ phase = "probing"
         /\ phase' = "streaming"
         /\ OpenFrom(cursor)
         /\ duration' = DurationArmed
         /\ UNCHANGED <<world, faults, at, stats, timer, attempt, shutdown, report>>

\* 159 opens its stream without asking.
ProbeFails == /\ phase = "probing" /\ Example # 159
              /\ phase' = "failed"
              /\ UNCHANGED <<world, faults, sdk, stats, timer, duration, attempt, shutdown, report>>

\* Horizon resolves "now" when the connection arrives.
Connect == /\ stream = "connecting"
           /\ stream' = "open"
           /\ at' = IF url = Now THEN head ELSE url
           /\ UNCHANGED <<world, faults, phase, url, stats, timer, duration, attempt, shutdown, report>>

IgnoredMalformed(r) == Filtering /\ r \in Malformed           \* mutant

\* A record without a paging token, or one handled before.
Ignored(r) == Filtering /\ (r \in Malformed \/ r \in Seen)

\* How many of the handled records the filter let through.
Accepted == Cardinality({i \in 1..Len(log) : log[i] \notin Rejected})

CountReachedLate(r) == MaxEvents # 0 /\ Len(log) >= MaxEvents  \* mutant

\* A rejected record ends no run.  159 counts what it accepts, 92 what it
\* receives.
CountReached(r) ==
    /\ MaxEvents # 0 /\ r \notin Rejected
    /\ (IF Example = 159 THEN Accepted ELSE Len(log)) + 1 >= MaxEvents

Token(r) == IF r \in Malformed THEN Undefined ELSE r

Handle(r) == /\ cursor' = Token(r)
             /\ log' = Append(log, r)
             /\ attempt' = 0
             /\ IF CountReached(r) THEN Stop
                ELSE UNCHANGED <<stream, timer, duration, shutdown>>

\* The SDK stores the token of what it delivers, then calls onmessage.
OnMessage(r) == /\ url' = IF r \in Malformed THEN url ELSE r
                /\ IF Ignored(r)
                   THEN UNCHANGED <<stats, attempt, stream, timer, duration, shutdown>>
                   ELSE Handle(r)
                /\ UNCHANGED <<world, faults, phase, report>>

Deliver == /\ stream = "open"
           /\ at < head
           /\ at' = at + 1
           /\ OnMessage(at + 1)

\* Horizon repeats a record that this run has handled.
Replay == \E r \in Seen :
    /\ variant.replays
    /\ stream = "open"
    /\ OnMessage(r)
    /\ UNCHANGED at

OnErrorKeepingStream ==                                       \* mutant
    /\ stream # "off"
    /\ faults < MaxFaults
    /\ faults' = faults + 1
    /\ attempt' = attempt + 1
    /\ timer' = TRUE
    /\ UNCHANGED <<world, phase, sdk, stats, duration, shutdown, report>>

\* The connection fails or drops: close it, count, arm the backoff timer.
OnError == /\ stream # "off" /\ Example \in {158, 44}
           /\ faults < MaxFaults
           /\ faults' = faults + 1
           /\ stream' = "off"
           /\ attempt' = attempt + 1
           /\ timer' = TRUE
           /\ UNCHANGED <<world, phase, url, at, stats, duration, shutdown, report>>

\* 159 stops at an error.
OnErrorStop == /\ stream # "off" /\ Example = 159
               /\ faults < MaxFaults
               /\ faults' = faults + 1
               /\ Stop
               /\ UNCHANGED <<world, phase, url, at, stats, attempt, report>>

\* 19 and 92 report an error and leave the stream to the SDK, which connects
\* again from its own url.
OnErrorGoOn == /\ stream # "off" /\ Example \in {19, 92}
               /\ faults < MaxFaults
               /\ faults' = faults + 1
               /\ stream' = "connecting"
               /\ UNCHANGED <<world, phase, url, at, stats, timer, duration, attempt, shutdown, report>>

\* 92 gives up when the account is not found.
OnErrorFatal == /\ stream # "off" /\ Example = 92
                /\ faults < MaxFaults
                /\ faults' = faults + 1
                /\ Stop
                /\ phase' = "failed"
                /\ UNCHANGED <<world, url, at, stats, attempt, report>>

\* Horizon ends the stream politely: the SDK reconnects from its own url and
\* neither callback runs.
ServerClose == /\ stream = "open"
               /\ faults < MaxFaults
               /\ faults' = faults + 1
               /\ stream' = "connecting"
               /\ UNCHANGED <<world, phase, url, at, stats, timer, duration, attempt, shutdown, report>>

ReconnectAtNow == /\ timer                                    \* mutant
                  /\ timer' = FALSE
                  /\ OpenFrom(Now)
                  /\ UNCHANGED <<world, faults, phase, at, stats, duration, attempt, shutdown, report>>

\* The backoff timer fires: open again from the last handled record.
Reconnect == /\ timer
             /\ timer' = FALSE
             /\ IF shutdown THEN UNCHANGED <<stream, url>> ELSE OpenFrom(cursor)
             /\ UNCHANGED <<world, faults, phase, at, stats, duration, attempt, shutdown, report>>

\* run() returns its report, if it has one: 158, 44 and 159 when their
\* 250 ms loop notices the shutdown, 19 and 92 when the promise is resolved.
Return == /\ phase = "streaming"
          /\ shutdown
          /\ phase' = "returned"
          /\ report' = <<cursor, Len(log)>>
          /\ UNCHANGED <<world, faults, sdk, stats, timer, duration, attempt, shutdown>>

Publish == /\ head < N
           /\ head' = head + 1
           /\ UNCHANGED <<variant, faults, phase, sdk, stats, timer, duration, attempt, shutdown, report>>

Next == \/ Begin \/ ProbeFails
        \/ Connect \/ Deliver \/ Replay \/ ServerClose \/ Reconnect
        \/ OnError \/ OnErrorStop \/ OnErrorGoOn \/ OnErrorFatal
        \/ Signal \/ DurationElapses \/ Return
        \/ Publish

Spec == Init /\ [][Next]_vars

\* Timers fire, the loop polls, a connection attempt settles, and Horizon
\* sends what it has on an open connection.  The ledger, the operator and
\* the faults owe nothing.
FairSpec == /\ Spec
            /\ WF_vars(Begin \/ ProbeFails) /\ WF_vars(Connect) /\ WF_vars(Deliver)
            /\ WF_vars(Reconnect) /\ WF_vars(DurationElapses) /\ WF_vars(Return)

-----------------------------------------------------------------------------
(* Properties                                                              *)

TypeOK == /\ variant \in Variants
          /\ head \in 0..N /\ faults \in 0..MaxFaults
          /\ phase \in {"probing", "streaming", "returned", "failed"}
          /\ stream \in {"off", "connecting", "open"}
          /\ url \in Cursor /\ at \in 0..N
          /\ cursor \in Cursor /\ log \in Seq(1..N)
          /\ timer \in BOOLEAN /\ duration \in BOOLEAN /\ shutdown \in BOOLEAN
          /\ attempt \in 0..MaxFaults
          /\ report \in {<<>>} \cup (Cursor \X Nat)

\* While the run streams, exactly one thing will bring the next record: the
\* stream, or the timer that reopens it.  Both would deliver twice and leave
\* a stream that cleanup cannot close; neither would stall.
OneWayForward == phase = "streaming" /\ ~shutdown => (stream # "off") # timer

\* After stop() nothing is left that could call back, but the duration timer
\* of 159 (line 342), which finds the run stopped.
NothingLeft == shutdown => stream = "off" /\ ~timer /\ (duration => Example = 159)

\* An event count bounds the run (158: line 306, 159: line 322, 92: line
\* 455): past it nothing is handled but what a filter rejects, and one record
\* more, which ends the run; and 159 never accepts more than it.
CountHolds == MaxEvents # 0 =>
    /\ \A i \in MaxEvents..(Len(log) - 1) : log[i] \in Rejected \/ Example = 159
    /\ Example = 159 => Accepted <= MaxEvents
    /\ Len(log) >= MaxEvents /\ Rejected = {} => shutdown

\* Once the first record is handled, no well-formed record is skipped and
\* none is handled twice, through errors, reconnects and replays.
NoGap == \A i \in 1..(Len(log) - 1) :
    /\ log[i] < log[i + 1]
    /\ \A r \in (log[i] + 1)..(log[i + 1] - 1) : r \in Malformed

\* The report is what was handled: nothing is handled after run() returned.
ReportIsFinal == phase = "returned" => report = <<cursor, Len(log)>>

\* A run with a duration comes to an end, whatever Horizon does, and so does
\* one of 159 (line 341) and one of 158 to which neither bound was given
\* (lines 354-362).
RunReturns == variant.duration \/ Example = 159 \/ (Filtering /\ MaxEvents = 0)
                  => <>(phase \in {"returned", "failed"})

\* Once anchored at a record, every later published record is handled unless
\* the run is stopped first.
RecordsArrive == \A r \in 1..N :
    (phase = "streaming" /\ cursor # Now /\ cursor < r /\ r <= head /\ r \notin Malformed)
        ~> (r \in Seen \/ shutdown)
=============================================================================
