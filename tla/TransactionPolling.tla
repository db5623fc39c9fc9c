------------------------- MODULE TransactionPolling -------------------------
(***************************************************************************)
(* Four loops around a request.  Three ask for a transaction until it is   *)
(* final, and look at their timeout in three different places; the fourth  *)
(* has none, but gives up:                                                 *)
(*  - "poll", 189: pollTransactionStatus, with growing intervals, retries  *)
(*    of a failed look and an AbortSignal;                                 *)
(*  - "lifecycle", 120: monitorTransaction, with Horizon's Retry-After;    *)
(*  - "monitor", 190: pollTransaction, which sleeps before it looks;       *)
(*  - "request", 160: executeWithRetry, around any request of Horizon.      *)
(* Time is explicit: elapsed is now() - startedAt, in ticks.  A request    *)
(* takes at most Latency ticks and a timer fires at most Late ticks after  *)
(* it is due; the code promises neither, so every bound below is stated in *)
(* terms of both.                                                          *)
(***************************************************************************)
EXTENDS Integers

CONSTANTS
    InitialInterval, Multiplier, MaxInterval, Timeout, MaxRetries,  \* PollingOptions
    MaxRetryAfter,  \* the longest Retry-After of a 429
    Latency, Late   \* the slowest answer of the server, and of a timer

\* The options 189 accepts (121-128), those 120, 190 and 160 have by default
\* among them, and what Latency and Late mean.
ASSUME OptionsAssumption ==
    /\ InitialInterval \in Nat \ {0} /\ Multiplier \in Nat \ {0}
    /\ MaxInterval \in Nat /\ MaxInterval >= InitialInterval
    /\ Timeout \in Nat \ {0} /\ MaxRetries \in Nat
    /\ MaxRetryAfter \in Nat /\ Latency \in Nat /\ Late \in Nat

VARIABLES
    loop,       \* which of the four
    pc,         \* where it is
    elapsed,    \* now() - startedAt
    interval,   \* intervalMs
    retry,      \* failed requests of the current attempt, attempt - 1 in 160
    due,        \* when the pending timer is due, or the latest answer comes
    aborted,    \* options.signal.aborted
    fate,       \* the status the server reports for the transaction
    settledAt,  \* when fate became final, 0 before (history)
    served,     \* the status the server put in the answer under way
    asks,       \* the number of requests (history)
    blind       \* the last request told nothing of it (history)

network == <<fate, settledAt>>
vars == <<loop, pc, elapsed, interval, retry, due, aborted, network, served, asks, blind>>

Loops == {"poll", "lifecycle", "monitor", "request"}

Final == {"SUCCESS", "FAILED"}
Status == {"NOT_FOUND", "PENDING"} \cup Final
Done == {"returned", "canceled", "failed", "timedOut"}

\* Math.min, Math.max
Lesser(a, b) == IF a <= b THEN a ELSE b
Greater(a, b) == IF a >= b THEN a ELSE b

NextIntervalUncapped(i) == i * Multiplier                     \* mutant
NextInterval(i) == Lesser(MaxInterval, i * Multiplier)

RetryDelayUncapped(r) == interval * 2^r                       \* mutant
RetryDelay(r) == Lesser(MaxInterval, interval * 2^r)

\* setTimeout takes a delay below 1 ms for 1 ms.
Delay(ms) == IF ms < 1 THEN 1 ELSE ms

Init == /\ loop \in Loops
        /\ pc = "start" /\ elapsed = 0 /\ interval = InitialInterval
        /\ retry = 0 /\ due = 0 /\ asks = 0
        /\ aborted \in BOOLEAN /\ (aborted => loop = "poll")
        /\ fate \in Status /\ settledAt = 0 /\ served = "none" /\ blind = FALSE

-----------------------------------------------------------------------------
(* the transaction, the clock and the signal                               *)

\* The transaction becomes known to the network, then final.
Progress == /\ pc \notin Done /\ fate \notin Final
            /\ fate' \in (Final \cup {"PENDING"}) \ {fate}
            /\ settledAt' = IF fate' \in Final THEN elapsed ELSE settledAt
            /\ UNCHANGED <<loop, pc, elapsed, interval, retry, due, aborted, served, asks, blind>>

\* Time passes, but no answer and no timer is later than it may be.
Latest == IF pc = "asked" THEN due ELSE due + Late
Tick == /\ pc \in {"asked", "asleep", "backoff"}
        /\ elapsed < Latest
        /\ elapsed' = elapsed + 1
        /\ UNCHANGED <<loop, pc, interval, retry, due, aborted, network, served, asks, blind>>

\* controller.abort(): a pending sleep rejects at once, a request goes on.
Abort == /\ loop = "poll" /\ ~aborted /\ pc \notin Done
         /\ aborted' = TRUE
         /\ pc' = IF pc \in {"asleep", "backoff"} THEN "canceled" ELSE pc
         /\ UNCHANGED <<loop, elapsed, interval, retry, due, network, served, asks, blind>>

-----------------------------------------------------------------------------
(* 189: pollTransactionStatus                                              *)

\* One request for the transaction.
Ask == /\ pc' = "asked"
       /\ due' = elapsed + Latency
       /\ asks' = asks + 1

SleepDeaf(p, ms) == /\ pc' = p                                \* mutant
                    /\ due' = elapsed + Delay(ms)

\* defaultSleep (54): a signal that is already aborted rejects at once.
Sleep(p, ms) == IF aborted THEN pc' = "canceled" /\ UNCHANGED due
                ELSE pc' = p /\ due' = elapsed + Delay(ms)

\* The head of the loop: too late, canceled, or the first request of the
\* next attempt.
Iterate == /\ CASE elapsed >= Timeout -> pc' = "timedOut" /\ UNCHANGED <<due, asks>>
                [] elapsed < Timeout /\ aborted -> pc' = "canceled" /\ UNCHANGED <<due, asks>>
                [] OTHER -> Ask
           /\ retry' = 0 /\ served' = "none"
           /\ UNCHANGED <<loop, elapsed, aborted, network, blind>>

Start == loop = "poll" /\ pc = "start" /\ Iterate /\ UNCHANGED interval

\* The sleep between two attempts is over.
Wake == /\ loop = "poll" /\ pc = "asleep" /\ elapsed >= due
        /\ interval' = NextInterval(interval)
        /\ Iterate

\* The server looks the transaction up; the answer is still under way.  RPC
\* may name a status the code does not know.
Serve == /\ pc = "asked" /\ served = "none"
         /\ \/ served' = fate
            \/ loop \in {"poll", "monitor"} /\ served' = "unexpected"
         /\ blind' = (served' = "unexpected")
         /\ UNCHANGED <<loop, pc, elapsed, interval, retry, due, aborted, network, asks>>

\* getStatus throws at a status it does not know; a final one is returned;
\* otherwise the loop sleeps, not beyond the timeout.
Reply == /\ loop = "poll" /\ pc = "asked" /\ served # "none"
         /\ \/ served = "unexpected" /\ pc' = "failed" /\ UNCHANGED due
            \/ served \in Final /\ pc' = "returned" /\ UNCHANGED due
            \/ /\ served \in {"NOT_FOUND", "PENDING"}
               /\ Sleep("asleep", Lesser(interval, Timeout - elapsed))
         /\ UNCHANGED <<loop, elapsed, interval, retry, aborted, network, served, asks, blind>>

RetriesLeft == retry < MaxRetries

\* getTransaction throws: permanently, or with retries left or not.
Fail == /\ loop = "poll" /\ pc = "asked"
        /\ served' = "none" /\ blind' = TRUE
        /\ \/ pc' = "failed" /\ UNCHANGED <<due, retry>>
           \/ /\ RetriesLeft
              /\ retry' = retry + 1
              /\ Sleep("backoff", RetryDelay(retry'))
        /\ UNCHANGED <<loop, elapsed, interval, aborted, network, asks>>

\* The sleep before a retry (189, 160) is over; neither timeout nor signal is
\* looked at.
AskAgain == /\ pc = "backoff" /\ elapsed >= due
            /\ Ask
            /\ UNCHANGED <<loop, elapsed, interval, retry, aborted, network, served, blind>>

-----------------------------------------------------------------------------
(* 120: monitorTransaction                                                 *)

\* The head of the loop.
LifecycleLook ==
    /\ loop = "lifecycle"
    /\ pc = "start" \/ (pc = "asleep" /\ elapsed >= due)
    /\ IF elapsed <= Timeout THEN Ask ELSE pc' = "timedOut" /\ UNCHANGED <<due, asks>>
    /\ served' = "none"
    /\ UNCHANGED <<loop, elapsed, interval, retry, aborted, network, blind>>

\* No sleep that would end after the timeout is begun.
Pause(ms) == IF elapsed + ms > Timeout
             THEN pc' = "timedOut" /\ UNCHANGED due
             ELSE pc' = "asleep" /\ due' = elapsed + Delay(ms)

\* A record ends the loop, whether the transaction succeeded or failed; a
\* transaction that Horizon does not know yet is a 404.
LifecycleReply ==
    /\ loop = "lifecycle" /\ pc = "asked" /\ served # "none"
    /\ IF served \in Final THEN pc' = "returned" /\ UNCHANGED due
                           ELSE Pause(InitialInterval)
    /\ UNCHANGED <<loop, elapsed, interval, retry, aborted, network, served, asks, blind>>

RateLimitDelayAdded(retryAfter) == InitialInterval + retryAfter     \* mutant
RateLimitDelayObeyed(retryAfter) == retryAfter                \* mutant

\* Retry-After, in seconds or as a date: never negative, and 0 counts as none.
RetryAfters == 0..MaxRetryAfter

\* What a 429 asks for, if that is longer than the interval.
RateLimitDelay(retryAfter) == Greater(InitialInterval, retryAfter)

\* A 429 is waited out; any other error is thrown.
LifecycleFail ==
    /\ loop = "lifecycle" /\ pc = "asked"
    /\ served' = "none" /\ blind' = TRUE
    /\ \/ pc' = "failed" /\ UNCHANGED due
       \/ \E retryAfter \in RetryAfters : Pause(RateLimitDelay(retryAfter))
    /\ UNCHANGED <<loop, elapsed, interval, retry, aborted, network, asks>>

-----------------------------------------------------------------------------
(* 190: pollTransaction                                                    *)

Doubled(i) == Lesser(MaxInterval, 2 * i)
\* Half as much again, in whole ticks.
HalfMore(i) == Lesser(MaxInterval, (3 * i) \div 2)

\* The head of the loop, with the interval it has by then: the sleep comes
\* first, and the deadline does not cut it short.
MonitorIterate(i) ==
    /\ interval' = i
    /\ IF elapsed < Timeout THEN pc' = "asleep" /\ due' = elapsed + Delay(i)
                            ELSE pc' = "timedOut" /\ UNCHANGED due

MonitorStart == /\ loop = "monitor" /\ pc = "start"
                /\ MonitorIterate(interval)
                /\ UNCHANGED <<loop, elapsed, retry, aborted, network, served, asks, blind>>

MonitorAsk == /\ loop = "monitor" /\ pc = "asleep" /\ elapsed >= due
              /\ Ask
              /\ served' = "none"
              /\ UNCHANGED <<loop, elapsed, interval, retry, aborted, network, blind>>

\* The switch knows three statuses; any other leaves the interval alone.
MonitorReply ==
    /\ loop = "monitor" /\ pc = "asked" /\ served # "none"
    /\ IF served \in Final THEN pc' = "returned" /\ UNCHANGED <<due, interval>>
       ELSE MonitorIterate(IF served = "NOT_FOUND" THEN HalfMore(interval) ELSE interval)
    /\ UNCHANGED <<loop, elapsed, retry, aborted, network, served, asks, blind>>

\* Whatever is thrown counts as transient.
MonitorFail == /\ loop = "monitor" /\ pc = "asked"
               /\ served' = "none" /\ blind' = TRUE
               /\ MonitorIterate(Doubled(interval))
               /\ UNCHANGED <<loop, elapsed, retry, aborted, network, asks>>

-----------------------------------------------------------------------------
(* 160: executeWithRetry                                                   *)

Request == /\ loop = "request" /\ pc = "start"
           /\ Ask
           /\ UNCHANGED <<loop, elapsed, interval, retry, aborted, network, served, blind>>

\* Any answer will do.
RequestReply == /\ loop = "request" /\ pc = "asked" /\ served # "none"
                /\ pc' = "returned"
                /\ UNCHANGED <<loop, elapsed, interval, retry, due, aborted, network, served, asks, blind>>

\* What computeRetryDelay may say: the cap is not for a Retry-After.
RequestDelays == RetryAfters \cup {RetryDelay(retry)}

\* A client error or the last attempt fails for good; a 429, a 5xx or a
\* network error is retried.
RequestFail ==
    /\ loop = "request" /\ pc = "asked"
    /\ served' = "none" /\ blind' = TRUE
    /\ \/ pc' = "failed" /\ UNCHANGED <<due, retry>>
       \/ /\ RetriesLeft
          /\ retry' = retry + 1
          /\ pc' = "backoff"
          /\ \E ms \in RequestDelays : due' = elapsed + Delay(ms)
    /\ UNCHANGED <<loop, elapsed, interval, aborted, network, asks>>

-----------------------------------------------------------------------------

Poll == Start \/ Wake \/ Reply \/ Fail \/ AskAgain
Lifecycle == LifecycleLook \/ LifecycleReply \/ LifecycleFail
Monitor == MonitorStart \/ MonitorAsk \/ MonitorReply \/ MonitorFail
Retrying == Request \/ RequestReply \/ RequestFail

Next == Progress \/ Tick \/ Abort \/ Serve \/ Poll \/ Lifecycle \/ Monitor \/ Retrying

Spec == Init /\ [][Next]_vars

-----------------------------------------------------------------------------
(* properties                                                              *)

TypeOK == /\ loop \in Loops
          /\ pc \in {"start", "asked", "asleep", "backoff"} \cup Done
          /\ elapsed \in Nat /\ due \in Nat /\ asks \in Nat /\ settledAt \in Nat
          /\ interval \in Nat /\ InitialInterval <= interval /\ interval <= MaxInterval
          /\ retry \in Nat /\ retry <= MaxRetries
          /\ aborted \in BOOLEAN /\ (aborted => loop = "poll")
          /\ fate \in Status
          /\ served \in Status \cup {"none", "unexpected"}
          /\ blind \in BOOLEAN

\* The server is never hammered: n requests take at least n - 1 initial
\* intervals, retries, rate limits and the sleep cut short by the timeout
\* included (189: lines 146 and 164, 120: line 174, 190: lines 237 to 263).
\* 160 obeys any Retry-After (line 172), but it counts (line 231).
Paced == asks > 0 => IF loop = "request" THEN asks <= MaxRetries + 1 /\ asks - 1 <= elapsed
                     ELSE (asks - 1) * InitialInterval <= elapsed

\* The longest time before the timeout in which the loop looks no more after
\* an answer: 189 sleeps up to the timeout, 120 does not begin a sleep that
\* would pass it, 190 looks after every sleep.
Unwatched == CASE loop = "poll" -> MaxInterval + Late
               [] loop = "lifecycle" -> InitialInterval + Late
               [] OTHER -> 0

\* A timeout may be reported of a transaction that is final (189: line 169,
\* 120: line 186, 190: line 266), because the last look came before; but then
\* it became final in the last moments, or the last request told nothing: a
\* 429 of 120, an error or a strange status of 190 hide the transaction for
\* as long as they go on.
MissedOnlyLate == pc = "timedOut" /\ fate \in Final =>
    \/ settledAt >= Timeout - Unwatched - Latency
    \/ loop # "poll" /\ blind

\* Only 120 gives up before its timeout, by less than the sleep it does not
\* begin (line 178); after a 429 that is a Retry-After, which nothing caps.
GivesUpLate == pc = "timedOut" =>
    \/ elapsed >= Timeout
    \/ loop = "lifecycle" /\ ~blind /\ elapsed > Timeout - InitialInterval
    \/ loop = "lifecycle" /\ blind /\ elapsed > Timeout - Greater(InitialInterval, MaxRetryAfter)

\* How late each loop can be: 189 tests its timeout between attempts only
\* (line 130), so the retries of the last attempt add up; 120 asks no more
\* after it (line 159); 190 begins a whole sleep right before it (line 237).
\* 160 has no timeout: its attempts and what it waits between them add up.
Excess == CASE loop = "poll" ->
                   Late + (MaxRetries + 1) * Latency + MaxRetries * (MaxInterval + Late)
            [] loop = "lifecycle" -> Greater(Late, Latency)
            [] loop = "monitor" -> Late + MaxInterval + Latency
RequestBound == (MaxRetries + 1) * Latency + MaxRetries * (Greater(MaxInterval, MaxRetryAfter) + Late)
Overrun == elapsed <= IF loop = "request" THEN RequestBound ELSE Timeout + Excess

\* Once the signal is aborted no further request is sent, wherever the abort
\* found the function: before it, in a request, or in either of the sleeps.
NothingAfterCancel == [][aborted => asks' = asks]_vars

=============================================================================
