---------------------- MODULE TransactionPollingProofs ----------------------
(***************************************************************************)
(* For every choice of the options, and however slow answers and timers    *)
(* may be: each loop ends in time, none but 120 gives up early, a final    *)
(* transaction is missed only when it became final late or was hidden, the *)
(* requests are paced, and an aborted signal ends them.                    *)
(***************************************************************************)
EXTENDS TransactionPolling, FiniteSetTheorems, TLAPS

\* What one retry can add: the failed request and the sleep after it.
Longest == Latency + MaxInterval + Late

\* 189: what the retries of the current attempt can have added to its start,
\* which was before the timeout.
PollInTime == loop = "poll" =>
    /\ pc = "start" => elapsed = 0 /\ retry = 0
    /\ pc = "asked" => elapsed <= due /\ due <= Timeout - 1 + retry * Longest + Latency
    /\ pc = "backoff" => elapsed <= due + Late /\ due + Late <= Timeout - 1 + retry * Longest
    /\ pc = "asleep" => /\ elapsed <= due + Late
                        /\ due <= Timeout + MaxRetries * Longest + Latency
    /\ pc \in Done => elapsed <= Timeout + MaxRetries * Longest + Latency + Late

\* 120: no request and no sleep is begun that the timeout does not allow.
LifecycleInTime == loop = "lifecycle" =>
    /\ pc # "backoff"
    /\ pc = "start" => elapsed = 0
    /\ pc = "asked" => elapsed <= due /\ due <= Timeout + Latency
    /\ pc = "asleep" => elapsed <= due + Late /\ due <= Timeout
    /\ pc \in Done => elapsed <= Timeout + Greater(Late, Latency)

\* 190: a sleep is begun before the timeout, and a request after the sleep.
MonitorInTime == loop = "monitor" =>
    /\ pc # "backoff"
    /\ pc = "start" => elapsed = 0
    /\ pc = "asked" => elapsed <= due /\ due <= Timeout + MaxInterval + Late + Latency
    /\ pc = "asleep" => elapsed <= due + Late /\ due <= Timeout + MaxInterval
    /\ pc \in Done => elapsed <= Timeout + MaxInterval + Late + Latency

\* 160: what the retries so far can have added, each with its longest wait.
Wait == Latency + Greater(MaxInterval, MaxRetryAfter) + Late
RequestInTime == loop = "request" =>
    /\ pc \notin {"asleep", "timedOut"}
    /\ pc = "start" => elapsed = 0 /\ retry = 0
    /\ pc = "asked" => elapsed <= due /\ due <= retry * Wait + Latency
    /\ pc = "backoff" => elapsed <= due + Late /\ due + Late <= retry * Wait
    /\ pc \in Done => elapsed <= MaxRetries * Wait + Latency

InTime == PollInTime /\ LifecycleInTime /\ MonitorInTime /\ RequestInTime

\* 189, asleep: t is no earlier than the last answer but the Latency of it.
Recent(t) == t >= due - MaxInterval - Latency \/ t >= Timeout - MaxInterval - Latency

\* An answer under way was given by a server that looked.
Looked == /\ served \in Status => ~blind
          /\ served = "unexpected" => blind
          /\ loop = "lifecycle" => served # "unexpected"

\* A transaction that was not final in the last answer became final since then.
Watched ==
    /\ pc = "asked" => due - Latency <= elapsed
    /\ pc = "asked" /\ served \in {"NOT_FOUND", "PENDING"} /\ fate \in Final =>
           settledAt >= due - Latency
    /\ pc = "backoff" => served = "none"
    /\ loop = "poll" /\ pc = "asleep" => Recent(elapsed) /\ (fate \in Final => Recent(settledAt))
    /\ loop = "lifecycle" /\ pc = "asleep" /\ ~blind /\ fate \in Final =>
           settledAt >= due - InitialInterval - Latency
    /\ loop = "lifecycle" /\ pc = "asleep" /\ ~blind => elapsed >= due - InitialInterval
    /\ MissedOnlyLate

\* An aborted signal leaves no sleep behind.
Awake == aborted => pc \notin {"asleep", "backoff"}

\* The requests so far, in initial intervals: the sleep under way makes up for
\* the last of them, unless the timeout cut it short.
Asked == asks * InitialInterval
Spacing == IF loop = "request"
    THEN /\ pc = "start" => asks = 0 /\ retry = 0
         /\ pc = "asked" => asks = retry + 1
         /\ pc = "backoff" => asks = retry /\ asks <= due
         /\ asks <= MaxRetries + 1 /\ asks - 1 <= elapsed
    ELSE /\ pc = "start" => asks = 0
         /\ pc = "asleep" => Asked <= due \/ (loop = "poll" /\ due >= Timeout)
         /\ pc = "backoff" => Asked <= due
         /\ asks > 0 => Asked - InitialInterval <= elapsed

IInv == TypeOK /\ InTime /\ Looked /\ Watched /\ GivesUpLate /\ Awake /\ Spacing

USE OptionsAssumption DEF OptionsAssumption, vars, network, Final, Status, Done, Loops,
    RetryAfters

-----------------------------------------------------------------------------
(* arithmetic                                                              *)

\* The retries of one attempt never add up to more than MaxRetries of them.
LEMMA Retries ==
    ASSUME TypeOK
    PROVE  /\ Longest \in Nat
           /\ retry * Longest \in Nat /\ MaxRetries * Longest \in Nat
           /\ retry * Longest <= MaxRetries * Longest
           /\ (retry + 1) * Longest = retry * Longest + Longest
           /\ Wait \in Nat
           /\ retry * Wait \in Nat /\ MaxRetries * Wait \in Nat
           /\ retry * Wait <= MaxRetries * Wait
           /\ (retry + 1) * Wait = retry * Wait + Wait
<1>1. /\ Longest \in Nat /\ Wait \in Nat
      /\ retry \in Nat /\ MaxRetries \in Nat /\ retry <= MaxRetries
  BY DEF TypeOK, Longest, Wait, Greater
<1>2. \A a, b, c \in Nat : a <= b => a * c <= b * c
  OBVIOUS
<1>3. \A a, c \in Nat : (a + 1) * c = a * c + c /\ a * c \in Nat
  OBVIOUS
<1> QED
  BY <1>1, <1>2, <1>3

\* The bound of Overrun, with the retries counted by Longest.
LEMMA Bound ==
    /\ Timeout + (Late + (MaxRetries + 1) * Latency + MaxRetries * (MaxInterval + Late))
           = Timeout + MaxRetries * Longest + Latency + Late
    /\ RequestBound = MaxRetries * Wait + Latency
BY DEF Longest, Wait, RequestBound, Greater

LEMMA RetryDelayType ==
    ASSUME TypeOK, NEW r \in Nat
    PROVE  /\ Delay(RetryDelay(r)) \in Nat \ {0}
           /\ Delay(RetryDelay(r)) <= MaxInterval
<1>1. 2^r \in Int
  OBVIOUS
<1>2. interval * 2^r \in Int
  BY <1>1 DEF TypeOK
<1> QED
  BY <1>2 DEF RetryDelay, Lesser, Delay

\* A power of two counts the subsets of a set.
LEMMA PowerOfTwo == ASSUME NEW r \in Nat PROVE 2^r \in Nat /\ 2^r >= 1
<1>1. IsFiniteSet(1..r) /\ Cardinality(1..r) = r
  BY FS_Interval, 1 \in Int, r \in Int
<1>2. IsFiniteSet(SUBSET (1..r)) /\ Cardinality(SUBSET (1..r)) = 2^r
  BY <1>1, FS_SUBSET
<1>3. 2^r \in Nat
  BY <1>2, FS_CardinalityType
<1>4. 2^r # 0
  BY <1>2, FS_EmptySet
<1> QED
  BY <1>3, <1>4

\* However often it is retried, nothing is retried sooner than the interval.
LEMMA RetryDelayLong ==
    ASSUME TypeOK, NEW r \in Nat
    PROVE  Delay(RetryDelay(r)) \in Nat /\ Delay(RetryDelay(r)) >= InitialInterval
<1>1. 2^r \in Nat /\ 2^r >= 1
  BY PowerOfTwo
<1>2. \A i, p \in Nat : p >= 1 => i * p \in Nat /\ i * p >= i
  OBVIOUS
<1>3. interval * 2^r \in Nat /\ interval * 2^r >= interval
  BY <1>1, <1>2 DEF TypeOK
<1> QED
  BY <1>3, RetryDelayType DEF TypeOK, RetryDelay, Lesser, Delay

LEMMA RequestDelayType ==
    ASSUME TypeOK, NEW ms \in RequestDelays
    PROVE  Delay(ms) \in Nat /\ Delay(ms) <= Greater(MaxInterval, MaxRetryAfter)
<1>1. CASE ms = RetryDelay(retry)
  <2>1. Delay(ms) \in Nat /\ Delay(ms) <= MaxInterval
    BY <1>1, RetryDelayType DEF TypeOK
  <2> QED
    BY <2>1 DEF Greater
<1>2. CASE ms \in RetryAfters
  BY <1>2 DEF Delay, Greater
<1> QED
  BY <1>1, <1>2 DEF RequestDelays

LEMMA NextIntervalType ==
    ASSUME TypeOK
    PROVE  /\ NextInterval(interval) \in Nat
           /\ InitialInterval <= NextInterval(interval) /\ NextInterval(interval) <= MaxInterval
<1>1. \A i, m \in Nat \ {0} : i * m \in Nat /\ i * m >= i
  OBVIOUS
<1>2. interval \in Nat \ {0} /\ interval >= InitialInterval
  BY DEF TypeOK
<1>3. interval * Multiplier \in Nat /\ interval * Multiplier >= InitialInterval
  BY <1>1, <1>2
<1> QED
  BY <1>3 DEF NextInterval, Lesser

LEMMA MonitorIntervals ==
    ASSUME TypeOK, NEW i \in {interval, Doubled(interval), HalfMore(interval)}
    PROVE  i \in Nat /\ InitialInterval <= i /\ i <= MaxInterval
BY DEF TypeOK, Doubled, HalfMore, Lesser

-----------------------------------------------------------------------------
(* the steps                                                               *)

LEMMA InitIInv == Init => IInv
<1> SUFFICES ASSUME Init PROVE IInv
  OBVIOUS
<1>1. TypeOK
  <2>1. /\ loop \in Loops /\ pc = "start" /\ fate \in Status /\ served = "none"
        /\ aborted \in BOOLEAN /\ (aborted => loop = "poll") /\ blind \in BOOLEAN
    BY DEF Init
  <2>2. /\ elapsed \in Nat /\ due \in Nat /\ asks \in Nat /\ settledAt \in Nat /\ retry \in Nat
        /\ interval \in Nat /\ InitialInterval <= interval /\ interval <= MaxInterval
        /\ retry <= MaxRetries
    BY DEF Init
  <2> QED
    BY <2>1, <2>2 DEF TypeOK
<1>4. Awake
  BY DEF Init, Awake
<1>5. Looked
  BY DEF Init, Looked
<1>2. InTime
  BY DEF Init, InTime, PollInTime, LifecycleInTime, MonitorInTime, RequestInTime
<1>3. Watched /\ GivesUpLate
  BY DEF Init, Watched, MissedOnlyLate, GivesUpLate
<1>6. Spacing
  BY DEF Init, Spacing, Asked
<1> QED
  BY <1>1, <1>2, <1>3, <1>4, <1>5, <1>6 DEF IInv

LEMMA StepTypeOK == TypeOK /\ [Next]_vars => TypeOK'
<1> SUFFICES ASSUME TypeOK, [Next]_vars PROVE TypeOK'
  OBVIOUS
<1> USE DEF TypeOK
<1>0. CASE UNCHANGED vars
  BY <1>0
<1>1. CASE Progress
  BY <1>1 DEF Progress
<1>2. CASE Tick
  BY <1>2 DEF Tick
<1>3. CASE Abort
  BY <1>3 DEF Abort
<1>4. CASE Start
  BY <1>4 DEF Start, Iterate, Ask
<1>5. CASE Wake
  <2>1. interval' \in Nat /\ InitialInterval <= interval' /\ interval' <= MaxInterval
    BY <1>5, NextIntervalType DEF Wake
  <2> QED
    BY <1>5, <2>1 DEF Wake, Iterate, Ask
<1>6. CASE Serve
  BY <1>6 DEF Serve
<1>7. CASE Reply
  <2>1. due' \in Nat
    BY <1>7 DEF Reply, Sleep, Delay, Lesser
  <2> QED
    BY <1>7, <2>1 DEF Reply, Sleep
<1>8. CASE Fail
  <2>1. retry' \in Nat /\ retry' <= MaxRetries
    BY <1>8 DEF Fail, RetriesLeft
  <2>2. due' \in Nat
    <3>1. Delay(RetryDelay(retry')) \in Nat
      BY <2>1, RetryDelayType
    <3> QED
      BY <1>8, <3>1 DEF Fail, Sleep
  <2> QED
    BY <1>8, <2>1, <2>2 DEF Fail, Sleep
<1>9. CASE AskAgain
  BY <1>9 DEF AskAgain, Ask
<1>10. CASE Lifecycle
  <2>1. CASE LifecycleLook
    BY <2>1 DEF LifecycleLook, Ask
  <2>2. ASSUME NEW ms \in Nat, Pause(ms)
        PROVE  due' \in Nat /\ pc' \in {"timedOut", "asleep"}
    BY <2>2 DEF Pause, Delay
  <2>3. CASE LifecycleReply
    <3>1. due' \in Nat /\ pc' \in {"returned", "timedOut", "asleep"}
      BY <2>2, <2>3 DEF LifecycleReply
    <3> QED
      BY <2>3, <3>1 DEF LifecycleReply
  <2>4. CASE LifecycleFail
    <3>1. \A retryAfter \in RetryAfters : RateLimitDelay(retryAfter) \in Nat
      BY DEF RateLimitDelay, Greater
    <3>2. due' \in Nat /\ pc' \in {"failed", "timedOut", "asleep"}
      BY <2>2, <2>4, <3>1 DEF LifecycleFail
    <3> QED
      BY <2>4, <3>2 DEF LifecycleFail
  <2> QED
    BY <1>10, <2>1, <2>3, <2>4 DEF Lifecycle
<1>11. CASE Monitor
  <2>1. ASSUME NEW i \in {interval, Doubled(interval), HalfMore(interval)}, MonitorIterate(i)
        PROVE  /\ interval' \in Nat /\ InitialInterval <= interval' /\ interval' <= MaxInterval
               /\ due' \in Nat /\ pc' \in {"timedOut", "asleep"}
    <3>1. i \in Nat /\ InitialInterval <= i /\ i <= MaxInterval
      BY MonitorIntervals
    <3> QED
      BY <2>1, <3>1 DEF MonitorIterate, Delay
  <2>2. CASE MonitorStart
    BY <2>1, <2>2 DEF MonitorStart
  <2>3. CASE MonitorAsk
    BY <2>3 DEF MonitorAsk, Ask
  <2>4. CASE MonitorReply
    <3>1. CASE served \in Final
      BY <2>4, <3>1 DEF MonitorReply
    <3>2. CASE served \notin Final
      BY <2>1, <2>4, <3>2 DEF MonitorReply
    <3> QED
      BY <3>1, <3>2
  <2>5. CASE MonitorFail
    BY <2>1, <2>5 DEF MonitorFail
  <2> QED
    BY <1>11, <2>2, <2>3, <2>4, <2>5 DEF Monitor
<1>12. CASE Retrying
  <2>1. CASE Request \/ RequestReply
    BY <2>1 DEF Request, Ask, RequestReply
  <2>2. CASE RequestFail
    <3>1. ASSUME NEW ms \in RequestDelays PROVE elapsed + Delay(ms) \in Nat
      BY <3>1, RequestDelayType
    <3>2. due' \in Nat
      BY <2>2, <3>1 DEF RequestFail
    <3> QED
      BY <2>2, <3>2 DEF RequestFail, RetriesLeft
  <2> QED
    BY <1>12, <2>1, <2>2 DEF Retrying
<1> QED
  BY <1>0, <1>1, <1>2, <1>3, <1>4, <1>5, <1>6, <1>7, <1>8, <1>9, <1>10, <1>11, <1>12 DEF Next, Poll

LEMMA StepAwake == TypeOK /\ Awake /\ [Next]_vars => Awake'
<1> SUFFICES ASSUME TypeOK, Awake, [Next]_vars PROVE Awake'
  OBVIOUS
<1>1. CASE Poll \/ Abort
  BY <1>1 DEF TypeOK, Awake, Poll, Abort, Start, Wake, Iterate, Ask, Reply, Fail, Sleep, AskAgain
<1>2. CASE Progress \/ Tick \/ Serve \/ UNCHANGED vars
  BY <1>2 DEF TypeOK, Awake, Progress, Tick, Serve
<1>3. CASE Lifecycle \/ Monitor \/ Retrying
  <2>1. loop # "poll" /\ loop' = loop /\ aborted' = aborted
    BY <1>3 DEF Lifecycle, LifecycleLook, LifecycleReply, LifecycleFail, Monitor, MonitorStart,
       MonitorAsk, MonitorReply, MonitorFail, Retrying, Request, RequestReply, RequestFail
  <2> QED
    BY <2>1 DEF TypeOK, Awake
<1> QED
  BY <1>1, <1>2, <1>3 DEF Next

\* Who looks, and what an answer under way is worth.
LEMMA StepLooked == TypeOK /\ Looked /\ [Next]_vars => Looked'
<1> SUFFICES ASSUME TypeOK, Looked, [Next]_vars PROVE Looked'
  OBVIOUS
<1>1. CASE UNCHANGED <<loop, served, blind>>
  BY <1>1 DEF Looked
<1>2. ASSUME loop' = loop, served' = "none" PROVE Looked'
  BY <1>2 DEF Looked
<1>3. CASE Serve
  BY <1>3 DEF Serve, Looked, TypeOK
<1>4. CASE Progress \/ Tick \/ Abort \/ Reply \/ AskAgain \/ LifecycleReply \/ MonitorStart
           \/ MonitorReply \/ Request \/ RequestReply \/ UNCHANGED vars
  BY <1>1, <1>4 DEF Progress, Tick, Abort, Reply, AskAgain, LifecycleReply, MonitorStart,
     MonitorReply, Request, RequestReply
<1>5. CASE Start \/ Wake \/ Fail \/ LifecycleLook \/ LifecycleFail \/ MonitorAsk \/ MonitorFail
           \/ RequestFail
  BY <1>2, <1>5 DEF Start, Wake, Iterate, Fail, LifecycleLook, LifecycleFail, MonitorAsk,
     MonitorFail, RequestFail
<1> QED
  BY <1>3, <1>4, <1>5 DEF Next, Poll, Lifecycle, Monitor, Retrying

LEMMA SameLoop == [Next]_vars => loop' = loop
BY DEF Next, Progress, Tick, Abort, Serve, Poll, Start, Wake, Reply, Fail, AskAgain, Iterate,
   Lifecycle, LifecycleLook, LifecycleReply, LifecycleFail, Monitor, MonitorStart, MonitorAsk,
   MonitorReply, MonitorFail, Retrying, Request, RequestReply, RequestFail

\* Where the function ends and what it waits for, for how long.
LEMMA StepPollInTime == TypeOK /\ PollInTime /\ [Next]_vars => PollInTime'
<1> SUFFICES ASSUME TypeOK, PollInTime, [Next]_vars, loop = "poll" PROVE PollInTime'
  BY SameLoop DEF PollInTime
<1> DEFINE spent == retry * Longest
           most  == MaxRetries * Longest
<1>a. /\ Longest \in Nat /\ Longest = Latency + MaxInterval + Late
      /\ spent \in Nat /\ most \in Nat /\ spent <= most
  BY Retries DEF Longest
<1> HIDE DEF spent, most
<1>b. /\ pc = "start" => elapsed = 0 /\ retry = 0
      /\ pc = "asked" => elapsed <= due /\ due <= Timeout - 1 + spent + Latency
      /\ pc = "backoff" => elapsed <= due + Late /\ due + Late <= Timeout - 1 + spent
      /\ pc = "asleep" => elapsed <= due + Late /\ due <= Timeout + most + Latency
      /\ pc \in Done => elapsed <= Timeout + most + Latency + Late
  BY DEF PollInTime, spent, most
<1>c. retry' = retry => spent' = spent
  BY DEF spent
<1>d. retry' = 0 => spent' = 0
  BY <1>a DEF spent, Longest
<1>e. most' = most
  BY DEF most
<1>f. (/\ pc' = "start" => elapsed' = 0 /\ retry' = 0
       /\ pc' = "asked" => elapsed' <= due' /\ due' <= Timeout - 1 + spent' + Latency
       /\ pc' = "backoff" => elapsed' <= due' + Late /\ due' + Late <= Timeout - 1 + spent'
       /\ pc' = "asleep" => elapsed' <= due' + Late /\ due' <= Timeout + most + Latency
       /\ pc' \in Done => elapsed' <= Timeout + most + Latency + Late) => PollInTime'
  BY <1>e DEF PollInTime, spent, most
<1> USE DEF TypeOK
<1>0. CASE UNCHANGED vars
  BY <1>0, <1>b, <1>c, <1>f
<1>1. CASE Progress \/ Serve
  BY <1>1, <1>b, <1>c, <1>f DEF Progress, Serve
<1>2. CASE Tick
  BY <1>2, <1>a, <1>b, <1>c, <1>f DEF Tick, Latest
<1>3. CASE Abort
  BY <1>3, <1>a, <1>b, <1>c, <1>f DEF Abort
<1>4. CASE Start
  BY <1>4, <1>a, <1>b, <1>d, <1>f DEF Start, Iterate, Ask
<1>5. CASE Wake
  BY <1>5, <1>a, <1>b, <1>d, <1>f DEF Wake, Iterate, Ask
<1>6. CASE Reply
  BY <1>6, <1>a, <1>b, <1>c, <1>f DEF Reply, Sleep, Delay, Lesser
<1>7. CASE Fail
  <2>1. CASE pc' \in {"failed", "canceled"}
    BY <1>7, <2>1, <1>a, <1>b, <1>f DEF Fail
  <2>2. CASE pc' \notin {"failed", "canceled"}
    <3>1. retry' = retry + 1 /\ pc' = "backoff" /\ due' = elapsed + Delay(RetryDelay(retry'))
      BY <1>7, <2>2 DEF Fail, Sleep
    <3>2. Delay(RetryDelay(retry')) \in Nat /\ Delay(RetryDelay(retry')) <= MaxInterval
      BY <3>1, RetryDelayType
    <3>3. spent' = spent + Longest
      BY <3>1, Retries DEF spent
    <3>4. elapsed' = elapsed /\ pc = "asked"
      BY <1>7 DEF Fail
    <3> QED
      BY <3>1, <3>2, <3>3, <3>4, <1>a, <1>b, <1>f
  <2> QED
    BY <2>1, <2>2
<1>8. CASE AskAgain
  BY <1>8, <1>a, <1>b, <1>c, <1>f DEF AskAgain, Ask
<1>9. ~Lifecycle /\ ~Monitor /\ ~Retrying
  BY DEF Lifecycle, LifecycleLook, LifecycleReply, LifecycleFail, Monitor, MonitorStart,
     MonitorAsk, MonitorReply, MonitorFail, Retrying, Request, RequestReply, RequestFail
<1> QED
  BY <1>0, <1>1, <1>2, <1>3, <1>4, <1>5, <1>6, <1>7, <1>8, <1>9 DEF Next, Poll

LEMMA StepLifecycleInTime == TypeOK /\ LifecycleInTime /\ [Next]_vars => LifecycleInTime'
<1> SUFFICES ASSUME TypeOK, LifecycleInTime, [Next]_vars, loop = "lifecycle" PROVE LifecycleInTime'
  BY SameLoop DEF LifecycleInTime
<1> USE DEF TypeOK, LifecycleInTime, Greater
<1>1. CASE Progress \/ Tick \/ Serve \/ UNCHANGED vars
  BY <1>1 DEF Progress, Tick, Latest, Serve
<1>2. CASE LifecycleLook
  BY <1>2 DEF LifecycleLook, Ask
<1>3. CASE LifecycleReply
  BY <1>3 DEF LifecycleReply, Pause, Delay
<1>4. CASE LifecycleFail
  BY <1>4 DEF LifecycleFail, Pause, Delay, RateLimitDelay
<1>5. ~Abort /\ ~Poll /\ ~Monitor /\ ~Retrying
  BY DEF Abort, Poll, Start, Wake, Reply, Fail, AskAgain, Monitor, MonitorStart, MonitorAsk,
     MonitorReply, MonitorFail, Retrying, Request, RequestReply, RequestFail
<1> QED
  BY <1>1, <1>2, <1>3, <1>4, <1>5 DEF Next, Lifecycle

LEMMA StepMonitorInTime == TypeOK /\ MonitorInTime /\ [Next]_vars => MonitorInTime'
<1> SUFFICES ASSUME TypeOK, MonitorInTime, [Next]_vars, loop = "monitor" PROVE MonitorInTime'
  BY SameLoop DEF MonitorInTime
<1> USE DEF TypeOK, MonitorInTime
<1>1. CASE Progress \/ Tick \/ Serve \/ UNCHANGED vars
  BY <1>1 DEF Progress, Tick, Latest, Serve
<1>2. CASE MonitorAsk
  BY <1>2 DEF MonitorAsk, Ask
<1>3. ASSUME NEW i \in {interval, Doubled(interval), HalfMore(interval)}, MonitorIterate(i),
             elapsed' = elapsed, pc \in {"start", "asked"}
      PROVE  MonitorInTime'
  <2>1. i \in Nat /\ InitialInterval <= i /\ i <= MaxInterval
    BY <1>3, MonitorIntervals
  <2> QED
    BY <1>3, <2>1 DEF MonitorIterate, Delay
<1>4. CASE MonitorStart \/ MonitorReply \/ MonitorFail
  BY <1>4, <1>3 DEF MonitorStart, MonitorReply, MonitorFail
<1>5. ~Abort /\ ~Poll /\ ~Lifecycle /\ ~Retrying
  BY DEF Abort, Poll, Start, Wake, Reply, Fail, AskAgain, Lifecycle, LifecycleLook,
     LifecycleReply, LifecycleFail, Retrying, Request, RequestReply, RequestFail
<1> QED
  BY <1>1, <1>2, <1>4, <1>5 DEF Next, Monitor

LEMMA StepRequestInTime == TypeOK /\ RequestInTime /\ [Next]_vars => RequestInTime'
<1> SUFFICES ASSUME TypeOK, RequestInTime, [Next]_vars, loop = "request" PROVE RequestInTime'
  BY SameLoop DEF RequestInTime
<1> DEFINE spent == retry * Wait
           most  == MaxRetries * Wait
<1>a. /\ Wait \in Nat /\ Wait = Latency + Greater(MaxInterval, MaxRetryAfter) + Late
      /\ spent \in Nat /\ most \in Nat /\ spent <= most
  BY Retries DEF Wait
<1> HIDE DEF spent, most
<1>b. /\ pc \notin {"asleep", "timedOut"}
      /\ pc = "start" => elapsed = 0 /\ retry = 0
      /\ pc = "asked" => elapsed <= due /\ due <= spent + Latency
      /\ pc = "backoff" => elapsed <= due + Late /\ due + Late <= spent
      /\ pc \in Done => elapsed <= most + Latency
  BY DEF RequestInTime, spent, most
<1>c. retry' = retry => spent' = spent
  BY DEF spent
<1>e. most' = most
  BY DEF most
<1>f. (/\ pc' \notin {"asleep", "timedOut"}
       /\ pc' = "start" => elapsed' = 0 /\ retry' = 0
       /\ pc' = "asked" => elapsed' <= due' /\ due' <= spent' + Latency
       /\ pc' = "backoff" => elapsed' <= due' + Late /\ due' + Late <= spent'
       /\ pc' \in Done => elapsed' <= most + Latency) => RequestInTime'
  BY <1>e DEF RequestInTime, spent, most
<1> USE DEF TypeOK
<1>0. CASE UNCHANGED vars
  BY <1>0, <1>b, <1>c, <1>f
<1>1. CASE Progress \/ Serve
  BY <1>1, <1>b, <1>c, <1>f DEF Progress, Serve
<1>2. CASE Tick
  BY <1>2, <1>b, <1>c, <1>f DEF Tick, Latest
<1>3. CASE Request
  BY <1>3, <1>a, <1>b, <1>c, <1>f DEF Request, Ask
<1>4. CASE RequestReply
  BY <1>4, <1>a, <1>b, <1>c, <1>f DEF RequestReply
<1>5. CASE RequestFail
  <2>1. CASE pc' = "failed"
    BY <1>5, <2>1, <1>a, <1>b, <1>f DEF RequestFail
  <2>2. CASE pc' # "failed"
    <3>1. PICK ms \in RequestDelays :
             retry' = retry + 1 /\ pc' = "backoff" /\ due' = elapsed + Delay(ms)
      BY <1>5, <2>2 DEF RequestFail
    <3>2. Delay(ms) \in Nat /\ Delay(ms) <= Greater(MaxInterval, MaxRetryAfter)
      BY RequestDelayType
    <3>3. spent' = spent + Wait
      BY <3>1, Retries DEF spent
    <3>4. elapsed' = elapsed /\ pc = "asked"
      BY <1>5 DEF RequestFail
    <3>5. Greater(MaxInterval, MaxRetryAfter) \in Nat
      BY DEF Greater
    <3> QED
      BY <3>1, <3>2, <3>3, <3>4, <3>5, <1>a, <1>b, <1>f
  <2> QED
    BY <2>1, <2>2
<1>6. CASE AskAgain
  BY <1>6, <1>a, <1>b, <1>c, <1>f DEF AskAgain, Ask
<1>7. ~Abort /\ ~Start /\ ~Wake /\ ~Reply /\ ~Fail /\ ~Lifecycle /\ ~Monitor
  BY DEF Abort, Start, Wake, Reply, Fail, Lifecycle, LifecycleLook, LifecycleReply,
     LifecycleFail, Monitor, MonitorStart, MonitorAsk, MonitorReply, MonitorFail
<1> QED
  BY <1>0, <1>1, <1>2, <1>3, <1>4, <1>5, <1>6, <1>7 DEF Next, Poll, Retrying

\* What may have become final since the last look.
LEMMA StepWatched == TypeOK /\ InTime /\ Looked /\ Watched /\ [Next]_vars => Watched'
<1> SUFFICES ASSUME TypeOK, InTime, Looked, Watched, [Next]_vars PROVE Watched'
  OBVIOUS
<1> USE DEF TypeOK, Watched, Recent, MissedOnlyLate, Unwatched
<1>0. CASE UNCHANGED vars
  BY <1>0
<1>1. CASE Progress
  BY <1>1 DEF Progress
<1>2. CASE Tick
  BY <1>2 DEF Tick
<1>3. CASE Abort
  BY <1>3 DEF Abort
<1>4. CASE Start
  BY <1>4 DEF Start, Iterate, Ask, InTime, PollInTime
<1>5. CASE Wake
  BY <1>5 DEF Wake, Iterate, Ask, InTime, PollInTime
<1>6. CASE Serve
  BY <1>6 DEF Serve
<1>7. CASE Reply
  BY <1>7 DEF Reply, Sleep, Delay, Lesser, InTime, PollInTime
<1>8. CASE Fail
  BY <1>8 DEF Fail, Sleep
<1>9. CASE AskAgain
  BY <1>9 DEF AskAgain, Ask
<1>10. CASE LifecycleLook
  BY <1>10 DEF LifecycleLook, Ask, InTime, LifecycleInTime
<1>11. CASE LifecycleReply
  BY <1>11 DEF LifecycleReply, Pause, Delay, Greater, Looked, InTime, LifecycleInTime
<1>12. CASE LifecycleFail
  BY <1>12 DEF LifecycleFail, Pause, Delay, RateLimitDelay, Greater
<1>13. CASE MonitorStart
  BY <1>13 DEF MonitorStart, MonitorIterate, InTime, MonitorInTime
<1>14. CASE MonitorAsk
  BY <1>14 DEF MonitorAsk, Ask
<1>15. CASE MonitorReply
  <2>1. served \in Final => pc' = "returned"
    BY <1>15 DEF MonitorReply
  <2>2. served = "unexpected" => blind
    BY DEF Looked
  <2> QED
    BY <1>15, <2>1, <2>2 DEF MonitorReply, MonitorIterate, InTime, MonitorInTime
<1>16. CASE MonitorFail
  BY <1>16 DEF MonitorFail, MonitorIterate
<1>17. CASE Retrying
  BY <1>17 DEF Retrying, Request, RequestReply, RequestFail, Ask, InTime, RequestInTime
<1> QED
  BY <1>0, <1>1, <1>2, <1>3, <1>4, <1>5, <1>6, <1>7, <1>8, <1>9, <1>10, <1>11, <1>12, <1>13,
     <1>14, <1>15, <1>16, <1>17 DEF Next, Poll, Lifecycle, Monitor

\* The three places where the timeout is looked at.
LEMMA StepGivesUp ==
    TypeOK /\ Looked /\ GivesUpLate /\ [Next]_vars => GivesUpLate'
<1> SUFFICES ASSUME TypeOK, Looked, GivesUpLate, [Next]_vars PROVE GivesUpLate'
  OBVIOUS
<1> USE DEF TypeOK, GivesUpLate
<1>1. CASE Progress \/ Tick \/ Abort \/ Serve \/ UNCHANGED vars
  BY <1>1 DEF Progress, Tick, Abort, Serve
<1>2. CASE Poll
  BY <1>2 DEF Poll, Start, Wake, Iterate, Ask, Reply, Sleep, Fail, AskAgain
<1>3. CASE LifecycleLook
  BY <1>3 DEF LifecycleLook, Ask
<1>4. CASE LifecycleReply
  BY <1>4 DEF LifecycleReply, Pause, Looked
<1>5. CASE LifecycleFail
  BY <1>5 DEF LifecycleFail, Pause, RateLimitDelay, Greater
<1>6. CASE Monitor
  BY <1>6 DEF Monitor, MonitorStart, MonitorAsk, MonitorReply, MonitorFail, MonitorIterate, Ask
<1>7. CASE Retrying
  BY <1>7 DEF Retrying, Request, RequestReply, RequestFail, Ask
<1> QED
  BY <1>1, <1>2, <1>3, <1>4, <1>5, <1>6, <1>7 DEF Next, Lifecycle

\* A request is followed by a sleep of an initial interval at least, or by none.
LEMMA StepSpacing == TypeOK /\ Spacing /\ [Next]_vars => Spacing'
<1> SUFFICES ASSUME TypeOK, Spacing, [Next]_vars PROVE Spacing'
  OBVIOUS
<1> DEFINE gap == InitialInterval
<1>a. /\ Asked \in Nat
      /\ asks' = asks => Asked' = Asked
      /\ asks' = asks + 1 => Asked' = Asked + gap
      /\ asks = 0 => Asked = 0
  <2>1. asks \in Nat /\ gap \in Nat
    BY DEF TypeOK
  <2>2. \A n, g \in Nat : n * g \in Nat /\ (n + 1) * g = n * g + g /\ 0 * g = 0
    OBVIOUS
  <2>3. Asked = asks * gap /\ Asked' = asks' * gap
    BY DEF Asked
  <2> QED
    BY <2>1, <2>2, <2>3
<1>b. gap \in Nat \ {0} /\ gap <= interval
  BY DEF TypeOK
<1> HIDE DEF gap
<1>c. IF loop = "request"
    THEN /\ pc = "start" => asks = 0 /\ retry = 0
         /\ pc = "asked" => asks = retry + 1
         /\ pc = "backoff" => asks = retry /\ asks <= due
         /\ asks <= MaxRetries + 1 /\ asks - 1 <= elapsed
    ELSE /\ pc = "start" => asks = 0
         /\ pc = "asleep" => Asked <= due \/ (loop = "poll" /\ due >= Timeout)
         /\ pc = "backoff" => Asked <= due
         /\ asks > 0 => Asked - gap <= elapsed
  BY DEF Spacing, gap
<1>d. (IF loop' = "request"
    THEN /\ pc' = "start" => asks' = 0 /\ retry' = 0
         /\ pc' = "asked" => asks' = retry' + 1
         /\ pc' = "backoff" => asks' = retry' /\ asks' <= due'
         /\ asks' <= MaxRetries + 1 /\ asks' - 1 <= elapsed'
    ELSE /\ pc' = "start" => asks' = 0
         /\ pc' = "asleep" => Asked' <= due' \/ (loop' = "poll" /\ due' >= Timeout)
         /\ pc' = "backoff" => Asked' <= due'
         /\ asks' > 0 => Asked' - gap <= elapsed') => Spacing'
  BY DEF Spacing, gap
<1> USE DEF TypeOK
<1>1. CASE Progress \/ Tick \/ Abort \/ Serve \/ UNCHANGED vars
  BY <1>1, <1>a, <1>b, <1>c, <1>d DEF Progress, Tick, Abort, Serve
<1>2. CASE Start \/ Wake
  BY <1>2, <1>a, <1>b, <1>c, <1>d DEF Start, Wake, Iterate, Ask
<1>3. CASE Reply
  BY <1>3, <1>a, <1>b, <1>c, <1>d DEF Reply, Sleep, Delay, Lesser
<1>4. CASE Fail
  <2>1. CASE pc' \in {"failed", "canceled"}
    BY <1>4, <2>1, <1>a, <1>b, <1>c, <1>d DEF Fail, Sleep
  <2>2. CASE pc' \notin {"failed", "canceled"}
    <3>1. /\ retry' = retry + 1 /\ pc' = "backoff" /\ due' = elapsed + Delay(RetryDelay(retry'))
          /\ UNCHANGED <<loop, elapsed, asks>> /\ loop = "poll" /\ pc = "asked"
      BY <1>4, <2>2 DEF Fail, Sleep
    <3>2. Delay(RetryDelay(retry')) \in Nat /\ Delay(RetryDelay(retry')) >= gap
      BY <3>1, RetryDelayLong DEF gap
    <3> QED
      BY <3>1, <3>2, <1>a, <1>b, <1>c, <1>d
  <2> QED
    BY <2>1, <2>2
<1>5. CASE AskAgain
  BY <1>5, <1>a, <1>b, <1>c, <1>d DEF AskAgain, Ask
<1>6. CASE LifecycleLook
  BY <1>6, <1>a, <1>b, <1>c, <1>d DEF LifecycleLook, Ask
<1>7. CASE LifecycleReply \/ LifecycleFail
  <2>1. \E ms \in Nat : ms >= gap /\ (Pause(ms) \/ (pc' \in Done /\ UNCHANGED due))
    BY <1>7 DEF LifecycleReply, LifecycleFail, RateLimitDelay, Greater, gap
  <2>2. loop = "lifecycle" /\ pc = "asked" /\ UNCHANGED <<loop, elapsed, asks, retry>>
    BY <1>7 DEF LifecycleReply, LifecycleFail
  <2> QED
    BY <2>1, <2>2, <1>a, <1>b, <1>c, <1>d DEF Pause, Delay
<1>8. CASE MonitorStart \/ MonitorReply \/ MonitorFail
  <2>1. \/ \E i \in Nat : i >= gap /\ MonitorIterate(i)
        \/ pc' = "returned" /\ UNCHANGED due
    BY <1>8, MonitorIntervals DEF MonitorStart, MonitorReply, MonitorFail, gap
  <2>2. loop = "monitor" /\ UNCHANGED <<loop, elapsed, asks, retry>>
    BY <1>8 DEF MonitorStart, MonitorReply, MonitorFail
  <2> QED
    BY <2>1, <2>2, <1>a, <1>b, <1>c, <1>d DEF MonitorIterate, Delay
<1>9. CASE MonitorAsk
  BY <1>9, <1>a, <1>b, <1>c, <1>d DEF MonitorAsk, Ask
<1>10. CASE Retrying
  <2>1. CASE Request \/ RequestReply
    BY <1>10, <2>1, <1>a, <1>b, <1>c, <1>d DEF Request, RequestReply, Ask
  <2>2. CASE RequestFail
    <3>1. /\ loop = "request" /\ pc = "asked" /\ UNCHANGED <<loop, elapsed, asks>>
          /\ \/ pc' = "failed"
             \/ /\ retry' = retry + 1 /\ retry < MaxRetries /\ pc' = "backoff"
                /\ \E ms \in RequestDelays : due' = elapsed + Delay(ms)
      BY <2>2 DEF RequestFail, RetriesLeft
    <3>2. \A ms \in RequestDelays : Delay(ms) \in Nat /\ Delay(ms) >= 1
      BY RetryDelayType DEF RequestDelays, Delay
    <3> QED
      BY <3>1, <3>2, <1>c, <1>d
  <2> QED
    BY <1>10, <2>1, <2>2 DEF Retrying
<1> QED
  BY <1>1, <1>2, <1>3, <1>4, <1>5, <1>6, <1>7, <1>8, <1>9, <1>10 DEF Next, Poll, Lifecycle, Monitor

LEMMA Inductive == Spec => []IInv
<1>1. IInv /\ [Next]_vars => IInv'
  BY StepTypeOK, StepPollInTime, StepLifecycleInTime, StepMonitorInTime, StepRequestInTime,
     StepLooked, StepWatched, StepGivesUp, StepAwake, StepSpacing DEF IInv, InTime
<1> QED
  BY <1>1, InitIInv, PTL DEF Spec

-----------------------------------------------------------------------------
(* the theorems                                                            *)

\* Every state of every run has its type.
THEOREM TypeCorrect == Spec => []TypeOK
<1>1. IInv => TypeOK
  BY DEF IInv
<1> QED
  BY <1>1, Inductive, PTL

\* Each loop overruns its timeout by no more than what it can begin before it,
\* and the attempts of 160 take no longer than all its waits.
THEOREM EndsInTime == Spec => []Overrun
<1>1. ASSUME IInv, loop = "poll" PROVE Overrun
  <2> DEFINE spent == retry * Longest
             most  == MaxRetries * Longest
  <2>1. spent \in Nat /\ most \in Nat /\ spent <= most
    BY <1>1, Retries DEF IInv
  <2>2. elapsed <= Timeout + most + Latency + Late
    <3> HIDE DEF spent, most
    <3>1. /\ pc = "start" => elapsed = 0
          /\ pc = "asked" => elapsed <= due /\ due <= Timeout - 1 + spent + Latency
          /\ pc = "backoff" => elapsed <= due + Late /\ due + Late <= Timeout - 1 + spent
          /\ pc = "asleep" => elapsed <= due + Late /\ due <= Timeout + most + Latency
          /\ pc \in Done => elapsed <= Timeout + most + Latency + Late
      BY <1>1 DEF IInv, InTime, PollInTime, spent, most
    <3> QED
      BY <1>1, <2>1, <3>1 DEF IInv, TypeOK
  <2> QED
    BY <1>1, <2>2, Bound DEF Overrun, Excess
<1>2. ASSUME IInv, loop = "lifecycle" PROVE Overrun
  BY <1>2 DEF IInv, TypeOK, InTime, LifecycleInTime, Overrun, Excess, Greater
<1>3. ASSUME IInv, loop = "monitor" PROVE Overrun
  BY <1>3 DEF IInv, TypeOK, InTime, MonitorInTime, Overrun, Excess
<1>4. ASSUME IInv, loop = "request" PROVE Overrun
  <2> DEFINE spent == retry * Wait
             most  == MaxRetries * Wait
  <2>1. spent \in Nat /\ most \in Nat /\ spent <= most
    BY <1>4, Retries DEF IInv
  <2>2. elapsed <= most + Latency
    <3> HIDE DEF spent, most
    <3>1. /\ pc \notin {"asleep", "timedOut"}
          /\ pc = "start" => elapsed = 0
          /\ pc = "asked" => elapsed <= due /\ due <= spent + Latency
          /\ pc = "backoff" => elapsed <= due + Late /\ due + Late <= spent
          /\ pc \in Done => elapsed <= most + Latency
      BY <1>4 DEF IInv, InTime, RequestInTime, spent, most
    <3> QED
      BY <1>4, <2>1, <3>1 DEF IInv, TypeOK
  <2> QED
    BY <1>4, <2>2, Bound DEF Overrun
<1>5. IInv => Overrun
  BY <1>1, <1>2, <1>3, <1>4 DEF IInv, TypeOK
<1> QED
  BY <1>5, Inductive, PTL

\* Only 120 gives up before its timeout, by less than the sleep it would need.
THEOREM NoEarlyTimeout == Spec => []GivesUpLate
<1>1. IInv => GivesUpLate
  BY DEF IInv
<1> QED
  BY <1>1, Inductive, PTL

\* A transaction that was final long before the timeout is reported as timed
\* out only by 120 and 190, after an answer that told nothing of it.
THEOREM FinalIsSeen == Spec => []MissedOnlyLate
<1>1. IInv => MissedOnlyLate
  BY DEF IInv, Watched
<1> QED
  BY <1>1, Inductive, PTL

\* No loop asks more often than once per initial interval, but 160, which asks
\* no more often than its attempts allow (189: lines 146 and 164, 160: line 231).
THEOREM ServerIsSpared == Spec => []Paced
<1>1. IInv => Paced
  <2> SUFFICES ASSUME IInv, asks > 0, loop # "request"
               PROVE  (asks - 1) * InitialInterval <= elapsed
    BY DEF IInv, Spacing, Paced
  <2>1. (asks - 1) * InitialInterval = Asked - InitialInterval
    BY DEF IInv, TypeOK, Asked
  <2> QED
    BY <2>1 DEF IInv, Spacing
<1> QED
  BY <1>1, Inductive, PTL

\* After an abort no request is sent (lines 54, 61 and 131).
THEOREM CancelIsFinal == Spec => NothingAfterCancel
<1>1. IInv /\ [Next]_vars => [aborted => asks' = asks]_vars
  <2> SUFFICES ASSUME TypeOK, Awake, Next, aborted PROVE asks' = asks
    BY DEF IInv
  <2>1. CASE Progress \/ Tick \/ Abort \/ Serve \/ Reply \/ Fail
    BY <2>1 DEF Progress, Tick, Abort, Serve, Reply, Fail
  <2>2. CASE Start
    BY <2>2 DEF Start, Iterate, TypeOK
  <2>3. CASE Wake \/ AskAgain
    BY <2>3 DEF Wake, AskAgain, Awake
  <2>4. ~Lifecycle /\ ~Monitor /\ ~Retrying
    BY DEF TypeOK, Lifecycle, LifecycleLook, LifecycleReply, LifecycleFail, Monitor,
       MonitorStart, MonitorAsk, MonitorReply, MonitorFail, Retrying, Request, RequestReply,
       RequestFail
  <2> QED
    BY <2>1, <2>2, <2>3, <2>4 DEF Next, Poll
<1> QED
  BY <1>1, Inductive, PTL DEF Spec, NothingAfterCancel

=============================================================================
