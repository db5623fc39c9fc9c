------------------------ MODULE ResilientStreamProofs ------------------------
(***************************************************************************)
(* For every set of variants, every number of records and of faults: a run *)
(* that streams has exactly one way forward, a stopped one leaves nothing  *)
(* that could call back, what it reported stays true, what it handled has  *)
(* no gap and no repetition, and an event count bounds it.                 *)
(***************************************************************************)
EXTENDS ResilientStream, FiniteSetTheorems, TLAPS

\* The stream and the reconnect timer belong to a run that streams, and are
\* never there together.
Owned == /\ stream # "off" => phase = "streaming" /\ ~shutdown /\ ~timer
         /\ timer => phase = "streaming" /\ ~shutdown

\* Before the stream is opened nothing is armed; a report follows a stop.
Phases == /\ phase = "probing" => ~shutdown /\ ~duration
          /\ phase = "returned" => shutdown

Attempts == attempt <= faults

IInv == /\ TypeOK /\ Owned /\ Phases /\ Attempts
        /\ OneWayForward /\ NothingLeft /\ ReportIsFinal

USE StreamAssumption DEF StreamAssumption, Variant, Examples, Cursor, vars, world, sdk, stats

-----------------------------------------------------------------------------

\* What stop() does to the timers and the stream.
LEMMA StopShape ==
    ASSUME Stop, TypeOK
    PROVE  /\ ~shutdown /\ shutdown' = TRUE /\ stream' = "off" /\ timer' = FALSE
           /\ duration' \in BOOLEAN /\ (duration' => Example = 159)
BY DEF Stop, TypeOK

\* A handled record has a paging token: only 158 meets one without.
LEMMA TokenType ==
    ASSUME TypeOK, NEW r \in 1..N, ~Ignored(r)
    PROVE  Token(r) = r /\ r \in Cursor
<1>1. variant.example # 158 => variant.malformed = {}
  BY DEF TypeOK
<1> QED
  BY <1>1 DEF Token, Ignored, Filtering, Example, Malformed

\* A message leaves the state in order, whether it is handled or ignored.
LEMMA Message ==
    ASSUME IInv, NEW r \in 1..N, OnMessage(r), stream = "open"
    PROVE  /\ cursor' \in Cursor /\ log' \in Seq(1..N) /\ url' \in Cursor
           /\ attempt' \in 0..MaxFaults /\ attempt' <= faults'
           /\ variant' = variant /\ head' = head /\ faults' = faults /\ phase' = phase
           /\ report' = report
           /\ \/ Stop
              \/ UNCHANGED <<stream, timer, duration, shutdown>>
<1>1. variant' = variant /\ head' = head /\ faults' = faults /\ phase' = phase /\ report' = report
  BY DEF OnMessage
<1>2. url' \in Cursor
  BY DEF OnMessage, IInv, TypeOK
<1>3. CASE Ignored(r)
  BY <1>1, <1>2, <1>3 DEF OnMessage, IInv, TypeOK, Attempts
<1>4. CASE ~Ignored(r)
  <2>1. Handle(r)
    BY <1>4 DEF OnMessage
  <2>2. cursor' \in Cursor
    BY <1>4, <2>1, TokenType DEF Handle, IInv
  <2>3. log' \in Seq(1..N)
    BY <2>1 DEF Handle, IInv, TypeOK
  <2>4. attempt' \in 0..MaxFaults /\ attempt' <= faults'
    BY <1>1, <2>1 DEF Handle, IInv, TypeOK
  <2>5. Stop \/ UNCHANGED <<stream, timer, duration, shutdown>>
    BY <2>1 DEF Handle
  <2> QED
    BY <1>1, <1>2, <2>2, <2>3, <2>4, <2>5
<1> QED
  BY <1>3, <1>4

LEMMA InitIInv == Init => IInv
<1> SUFFICES ASSUME Init PROVE IInv
  OBVIOUS
<1>1. TypeOK
  <2>1. variant.start \in Cursor
    BY DEF Init
  <2>2. log \in Seq(1..N)
    BY DEF Init
  <2>3. report \in {<<>>} \cup (Cursor \X Nat)
    BY DEF Init
  <2>4. url \in Cursor /\ cursor \in Cursor
    BY <2>1 DEF Init
  <2>5. head \in 0..N /\ faults \in 0..MaxFaults /\ at \in 0..N /\ attempt \in 0..MaxFaults
    BY DEF Init
  <2> QED
    BY <2>2, <2>3, <2>4, <2>5 DEF Init, TypeOK
<1> QED
  BY <1>1 DEF Init, IInv, Owned, Phases, Attempts, OneWayForward, NothingLeft, ReportIsFinal

\* A message ends the stream by stop() or leaves it as it is.
LEMMA MessageStep ==
    ASSUME IInv, NEW r \in 1..N, OnMessage(r), stream = "open", at' \in 0..N
    PROVE  IInv'
<1> USE Message
<1>1. phase = "streaming" /\ ~shutdown /\ ~timer
  BY DEF IInv, Owned
<1>2. TypeOK'
  <2>1. stream' \in {"off", "connecting", "open"} /\ timer' \in BOOLEAN
        /\ duration' \in BOOLEAN /\ shutdown' \in BOOLEAN
    BY StopShape DEF IInv, TypeOK
  <2> QED
    BY <2>1 DEF IInv, TypeOK
<1>3. CASE Stop
  BY <1>1, <1>2, <1>3, StopShape DEF IInv, Owned, Phases, Attempts, OneWayForward, NothingLeft,
     ReportIsFinal, Example
<1>4. CASE UNCHANGED <<stream, timer, duration, shutdown>>
  BY <1>1, <1>2, <1>4 DEF IInv, Owned, Phases, Attempts, OneWayForward, NothingLeft, ReportIsFinal,
     Example
<1> QED
  BY <1>3, <1>4

\* An error ends the stream by stop().
LEMMA ErrorStep ==
    ASSUME IInv, Stop, stream # "off", faults < MaxFaults, faults' = faults + 1,
           UNCHANGED <<world, url, at, stats, attempt, report>>, phase' \in {phase, "failed"}
    PROVE  IInv'
<1>1. phase = "streaming" /\ ~shutdown /\ ~timer
  BY DEF IInv, Owned
<1>2. faults' \in 0..MaxFaults /\ attempt' <= faults'
  BY DEF IInv, TypeOK, Attempts
<1>3. /\ shutdown' = TRUE /\ stream' = "off" /\ timer' = FALSE
      /\ duration' \in BOOLEAN /\ (duration' => Example' = 159)
  BY StopShape DEF IInv, Example
<1>4. TypeOK'
  BY <1>1, <1>2, <1>3 DEF IInv, TypeOK
<1> QED
  BY <1>1, <1>2, <1>3, <1>4 DEF IInv, Owned, Phases, Attempts, OneWayForward, NothingLeft, ReportIsFinal

LEMMA StepIInv == IInv /\ [Next]_vars => IInv'
<1> SUFFICES ASSUME IInv, [Next]_vars PROVE IInv'
  OBVIOUS
<1> USE DEF IInv, TypeOK, Owned, Phases, Attempts, OneWayForward, NothingLeft, ReportIsFinal, Example
<1>0. CASE UNCHANGED vars
  BY <1>0
<1>1. CASE Begin
  <2>1. DurationArmed \in BOOLEAN
    BY DEF DurationArmed
  <2> QED
    BY <1>1, <2>1 DEF Begin, OpenFrom
<1>2. CASE ProbeFails
  BY <1>2 DEF ProbeFails
<1>3. CASE Connect
  BY <1>3 DEF Connect
<1>4. CASE Deliver
  BY <1>4, MessageStep DEF Deliver
<1>5. CASE Replay
  <2>1. PICK r \in Seen : stream = "open" /\ OnMessage(r) /\ at' = at
    BY <1>5 DEF Replay
  <2>2. r \in 1..N
    BY <2>1 DEF Seen
  <2> QED
    BY <2>1, <2>2, MessageStep
<1>6. CASE OnError
  <2>1. faults' \in 0..MaxFaults /\ attempt' \in 0..MaxFaults /\ attempt' <= faults'
    BY <1>6 DEF OnError
  <2> QED
    BY <1>6, <2>1 DEF OnError
<1>7. CASE OnErrorStop
  BY <1>7, ErrorStep DEF OnErrorStop
<1>8. CASE OnErrorGoOn
  BY <1>8 DEF OnErrorGoOn
<1>9. CASE OnErrorFatal
  BY <1>9, ErrorStep DEF OnErrorFatal
<1>10. CASE ServerClose
  BY <1>10 DEF ServerClose
<1>11. CASE Reconnect
  BY <1>11 DEF Reconnect, OpenFrom
<1>12. CASE Signal
  BY <1>12, StopShape DEF Signal
<1>13. CASE DurationElapses
  BY <1>13 DEF DurationElapses
<1>14. CASE Return
  BY <1>14 DEF Return
<1>15. CASE Publish
  BY <1>15 DEF Publish
<1> QED
  BY <1>0, <1>1, <1>2, <1>3, <1>4, <1>5, <1>6, <1>7, <1>8, <1>9, <1>10, <1>11, <1>12, <1>13, <1>14,
     <1>15 DEF Next

LEMMA Inductive == Spec => []IInv
BY InitIInv, StepIInv, PTL DEF Spec

-----------------------------------------------------------------------------
(* no gap                                                                  *)

First == log[1]
Last == log[Len(log)]

\* The records handled are a stretch of the ledger, but for malformed ones.
Stretch == log # <<>> =>
    /\ \A i \in 1..Len(log) : First <= log[i] /\ log[i] <= Last
    /\ \A x \in First..Last : x \in Seen \/ x \in Malformed

\* Wherever a connection can begin, it begins in that stretch; what it has
\* sent beyond it was malformed.
Anchored == log # <<>> =>
    /\ cursor = Last
    /\ url \in Seen /\ (~Filtering => url = Last)
    /\ stream = "open" =>
           /\ at >= First
           /\ ~Filtering => at = Last
           /\ \A x \in (Last + 1)..at : x \in Malformed

GInv == IInv /\ NoGap /\ Stretch /\ Anchored

\* A first record, or the next one after the stretch, prolongs it.
LEMMA Prolonged ==
    ASSUME GInv, stream = "open", NEW r \in 1..N, r = at + 1, ~Ignored(r), OnMessage(r), at' = r
    PROVE  (NoGap /\ Stretch /\ Anchored)'
<1>1. log' = Append(log, r) /\ cursor' = r /\ url' = r /\ variant' = variant
  <2>1. r \notin Malformed
    BY DEF GInv, IInv, TypeOK, Ignored, Filtering, Example, Malformed
  <2> QED
    BY <2>1, TokenType DEF OnMessage, Handle, GInv, IInv
<1>2. log \in Seq(1..N) /\ at \in Nat
  BY DEF GInv, IInv, TypeOK
<1>3. /\ Len(log') = Len(log) + 1 /\ log'[Len(log')] = r
      /\ \A i \in 1..Len(log) : log'[i] = log[i] /\ log[i] \in 1..N
  BY <1>1, <1>2
<1>a. Malformed' = Malformed /\ Filtering' = Filtering
  BY <1>1 DEF Malformed, Filtering, Example
<1>b. r \in Seen'
  BY <1>3, <1>2 DEF Seen
<1>c. \A x \in Seen : x \in Seen'
  BY <1>3, <1>2 DEF Seen
<1>4. CASE log = <<>>
  <2>1. Len(log') = 1 /\ log'[1] = r
    BY <1>3, <1>4
  <2> QED
    BY <1>1, <1>2, <1>a, <1>b, <2>1 DEF NoGap, Stretch, Anchored, First, Last
<1>5. CASE log # <<>>
  <2>1. Len(log) \in Nat \ {0} /\ First \in 1..N /\ Last \in 1..N
    BY <1>2, <1>5 DEF First, Last
  <2>2. at >= Last
    <3>1. CASE Filtering
      <4>1. r \notin Seen /\ r \notin Malformed /\ r >= First
        BY <1>2, <1>5, <2>1, <3>1 DEF Ignored, GInv, Anchored
      <4>2. ~(r <= Last)
        BY <1>5, <2>1, <4>1 DEF GInv, Stretch
      <4> QED
        BY <1>2, <2>1, <4>2
    <3>2. CASE ~Filtering
      BY <1>5, <2>1, <3>2 DEF GInv, Anchored
    <3> QED
      BY <3>1, <3>2
  <2>3. \A x \in (Last + 1)..at : x \in Malformed
    BY <1>5 DEF GInv, Anchored
  <2>4. First' = First /\ Last' = r
    BY <1>2, <1>3, <2>1 DEF First, Last
  <2>5. NoGap'
    <3> SUFFICES ASSUME NEW i \in 1..(Len(log') - 1)
                 PROVE  /\ log'[i] < log'[i + 1]
                        /\ \A x \in (log'[i] + 1)..(log'[i + 1] - 1) : x \in Malformed
      BY <1>a DEF NoGap
    <3>1. CASE i = Len(log)
      BY <1>2, <1>3, <2>1, <2>2, <2>3, <3>1 DEF Last
    <3>2. CASE i # Len(log)
      <4>1. i \in 1..(Len(log) - 1) /\ log'[i] = log[i] /\ log'[i + 1] = log[i + 1]
        BY <1>2, <1>3, <2>1, <3>2
      <4> QED
        BY <4>1 DEF GInv, NoGap
    <3> QED
      BY <3>1, <3>2
  <2>6. Stretch'
    <3>1. \A i \in 1..Len(log') : First' <= log'[i] /\ log'[i] <= Last'
      <4> SUFFICES ASSUME NEW i \in 1..Len(log') PROVE First <= log'[i] /\ log'[i] <= r
        BY <2>4
      <4>1. CASE i = Len(log')
        BY <1>2, <1>3, <1>5, <2>1, <2>2, <4>1 DEF GInv, Stretch
      <4>2. CASE i # Len(log')
        <5>1. i \in 1..Len(log) /\ log'[i] = log[i] /\ log[i] \in 1..N
          BY <1>2, <1>3, <2>1, <4>2
        <5> QED
          BY <1>2, <1>5, <2>1, <2>2, <5>1 DEF GInv, Stretch
      <4> QED
        BY <4>1, <4>2
    <3>2. \A x \in First'..Last' : x \in Seen' \/ x \in Malformed'
      <4> SUFFICES ASSUME NEW x \in First..r PROVE x \in Seen' \/ x \in Malformed
        BY <2>4, <1>a
      <4>1. CASE x <= Last
        BY <1>5, <1>c, <2>1, <4>1 DEF GInv, Stretch
      <4>2. CASE x > Last /\ x <= at
        BY <2>1, <2>3, <4>2, <1>2
      <4>3. CASE x = r
        BY <1>b, <4>3
      <4> QED
        BY <1>2, <2>1, <4>1, <4>2, <4>3
    <3> QED
      BY <3>1, <3>2 DEF Stretch
  <2>7. Anchored'
    BY <1>1, <1>2, <1>b, <2>1, <2>2, <2>4 DEF Anchored, GInv, Stretch
  <2> QED
    BY <2>5, <2>6, <2>7
<1> QED
  BY <1>4, <1>5

\* A message that is ignored was seen before or is malformed.
LEMMA Skipped ==
    ASSUME GInv, stream = "open", NEW r \in 1..N, Ignored(r), OnMessage(r),
           at' = at \/ (r = at + 1 /\ at' = r), at' = at => r \in Seen
    PROVE  (NoGap /\ Stretch /\ Anchored)'
<1>1. /\ log' = log /\ cursor' = cursor /\ variant' = variant /\ stream' = stream
      /\ url' = (IF r \in Malformed THEN url ELSE r)
  BY DEF OnMessage
<1>2. Seen' = Seen /\ Malformed' = Malformed /\ Filtering' = Filtering /\ First' = First /\ Last' = Last
  BY <1>1 DEF Seen, Malformed, Filtering, Example, First, Last
<1>3. Filtering /\ (r \in Malformed \/ r \in Seen)
  BY DEF Ignored
<1>4. (NoGap /\ Stretch)'
  BY <1>1, <1>2 DEF GInv, NoGap, Stretch
<1>5. ASSUME log # <<>> PROVE (url \in Seen /\ at >= First /\ \A x \in (Last + 1)..at : x \in Malformed)'
  <2>1. url \in Seen /\ at >= First /\ \A x \in (Last + 1)..at : x \in Malformed
    BY <1>5 DEF GInv, Anchored
  <2>2. at \in Nat /\ First \in Nat /\ Last \in Nat
    BY <1>5 DEF GInv, IInv, TypeOK, First, Last
  <2>3. r > Last => r \in Malformed
    <3>1. r \in Seen => r <= Last
      BY <1>5 DEF GInv, Stretch, Seen
    <3> QED
      BY <1>3, <2>2, <3>1
  <2> QED
    BY <1>1, <1>2, <1>3, <2>1, <2>2, <2>3
<1> QED
  BY <1>1, <1>2, <1>3, <1>4, <1>5 DEF GInv, Anchored

LEMMA StepGInv == GInv /\ [Next]_vars => GInv'
<1> SUFFICES ASSUME GInv, [Next]_vars PROVE (NoGap /\ Stretch /\ Anchored)'
  BY StepIInv DEF GInv
<1>t. /\ log \in Seq(1..N)
      /\ log # <<>> => /\ First \in 1..N /\ Last \in 1..N /\ Last \in Seen
                       /\ First <= Last
                       /\ \A x \in Seen : x \in 1..N /\ First <= x /\ x <= Last
  <2>1. log \in Seq(1..N)
    BY DEF GInv, IInv, TypeOK
  <2>2. ASSUME log # <<>> PROVE Len(log) \in 1..Len(log) /\ First \in 1..N /\ Last \in 1..N
    BY <2>1, <2>2 DEF First, Last
  <2> QED
    BY <2>1, <2>2 DEF GInv, Stretch, Seen, Last
<1>s. ASSUME log' = log, variant' = variant
      PROVE  /\ Seen' = Seen /\ Malformed' = Malformed /\ Filtering' = Filtering
             /\ First' = First /\ Last' = Last /\ (NoGap /\ Stretch)'
  BY <1>s DEF GInv, NoGap, Stretch, Seen, Malformed, Filtering, Example, First, Last
<1>0. ASSUME UNCHANGED <<variant, log, cursor, url, at>>, stream' = "open" => stream = "open"
      PROVE  (NoGap /\ Stretch /\ Anchored)'
  BY <1>0, <1>s DEF GInv, Anchored
<1>1. CASE Begin
  <2>1. log # <<>> => cursor = Last
    BY DEF GInv, Anchored
  <2> QED
    BY <1>1, <1>s, <1>t, <2>1 DEF Begin, OpenFrom, Anchored
<1>2. CASE Connect
  <2>1. ASSUME log # <<>> PROVE at' = url /\ url \in Seen /\ url \in 1..N /\ First <= url /\ url <= Last
    BY <1>2, <1>t, <2>1 DEF Connect, GInv, Anchored
  <2> QED
    BY <1>2, <1>s, <1>t, <2>1 DEF Connect, GInv, Anchored
<1>3. CASE Deliver
  <2>1. /\ stream = "open" /\ at + 1 \in 1..N /\ at' = at + 1 /\ OnMessage(at + 1)
        /\ at' # at
    BY <1>3 DEF Deliver, GInv, IInv, TypeOK
  <2>2. CASE Ignored(at + 1)
    BY <2>1, <2>2, Skipped
  <2>3. CASE ~Ignored(at + 1)
    BY <2>1, <2>3, Prolonged
  <2> QED
    BY <2>2, <2>3
<1>4. CASE Replay
  <2>1. PICK r \in Seen : variant.replays /\ stream = "open" /\ OnMessage(r) /\ at' = at
    BY <1>4 DEF Replay
  <2>2. r \in 1..N
    BY <1>t, <2>1 DEF Seen
  <2>3. Ignored(r)
    BY <2>1 DEF GInv, IInv, TypeOK, Ignored, Filtering, Example
  <2> QED
    BY <2>1, <2>2, <2>3, Skipped
<1>5. CASE Reconnect
  <2>1. log # <<>> => cursor = Last
    BY DEF GInv, Anchored
  <2>2. stream' # "open" /\ url' = cursor
    BY <1>5 DEF Reconnect, OpenFrom, GInv, IInv, Owned
  <2> QED
    BY <1>5, <1>s, <1>t, <2>1, <2>2 DEF Reconnect, Anchored
<1>6. CASE ProbeFails \/ Return \/ Publish \/ UNCHANGED vars
  BY <1>0, <1>6 DEF ProbeFails, Return, Publish
<1>7. CASE OnError \/ OnErrorGoOn \/ ServerClose \/ DurationElapses
  BY <1>0, <1>7 DEF OnError, OnErrorGoOn, ServerClose, DurationElapses
<1>8. CASE OnErrorStop \/ OnErrorFatal \/ Signal
  BY <1>0, <1>8 DEF OnErrorStop, OnErrorFatal, Signal, Stop
<1> QED
  BY <1>1, <1>2, <1>3, <1>4, <1>5, <1>6, <1>7, <1>8 DEF Next

LEMMA InitGInv == Init => GInv
<1>1. Init => NoGap /\ Stretch /\ Anchored
  BY DEF Init, NoGap, Stretch, Anchored
<1> QED
  BY <1>1, InitIInv DEF GInv

-----------------------------------------------------------------------------
(* the event count                                                         *)

\* While the run goes on, the record that reaches the count has not come.
CountOpen == MaxEvents # 0 /\ ~shutdown =>
    IF Example = 159 THEN Accepted < MaxEvents
                     ELSE \A i \in MaxEvents..Len(log) : log[i] \in Rejected

CInv == IInv /\ CountOpen /\ CountHolds

\* The count of accepted records moves with the log.
LEMMA AcceptedType ==
    ASSUME log \in Seq(1..N)
    PROVE  /\ Accepted \in Nat
           /\ Rejected = {} => Accepted = Len(log)
<1> DEFINE in == {i \in 1..Len(log) : log[i] \notin Rejected}
<1>1. IsFiniteSet(1..Len(log)) /\ Cardinality(1..Len(log)) = Len(log)
  BY FS_Interval
<1>2. IsFiniteSet(in)
  BY <1>1, FS_Subset
<1>3. Rejected = {} => in = 1..Len(log)
  OBVIOUS
<1> QED
  BY <1>1, <1>2, <1>3, FS_CardinalityType DEF Accepted

LEMMA AcceptedAppend ==
    ASSUME log \in Seq(1..N), NEW r \in 1..N, log' = Append(log, r), variant' = variant
    PROVE  Accepted' = IF r \in Rejected THEN Accepted ELSE Accepted + 1
<1> DEFINE in == {i \in 1..Len(log) : log[i] \notin Rejected}
           last == Len(log) + 1
<1>1. IsFiniteSet(in)
  BY FS_Interval, FS_Subset, IsFiniteSet(1..Len(log))
<1>2. /\ Rejected' = Rejected /\ Len(log') = last /\ log'[last] = r
      /\ \A i \in 1..Len(log) : log'[i] = log[i]
  BY DEF Rejected
<1>3. in' = IF r \in Rejected THEN in ELSE in \cup {last}
  <2>1. \A i : i \in 1..Len(log') <=> i \in 1..Len(log) \/ i = last
    BY <1>2
  <2>2. last \notin 1..Len(log)
    OBVIOUS
  <2> QED
    BY <1>2, <2>1, <2>2
<1>4. last \notin in
  OBVIOUS
<1> HIDE DEF in, last
<1>5. Cardinality(in \cup {last}) = Cardinality(in) + 1
  BY <1>1, <1>4, FS_AddElement
<1>6. Accepted = Cardinality(in) /\ Accepted' = Cardinality(in')
  BY DEF Accepted, in
<1> QED
  BY <1>3, <1>5, <1>6

LEMMA StepCInv == CInv /\ [Next]_vars => CInv'
<1> SUFFICES ASSUME CInv, [Next]_vars PROVE (CountOpen /\ CountHolds)'
  BY StepIInv DEF CInv
<1>t. /\ log \in Seq(1..N) /\ shutdown \in BOOLEAN /\ MaxEvents \in Nat
      /\ Accepted \in Nat /\ (Rejected = {} => Accepted = Len(log))
  BY AcceptedType DEF CInv, IInv, TypeOK, MaxEvents
<1>1. ASSUME log' = log, variant' = variant, shutdown' \in BOOLEAN, shutdown => shutdown'
      PROVE  (CountOpen /\ CountHolds)'
  <2>1. Accepted' = Accepted /\ MaxEvents' = MaxEvents /\ Rejected' = Rejected /\ Example' = Example
    BY <1>1 DEF Accepted, MaxEvents, Rejected, Example
  <2> QED
    BY <1>1, <2>1 DEF CInv, CountOpen, CountHolds
<1>2. ASSUME NEW r \in 1..N, stream = "open", OnMessage(r)
      PROVE  (CountOpen /\ CountHolds)'
  <2>1. CASE Ignored(r)
    BY <1>1, <1>2, <2>1 DEF OnMessage, CInv, IInv, TypeOK
  <2>2. CASE ~Ignored(r)
    <3>1. /\ ~shutdown /\ variant' = variant /\ log' = Append(log, r)
          /\ IF CountReached(r) THEN shutdown' = TRUE ELSE shutdown' = shutdown
      BY <1>2, <2>2 DEF OnMessage, Handle, Stop, CInv, IInv, Owned
    <3>2. /\ MaxEvents' = MaxEvents /\ Rejected' = Rejected /\ Example' = Example
          /\ Len(log') = Len(log) + 1 /\ log'[Len(log) + 1] = r
          /\ \A i \in 1..Len(log) : log'[i] = log[i]
      BY <1>t, <3>1 DEF MaxEvents, Rejected, Example
    <3>3. Accepted' = IF r \in Rejected THEN Accepted ELSE Accepted + 1
      BY <1>t, <3>1, AcceptedAppend
    <3> SUFFICES ASSUME MaxEvents # 0 PROVE (CountOpen /\ CountHolds)'
      BY <3>2 DEF CountOpen, CountHolds
    <3>4. CASE Example = 159
      <4>1. Accepted < MaxEvents
        BY <3>1, <3>4 DEF CInv, CountOpen
      <4>2. Accepted' <= MaxEvents /\ (~shutdown' => Accepted' < MaxEvents)
        BY <1>t, <3>1, <3>3, <3>4, <4>1 DEF CountReached
      <4>3. Rejected = {} => Accepted' = Len(log')
        BY <1>t, <3>2, <3>3
      <4> QED
        BY <1>t, <3>1, <3>2, <3>4, <4>2, <4>3 DEF CountOpen, CountHolds
    <3>5. CASE Example # 159
      <4>1. \A i \in MaxEvents..Len(log) : log[i] \in Rejected /\ log'[i] = log[i]
        BY <1>t, <3>1, <3>2, <3>5 DEF CInv, CountOpen
      <4>2. Len(log) + 1 >= MaxEvents /\ r \notin Rejected => shutdown'
        BY <3>1, <3>5 DEF CountReached
      <4> QED
        BY <1>t, <3>1, <3>2, <3>5, <4>1, <4>2 DEF CountOpen, CountHolds
    <3> QED
      BY <3>4, <3>5
  <2> QED
    BY <2>1, <2>2
<1>3. CASE Deliver
  BY <1>2, <1>3 DEF Deliver, CInv, IInv, TypeOK
<1>4. CASE Replay
  <2>1. PICK r \in Seen : stream = "open" /\ OnMessage(r)
    BY <1>4 DEF Replay
  <2>2. r \in 1..N
    BY <1>t, <2>1 DEF Seen
  <2> QED
    BY <1>2, <2>1, <2>2
<1>5. CASE ~Deliver /\ ~Replay
  <2>1. log' = log /\ variant' = variant /\ (shutdown' = shutdown \/ shutdown' = TRUE)
    BY <1>5 DEF Next, Begin, ProbeFails, Connect, ServerClose, Reconnect, OnError, OnErrorStop,
       OnErrorGoOn, OnErrorFatal, Signal, DurationElapses, Return, Publish, Stop
  <2> QED
    BY <1>1, <1>t, <2>1
<1> QED
  BY <1>3, <1>4, <1>5

LEMMA InitCInv == Init => CInv
<1> SUFFICES ASSUME Init PROVE CountOpen /\ CountHolds
  BY InitIInv DEF CInv
<1>1. log = <<>> /\ Len(log) = 0 /\ MaxEvents \in Nat
  BY DEF Init, MaxEvents
<1>2. Accepted = 0
  <2>1. {i \in 1..Len(log) : log[i] \notin Rejected} = {}
    BY <1>1
  <2> QED
    BY <2>1, FS_EmptySet DEF Accepted
<1> QED
  BY <1>1, <1>2 DEF CountOpen, CountHolds

-----------------------------------------------------------------------------

\* Every state of every run of every example has its type: the cursor that
\* a reconnect uses is never undefined.
THEOREM TypeCorrect == Spec => []TypeOK
<1>1. IInv => TypeOK
  BY DEF IInv
<1> QED
  BY <1>1, Inductive, PTL

\* While a run streams, either the stream is open or the timer that reopens
\* it is armed, never both (158: onerror and scheduleReconnect).
THEOREM OneWay == Spec => []OneWayForward
<1>1. IInv => OneWayForward
  BY DEF IInv
<1> QED
  BY <1>1, Inductive, PTL

\* After stop() neither the stream nor a timer is left (cleanup), but the
\* duration timer of 159.
THEOREM Cleaned == Spec => []NothingLeft
<1>1. IInv => NothingLeft
  BY DEF IInv
<1> QED
  BY <1>1, Inductive, PTL

\* What run() reported is all it handled: no callback runs after it.
THEOREM ReportStays == Spec => []ReportIsFinal
<1>1. IInv => ReportIsFinal
  BY DEF IInv
<1> QED
  BY <1>1, Inductive, PTL

\* Between two records that a run handled no well-formed one was skipped, and
\* none is handled twice (158: lines 291-298, and the cursor of every stream).
THEOREM Gapless == Spec => []NoGap
<1>1. GInv => NoGap
  BY DEF GInv
<1> QED
  BY <1>1, InitGInv, StepGInv, PTL DEF Spec

\* An event count bounds every run (158: line 306, 159: line 322, 92: line
\* 455): past it only what a filter rejects is handled, and one record more.
THEOREM CountBounds == Spec => []CountHolds
<1>1. CInv => CountHolds
  BY DEF CInv
<1> QED
  BY <1>1, InitCInv, StepCInv, PTL DEF Spec

=============================================================================
