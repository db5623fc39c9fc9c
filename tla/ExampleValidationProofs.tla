----------------------- MODULE ExampleValidationProofs -----------------------
(***************************************************************************)
(* The safety properties of ExampleValidation, for any list of examples,   *)
(* any selection and exclusion, and any children.                          *)
(***************************************************************************)
EXTENDS ExampleValidation, FiniteSetTheorems, TLAPS

Indices == 1..Len(results)
Done == {results[i].name : i \in Indices}

\* Nothing happened to an example whose turn has not come.
Fresh(e) == process[e] = "absent" /\ e \notin signalled \cup armed \cup timedOut \cup spawnError

Reached == /\ ~Over => Example \in Selected
           /\ phase = "waiting" => ~Over /\ ~IsExcluded(Example)

Progress == Done = {Examples[k] : k \in 1..(at - 1)} \cap Selected
Ordered == \A i, j \in Indices : i < j => Before(results[i].name, results[j].name)

Untouched == \A e \in Names : e \in Done \/ (phase = "waiting" /\ e = Example) \/ Fresh(e)

Marks == /\ signalled \subseteq timedOut
         /\ \A e \in spawnError : process[e] = "nonzero"

Verdicts == \A i \in Indices :
    LET e == results[i].name IN
    /\ results[i].status = "failed" <=> e \in timedOut \/ process[e] \in {"nonzero", "signal"}
    /\ results[i].status = "skipped" <=> e \in excluded /\ ~includeExcluded
    /\ results[i].status = "skipped" => process[e] = "absent"
    /\ results[i].status = "passed" => process[e] = "zero"

ExitTells == phase = "reported" =>
    Over /\ (exitStatus = 1 <=> \E i \in Indices : results[i].status = "failed")

\* What holds in every reachable state and is preserved by every step.
IInv == /\ TypeOK /\ OneAtATime
        /\ Reached /\ Progress /\ Ordered /\ Untouched
        /\ Marks /\ Verdicts /\ ExitTells

-----------------------------------------------------------------------------
\* The list of examples, by its positions.
LEMMA Listing ==
    /\ Len(Examples) \in Nat
    /\ \A k \in 1..Len(Examples) : Examples[k] \in Names
    /\ \A e \in Names : \E k \in 1..Len(Examples) : e = Examples[k]
    /\ \A j, k \in 1..Len(Examples) : Examples[j] = Examples[k] => j = k
<1>1. Examples \in Seq(Names) BY ExamplesAssumption DEF Names
<1>2. DOMAIN Examples = 1..Len(Examples) /\ Len(Examples) \in Nat BY <1>1
<1>3. Names = {Examples[i] : i \in 1..Len(Examples)} BY <1>2 DEF Names, ToSet
<1> QED BY <1>1, <1>2, <1>3, ExamplesAssumption DEF IsInjective

LEMMA InitInv == Init => IInv
<1> SUFFICES ASSUME Init PROVE IInv
    OBVIOUS
<1> USE DEF Init
<1>1. Indices = {} BY DEF Indices
<1>2. TypeOK BY DEF TypeOK, Status, ProcessState
<1>3. OneAtATime BY DEF OneAtATime
<1>4. Reached BY DEF Reached, Over, Example, Follows
<1>5. Progress
  <2>1. Done = {} BY <1>1 DEF Done
  <2>2. \A k \in 1..(at - 1) : Examples[k] \notin Selected
    <3> at \in Int /\ 0 + 1 = 1 BY Listing
    <3> QED BY DEF Follows
  <2> QED BY <2>1, <2>2 DEF Progress
<1>6. Ordered /\ Verdicts BY <1>1 DEF Ordered, Verdicts
<1>7. Untouched BY DEF Untouched, Fresh
<1>8. Marks /\ ExitTells BY DEF Marks, ExitTells
<1> QED BY <1>2, <1>3, <1>4, <1>5, <1>6, <1>7, <1>8 DEF IInv

\* The example whose turn it is has no result yet.
LEMMA NotDoneYet == ASSUME IInv, ~Over PROVE Example \in Names \ Done
<1> USE DEF IInv
<1>1. at \in 1..Len(Examples) /\ Len(Examples) \in Nat BY Listing DEF TypeOK, Over
<1>2. Example = Examples[at] /\ Example \in Names BY <1>1, Listing DEF Example
<1> SUFFICES ASSUME Example \in Done PROVE FALSE
    BY <1>2
<1>3. PICK k \in 1..(at - 1) : Example = Examples[k] BY DEF Progress
<1>4. k \in 1..Len(Examples) /\ k # at BY <1>1
<1> QED BY <1>1, <1>2, <1>3, <1>4, Listing

\* A child that lives, or has a timer, is that of the example awaited.
LEMMA Awaited ==
    ASSUME IInv, NEW e \in Names, process[e] \in {"unborn", "running"} \/ e \in armed
    PROVE  phase = "waiting" /\ e = Example /\ e \notin Done
BY NotDoneYet DEF IInv, OneAtATime, Reached

LEMMA ResultsOfDone == ASSUME NEW i \in Indices PROVE results[i].name \in Done
BY DEF Done

\* A result is pushed: it is that of the next selected example in the list.
LEMMA PushInOrder ==
    ASSUME IInv, ~Over, NEW st \in Status, Push(st), UNCHANGED options
    PROVE  /\ results' \in Seq([name : Names, status : Status])
           /\ at' \in 1..(Len(Examples) + 1)
           /\ Len(results') = Len(results) + 1 /\ Len(results) \in Nat
           /\ results'[Len(results) + 1] = [name |-> Example, status |-> st]
           /\ \A i \in Indices : results'[i] = results[i]
           /\ Example \in Names \ Done /\ Done' = Done \cup {Example}
           /\ Progress' /\ (~Over' => Example' \in Selected') /\ Ordered'
<1> DEFINE n == Len(results)
           new == [name |-> Example, status |-> st]
<1> USE DEF IInv
<1>1. at \in 1..Len(Examples) /\ Len(Examples) \in Nat BY Listing DEF TypeOK, Over
<1>2. Example = Examples[at] /\ Example \in Names BY <1>1, Listing DEF Example
<1>3. results \in Seq([name : Names, status : Status]) BY DEF TypeOK
<1>4. new \in [name : Names, status : Status] BY <1>2
<1>5. /\ results' \in Seq([name : Names, status : Status])
      /\ n \in Nat /\ Len(results') = n + 1 /\ results'[n + 1] = new
      /\ \A i \in 1..n : results'[i] = results[i]
  <2>1. results' = Append(results, new) BY DEF Push
  <2> HIDE DEF new
  <2> QED BY <1>3, <1>4, <2>1
<1>6. Indices' = Indices \cup {n + 1} /\ Indices = 1..n BY <1>5 DEF Indices
<1>7. Done' = Done \cup {Example}
  <2>1. Done' = {results'[i].name : i \in Indices'} BY DEF Done
  <2>2. results'[n + 1].name = Example BY <1>5
  <2>3. \A i \in Indices : results'[i].name = results[i].name BY <1>5, <1>6
  <2> QED BY <2>1, <2>2, <2>3, <1>6 DEF Done
<1>8. at' \in 1..(Len(Examples) + 1) /\ Follows(at, at') BY DEF Push
<1>9. Selected' = Selected BY DEF Selected, options
<1>10. Example \notin Done BY NotDoneYet
<1>11. Progress'
  <2>1. Example \in Selected BY DEF Reached
  <2>2. \A k \in (at + 1)..(at' - 1) : Examples[k] \notin Selected BY <1>8 DEF Follows
  <2>3. at' \in Int /\ at' > at BY <1>1, <1>8 DEF Follows
  <2>4. 1..(at' - 1) = 1..(at - 1) \cup {at} \cup (at + 1)..(at' - 1) BY <2>3, <1>1
  <2>5. {Examples[k] : k \in 1..(at' - 1)} \cap Selected
          = ({Examples[k] : k \in 1..(at - 1)} \cap Selected) \cup {Example}
      BY <2>1, <2>2, <2>4, <1>2
  <2> QED BY <2>5, <1>7, <1>9 DEF Progress
<1>12. ~Over' => Example' \in Selected'
    BY <1>1, <1>8, <1>9 DEF Follows, Over, Example
<1>13. Ordered'
  <2> SUFFICES ASSUME NEW i \in Indices', NEW j \in Indices', i < j
               PROVE  Before(results'[i].name, results'[j].name)
      BY DEF Ordered, Before
  <2>1. i \in Indices BY <1>5, <1>6
  <2>2. CASE j \in Indices BY <1>5, <1>6, <2>1, <2>2 DEF Ordered
  <2>3. CASE j = n + 1
    <3>1. results[i].name \in Done BY <2>1 DEF Done
    <3>2. PICK k \in 1..(at - 1) : results[i].name = Examples[k] BY <3>1 DEF Progress
    <3>3. k \in 1..Len(Examples) /\ k < at BY <1>1
    <3>4. results'[i].name = Examples[k] /\ results'[j].name = Examples[at]
        BY <1>2, <1>5, <1>6, <2>1, <2>3, <3>2
    <3> QED BY <1>1, <3>3, <3>4 DEF Before
  <2> QED BY <1>6, <2>2, <2>3
<1> QED BY <1>2, <1>5, <1>6, <1>7, <1>8, <1>10, <1>11, <1>12, <1>13

-----------------------------------------------------------------------------
(* one lemma for each kind of step                                         *)

LEMMA SkipInv == IInv /\ Skip => IInv'
<1> SUFFICES ASSUME IInv, Skip PROVE IInv'
    OBVIOUS
<1> USE DEF IInv, Skip, child
<1>1. Push("skipped") /\ "skipped" \in Status /\ UNCHANGED options BY DEF Status
<1>2. /\ results' \in Seq([name : Names, status : Status])
      /\ at' \in 1..(Len(Examples) + 1)
      /\ Len(results') = Len(results) + 1 /\ Len(results) \in Nat
      /\ results'[Len(results) + 1] = [name |-> Example, status |-> "skipped"]
      /\ \A i \in Indices : results'[i] = results[i]
      /\ Example \in Names \ Done /\ Done' = Done \cup {Example}
      /\ Progress' /\ (~Over' => Example' \in Selected') /\ Ordered'
    BY <1>1, PushInOrder
<1>3. TypeOK' BY <1>2 DEF TypeOK, options
<1>4. OneAtATime' BY DEF OneAtATime
<1>5. Reached' BY <1>2 DEF Reached
<1>6. Untouched' BY <1>2 DEF Untouched, Fresh
<1>7. Marks' BY DEF Marks
<1>8. Verdicts'
  <2> SUFFICES ASSUME NEW i \in Indices'
               PROVE  LET e == results'[i].name IN
                      /\ results'[i].status = "failed" <=> e \in timedOut \/ process[e] \in {"nonzero", "signal"}
                      /\ results'[i].status = "skipped" <=> e \in excluded /\ ~includeExcluded
                      /\ results'[i].status = "skipped" => process[e] = "absent"
                      /\ results'[i].status = "passed" => process[e] = "zero"
      BY DEF Verdicts, options
  <2>1. CASE i \in Indices BY <1>2, <2>1 DEF Verdicts
  <2>2. CASE i = Len(results) + 1
    <3>1. Fresh(Example) BY <1>2 DEF Untouched
    <3> QED BY <1>2, <2>2, <3>1 DEF Fresh, IsExcluded
  <2> QED BY <1>2, <2>1, <2>2 DEF Indices
<1>9. ExitTells' BY DEF ExitTells
<1> QED BY <1>2, <1>3, <1>4, <1>5, <1>6, <1>7, <1>8, <1>9

LEMMA OnCloseInv == ASSUME NEW c \in Names PROVE IInv /\ OnClose(c) => IInv'
<1> SUFFICES ASSUME IInv, OnClose(c) PROVE IInv'
    OBVIOUS
<1> USE DEF IInv, OnClose, Settled, Ended
<1> DEFINE st == IF HasError(c) THEN "failed" ELSE "passed"
<1>1. ~Over /\ Push(st) /\ st \in Status /\ UNCHANGED options BY DEF Status, Reached
<1> HIDE DEF st
<1>2. /\ results' \in Seq([name : Names, status : Status])
      /\ at' \in 1..(Len(Examples) + 1)
      /\ Len(results') = Len(results) + 1 /\ Len(results) \in Nat
      /\ results'[Len(results) + 1] = [name |-> Example, status |-> st]
      /\ \A i \in Indices : results'[i] = results[i]
      /\ Example \in Names \ Done /\ Done' = Done \cup {Example}
      /\ Progress' /\ (~Over' => Example' \in Selected') /\ Ordered'
    BY <1>1, PushInOrder
<1>3. TypeOK' BY <1>2 DEF TypeOK, options, Disarmed
<1>4. OneAtATime' BY DEF OneAtATime, Disarmed
<1>5. Reached' BY <1>2 DEF Reached
<1>6. Untouched' BY <1>2 DEF Untouched, Fresh, Disarmed
<1>7. Marks' BY DEF Marks
<1>8. Verdicts'
  <2> SUFFICES ASSUME NEW i \in Indices'
               PROVE  LET e == results'[i].name IN
                      /\ results'[i].status = "failed" <=> e \in timedOut \/ process[e] \in {"nonzero", "signal"}
                      /\ results'[i].status = "skipped" <=> e \in excluded /\ ~includeExcluded
                      /\ results'[i].status = "skipped" => process[e] = "absent"
                      /\ results'[i].status = "passed" => process[e] = "zero"
      BY DEF Verdicts, options
  <2>1. CASE i \in Indices BY <1>2, <2>1 DEF Verdicts
  <2>2. CASE i = Len(results) + 1
    <3>1. results'[i].name = c /\ results'[i].status = st BY <1>2, <2>2
    <3>2. st = "failed" <=> c \in timedOut \/ process[c] \in {"nonzero", "signal"}
        BY DEF st, HasError, Marks
    <3>3. st \in {"failed", "passed"} BY DEF st
    <3>4. ~(c \in excluded /\ ~includeExcluded) BY DEF Reached, IsExcluded
    <3> QED BY <3>1, <3>2, <3>3, <3>4
  <2> QED BY <1>2, <2>1, <2>2 DEF Indices
<1>9. ExitTells' BY DEF ExitTells
<1> QED BY <1>2, <1>3, <1>4, <1>5, <1>6, <1>7, <1>8, <1>9

LEMMA SpawnInv == IInv /\ Spawn => IInv'
<1> SUFFICES ASSUME IInv, Spawn PROVE IInv'
    OBVIOUS
<1> USE DEF IInv, Spawn
<1>1. Example \in Names \ Done BY NotDoneYet
<1>2. PICK born \in {"running", "unborn"} : process' = [process EXCEPT ![Example] = born]
    OBVIOUS
<1>3. Fresh(Example) BY <1>1 DEF Untouched
<1>4. UNCHANGED <<Indices, Done, Example, Over, Selected>>
    BY DEF Indices, Done, Example, Over, Selected, options
<1>5. process \in [Names -> ProcessState] BY DEF TypeOK
<1>6. \A e \in Names \ {Example} : process'[e] = process[e] BY <1>2, <1>5
<1>7. TypeOK' BY <1>1, <1>2 DEF TypeOK, options, ProcessState
<1>8. OneAtATime' BY <1>4, <1>6 DEF OneAtATime
<1>9. Reached' BY <1>4 DEF Reached, IsExcluded, options
<1>10. Progress' /\ Ordered' BY <1>4 DEF Progress, Ordered, Before
<1>11. Untouched' BY <1>4, <1>6 DEF Untouched, Fresh
<1>12. Marks' BY <1>3, <1>6 DEF Marks, Fresh, TypeOK
<1>13. Verdicts' BY <1>1, <1>4, <1>6, ResultsOfDone DEF Verdicts, options, TypeOK, Indices
<1>14. ExitTells' BY DEF ExitTells
<1> QED BY <1>7, <1>8, <1>9, <1>10, <1>11, <1>12, <1>13, <1>14

\* What a child does, or its error event, changes the process awaited only.
LEMMA ProcessInv ==
    ASSUME IInv, NEW c \in Names, process[c] \in {"unborn", "running"},
           NEW how \in Ended, process' = [process EXCEPT ![c] = how],
           \/ spawnError' = spawnError
           \/ spawnError' = spawnError \cup {c} /\ how = "nonzero",
           UNCHANGED <<options, at, results, phase, signalled, armed, timedOut, exitStatus>>
    PROVE  IInv'
<1> USE DEF IInv
<1>1. phase = "waiting" /\ c = Example /\ c \notin Done BY Awaited
<1>2. UNCHANGED <<Indices, Done, Example, Over, Selected>>
    BY DEF Indices, Done, Example, Over, Selected, options
<1>3. process \in [Names -> ProcessState] BY DEF TypeOK
<1>4. process'[c] = how /\ \A e \in Names \ {c} : process'[e] = process[e] BY <1>3
<1>5. TypeOK' BY <1>3 DEF TypeOK, options, ProcessState
<1>6. OneAtATime' BY <1>1, <1>2, <1>4 DEF OneAtATime
<1>7. Reached' /\ Progress' /\ Ordered'
    BY <1>2 DEF Reached, Progress, Ordered, Before, IsExcluded, options
<1>8. Untouched' BY <1>1, <1>2, <1>4 DEF Untouched, Fresh
<1>9. Marks' BY <1>4 DEF Marks, TypeOK
<1>10. Verdicts' BY <1>1, <1>2, <1>4, ResultsOfDone DEF Verdicts, options, TypeOK, Indices
<1>11. ExitTells' BY <1>1 DEF ExitTells
<1> QED BY <1>5, <1>6, <1>7, <1>8, <1>9, <1>10, <1>11

LEMMA OnTimeoutInv == ASSUME NEW c \in Names PROVE IInv /\ OnTimeout(c) => IInv'
<1> SUFFICES ASSUME IInv, OnTimeout(c) PROVE IInv'
    OBVIOUS
<1> USE DEF IInv, OnTimeout
<1>1. phase = "waiting" /\ c = Example /\ c \notin Done BY Awaited
<1>2. UNCHANGED <<Indices, Done, Example, Over, Selected>>
    BY DEF Indices, Done, Example, Over, Selected, options
<1>3. TypeOK' BY DEF TypeOK, options
<1>4. OneAtATime' BY <1>2 DEF OneAtATime
<1>5. Reached' /\ Progress' /\ Ordered'
    BY <1>2 DEF Reached, Progress, Ordered, Before, IsExcluded, options
<1>6. Untouched' BY <1>1, <1>2 DEF Untouched, Fresh
<1>7. Marks' BY DEF Marks
<1>8. Verdicts' BY <1>1, <1>2, ResultsOfDone DEF Verdicts, options, Indices
<1>9. ExitTells' BY <1>1 DEF ExitTells
<1> QED BY <1>3, <1>4, <1>5, <1>6, <1>7, <1>8, <1>9

LEMMA CountPositive == ASSUME IInv, NEW st PROVE Count(st) > 0 <=> \E i \in Indices : results[i].status = st
<1> DEFINE S == {i \in Indices : results[i].status = st}
<1>1. Len(results) \in Nat BY DEF IInv, TypeOK
<1>2. IsFiniteSet(S)
  <2>1. IsFiniteSet(Indices) BY <1>1, FS_Interval DEF Indices
  <2>2. S \subseteq Indices OBVIOUS
  <2> HIDE DEF S
  <2> QED BY <2>1, <2>2, FS_Subset
<1>3. Cardinality(S) \in Nat /\ (Cardinality(S) = 0 <=> S = {})
    BY <1>2, FS_CardinalityType, FS_EmptySet
<1>4. Count(st) = Cardinality(S) BY DEF Count, Indices
<1> QED BY <1>3, <1>4

LEMMA ReportInv == IInv /\ Report => IInv'
<1> SUFFICES ASSUME IInv, Report PROVE IInv'
    OBVIOUS
<1> USE DEF IInv, Report, child
<1>1. UNCHANGED <<Indices, Done, Example, Over, Selected>>
    BY DEF Indices, Done, Example, Over, Selected, options
<1>2. TypeOK' BY DEF TypeOK, options, ExitCode
<1>3. OneAtATime' BY DEF OneAtATime
<1>4. Reached' /\ Progress' /\ Ordered'
    BY <1>1 DEF Reached, Progress, Ordered, Before
<1>5. Untouched' BY <1>1 DEF Untouched, Fresh
<1>6. Marks' /\ Verdicts' BY <1>1 DEF Marks, Verdicts, options
<1>7. ExitTells' BY <1>1, CountPositive DEF ExitTells, ExitCode
<1> QED BY <1>2, <1>3, <1>4, <1>5, <1>6, <1>7

LEMMA SpawnThrowsInv == IInv /\ SpawnThrows => IInv'
<1> SUFFICES ASSUME IInv, SpawnThrows PROVE IInv'
    OBVIOUS
<1> USE DEF IInv, SpawnThrows, child
<1>1. UNCHANGED <<Indices, Done, Example, Over, Selected>>
    BY DEF Indices, Done, Example, Over, Selected, options
<1>2. TypeOK' BY DEF TypeOK, options
<1>3. OneAtATime' BY DEF OneAtATime
<1>4. Reached' /\ Progress' /\ Ordered'
    BY <1>1 DEF Reached, Progress, Ordered, Before
<1>5. Untouched' BY <1>1 DEF Untouched, Fresh
<1>6. Marks' /\ Verdicts' BY <1>1 DEF Marks, Verdicts, options
<1>7. ExitTells' BY DEF ExitTells
<1> QED BY <1>2, <1>3, <1>4, <1>5, <1>6, <1>7

LEMMA StutterInv == IInv /\ UNCHANGED vars => IInv'
BY DEF IInv, vars, options, child, TypeOK, OneAtATime, Reached, Progress, Ordered, Untouched, Fresh,
       Marks, Verdicts, ExitTells, Indices, Done, Example, Over, Selected, IsExcluded, Before

LEMMA NextInv == IInv /\ [Next]_vars => IInv'
<1> SUFFICES ASSUME IInv, [Next]_vars PROVE IInv'
    OBVIOUS
<1>1. CASE Skip BY <1>1, SkipInv
<1>2. CASE Spawn BY <1>2, SpawnInv
<1>3. CASE Report BY <1>3, ReportInv
<1>4. CASE SpawnThrows BY <1>4, SpawnThrowsInv
<1>5. ASSUME NEW e \in Names, OnTimeout(e) PROVE IInv' BY <1>5, OnTimeoutInv
<1>6. ASSUME NEW e \in Names, OnClose(e) PROVE IInv' BY <1>6, OnCloseInv
<1>7. ASSUME NEW e \in Names, OnError(e) PROVE IInv'
    BY <1>7, ProcessInv DEF OnError, Ended
<1>8. ASSUME NEW e \in Names, ChildEnds(e) PROVE IInv'
    BY <1>8, ProcessInv DEF ChildEnds, Exit
<1>9. ASSUME NEW e \in Names, ChildObeys(e) PROVE IInv'
    BY <1>9, ProcessInv DEF ChildObeys, Exit
<1>10. CASE UNCHANGED vars BY <1>10, StutterInv
<1> QED BY <1>1, <1>2, <1>3, <1>4, <1>5, <1>6, <1>7, <1>8, <1>9, <1>10 DEF Next, Executor

-----------------------------------------------------------------------------
LEMMA Inductive == Spec => []IInv
BY InitInv, NextInv, PTL DEF Spec

\* Every reachable state has its type.
THEOREM TypeCorrect == Spec => []TypeOK
<1>1. IInv => TypeOK BY DEF IInv
<1> QED BY Inductive, <1>1, PTL

\* executor.ts line 66: whatever children and timers do, two examples never
\* run side by side, and no timer outlives the child it was set for.
THEOREM Isolated == Spec => []OneAtATime
<1>1. IInv => OneAtATime BY DEF IInv
<1> QED BY Inductive, <1>1, PTL

\* executor.ts lines 74 and 169: every verdict is that of its child.
THEOREM VerdictsTrue == Spec => []Truthful
<1>1. IInv => Truthful
  <2> SUFFICES ASSUME IInv, NEW i \in 1..Len(results)
               PROVE  LET e == results[i].name IN
                      /\ results[i].status = "passed" => /\ process[e] = "zero"
                                                         /\ e \notin signalled \cup timedOut \cup spawnError
                      /\ results[i].status = "failed" => process[e] \in {"nonzero", "signal"} \/ e \in timedOut
                      /\ results[i].status = "skipped" => process[e] = "absent"
      BY DEF Truthful
  <2> QED BY DEF IInv, Verdicts, Marks, Indices
<1> QED BY Inductive, <1>1, PTL

\* The report of any list of examples is complete and in order, and the exit
\* status is 1 exactly when some child did not exit with 0 in time.
THEOREM ReportTells == Spec => []ReportComplete
<1>1. IInv => ReportComplete
  <2> SUFFICES ASSUME IInv, phase = "reported" PROVE ReportComplete
      BY DEF ReportComplete
  <2> USE DEF IInv
  <2>1. Over /\ Len(Examples) \in Nat /\ at \in 1..(Len(Examples) + 1)
      BY Listing DEF ExitTells, TypeOK
  <2>2. at - 1 = Len(Examples) BY <2>1 DEF Over
  <2>3. Done = Selected
    <3>1. Selected \subseteq {Examples[k] : k \in 1..(at - 1)} BY <2>2, Listing DEF Selected
    <3> QED BY <3>1 DEF Progress
  <2>4. \A i \in Indices : results[i].status = "skipped" <=> results[i].name \in excluded /\ ~includeExcluded
      BY DEF Verdicts
  <2>5. \A e \in Names : e \in timedOut \/ process[e] \in {"nonzero", "signal"} => e \in Done
      BY DEF Untouched, Fresh
  <2>6. (\E i \in Indices : results[i].status = "failed")
          <=> \E e \in Names : e \in timedOut \/ process[e] \in {"nonzero", "signal"}
    <3>1. Done \subseteq Names BY <2>3 DEF Selected
    <3> QED BY <2>5, <3>1, ResultsOfDone DEF Verdicts, Done
  <2>7. exitStatus = 1 <=> timedOut # {} \/ \E e \in Names : process[e] \in {"nonzero", "signal"}
      BY <2>6 DEF ExitTells, TypeOK
  <2> QED BY <2>3, <2>4, <2>7 DEF ReportComplete, Done, Indices, Ordered
<1> QED BY Inductive, <1>1, PTL
=============================================================================
