------------------------------- MODULE PageWalk -------------------------------
(***************************************************************************)
(* The functions that walk a collection of Horizon or of Soroban RPC page  *)
(* by page, each with its own way to stop:                                 *)
(*  - 157 paginateHorizonCollection: no record twice, a limit of records,  *)
(*    a predicate that stops it, an error is part of its result;           *)
(*  - 187 paginateSorobanRpc: a limit of pages, cursors noticed again;     *)
(*  - 121 paginateAccountOperations: no record twice, one type, a limit;   *)
(*  - 258 retrieveAndFilterTransactions: a limit of pages, errors dropped; *)
(*  - 169 fetchAllHolders: a limit of records, an error in its result;     *)
(*  -  30 run: a limit of records;                                         *)
(*  -  66 retrieveLedgerEffects: a limit, and one record more to tell;     *)
(*  - 210 run: the events of a range of ledgers, to the first short page;  *)
(*  - 209 run: the events as they come, until it is interrupted.           *)
(* A record is its place in the collection and the cursor after it.  What  *)
(* is done with a page between two awaits is one step.                     *)
(***************************************************************************)
EXTENDS Integers, Sequences, FiniteSets, SequencesExt

CONSTANTS
    N,          \* bound: the collection has at most N records
    PageSize,   \* records of a full page
    MaxRecords, \* maxRecords, maxHolders, MAX_RECORDS
    MaxPages,   \* maxPages
    Wanted,     \* the records of operationType (121)
    MaxFaults   \* bound: how often the server changes its manners, or fails

ASSUME WalkAssumption ==
    /\ N \in Nat /\ PageSize \in Nat \ {0} /\ MaxFaults \in Nat
    /\ MaxRecords \in Nat \ {0} /\ MaxPages \in Nat \ {0}
    /\ Wanted \subseteq 1..N

VARIABLES
    walker,     \* which of the nine
    stop,       \* the record at which shouldStop is true (157), 0 for none
    head,       \* the records the collection has
    manners,    \* how the server answers
    faults,     \* changes of manners, failures
    after,     \* the cursor of the request under way, 0 for none
    begin,      \* where the latest page began (history)
    known,      \* head at the latest answer (history)
    pages,      \* pagesProcessed of 187, pagesFetched of 258
    last,       \* lastCursor
    seen,       \* the records seen (157, 121), the cursors used (187)
    kept,       \* the records returned, in order
    status      \* what the caller is told, "walking" before

server == <<head, manners, faults>>
walk == <<walker, stop, server, after, begin, known, pages, last, seen, kept, status>>

Walkers == {157, 187, 121, 258, 169, 30, 66, 210, 209}
EventReaders == {187, 210, 209}  \* they ask getEvents,
Replayers == {210, 209}          \* and send their startLedger along with every cursor

Statuses == {"walking", "completed", "empty", "returned", "error", "failed", "truncated", "stopped",
             "max_records_reached", "early_termination", "repeated_cursor", "max_pages_reached"}

WalkInit == /\ walker \in Walkers
            /\ stop \in IF walker = 157 THEN 0..N ELSE {0}
            /\ head \in 0..N /\ manners = "honest" /\ faults = 0
            /\ after = 0 /\ begin = 0 /\ known = 0
            /\ pages = 0 /\ last = 0 /\ seen = {} /\ kept = <<>>
            /\ status = "walking"

-----------------------------------------------------------------------------
(* the server                                                              *)

\* Records are added at the far end of a walk in ascending order.  (169 walks
\* in the order of the accounts' names, where a holder may be added anywhere:
\* its collection stays as it is.)
Grow == /\ status = "walking" /\ walker \in {187, 121, 209}
        /\ head < N
        /\ head' = head + 1
        /\ UNCHANGED <<walker, stop, manners, faults, after, begin, known, pages, last, seen, kept, status>>

\* An honest server goes on after the cursor; others serve the latest page
\* again, or any page that is not beyond the cursor.  getEvents may search
\* only so many ledgers for a page, which then holds fewer events or none,
\* with events still to come; and it may refuse a cursor that comes with a
\* startLedger.  (No page comes again to the replayers, which would not
\* notice.)
Manners == {"honest"} \cup (IF walker \in EventReaders THEN {"windows"} ELSE {})
                      \cup (IF walker \in Replayers THEN {"strict"} ELSE {"same", "old"})

Behave == /\ status = "walking"
          /\ faults < MaxFaults
          /\ faults' = faults + 1
          /\ manners' \in Manners \ {manners}
          /\ UNCHANGED <<walker, stop, head, after, begin, known, pages, last, seen, kept, status>>

Beginnings == CASE manners = "same" -> {begin}
                [] manners = "old" -> 0..after
                [] OTHER -> {after}

\* Where the page that begins after b ends.
End(b) == IF b + PageSize <= head THEN b + PageSize ELSE head
Between(b, e) == [i \in 1..(e - b) |-> b + i]
Page(b) == Between(b, End(b))
Reaches(b) == IF manners = "windows" THEN b..End(b) ELSE {End(b)}

Refused == walker \in Replayers /\ manners = "strict" /\ after # 0

-----------------------------------------------------------------------------
(* what the walkers have in common                                         *)

EndsWith(s) == status' = s /\ UNCHANGED after

\* An answer was processed and the next page is asked for.
GoOn(c) == status' = "walking" /\ after' = c

FreshOrNot(records) == records                                \* mutant

\* The records that are in S, in their order (a SelectSeq the proofs can expand).
Those(records, S) ==
    LET chosen == {i \in DOMAIN records : records[i] \in S}
    IN  [n \in 1..Cardinality(chosen) |->
            records[CHOOSE i \in chosen : Cardinality({j \in chosen : j <= i}) = n]]

\* The records that were not seen before.
Fresh(records) == Those(records, (1..N) \ seen)

\* As many as the limit still allows.
Room(records) == IF Len(records) <= MaxRecords - Len(kept) THEN records
                 ELSE SubSeq(records, 1, MaxRecords - Len(kept))

\* The cursor after the last record of the page.
NextCursor(b) == End(b)

RepeatedNever(c) == FALSE                                     \* mutant

\* The paging token that ended the page before.
Repeated(c) == c = last

-----------------------------------------------------------------------------
(* the walkers, each with a page that begins after b                       *)

UpToStop(records) == IF stop \in ToSet(records)
                     THEN Those(records, 1..stop) ELSE records

\* 157: the limit is looked at before a record, the predicate after it.
Collection(b) ==
    LET taken == UpToStop(Room(Fresh(Page(b))))
    IN  /\ kept' = kept \o taken
        /\ seen' = seen \cup ToSet(taken)
        /\ IF Page(b) = <<>> THEN EndsWith("completed")
           ELSE IF stop \in ToSet(taken) THEN EndsWith("early_termination")
           ELSE IF Len(kept') >= MaxRecords THEN EndsWith("max_records_reached")
           ELSE GoOn(NextCursor(b))
        /\ UNCHANGED <<pages, last>>

\* 187: a cursor that was used before is noticed when its page is there.
Rpc(b, e, next) ==
    /\ pages' = pages + 1
    /\ UNCHANGED last
    /\ IF after # 0 /\ after \in seen
       THEN EndsWith("repeated_cursor") /\ UNCHANGED <<seen, kept>>
       ELSE /\ seen' = seen \cup ({after} \ {0})
            /\ kept' = kept \o Between(b, e)
            /\ IF e = b THEN EndsWith("empty")
               ELSE IF next = 0 THEN EndsWith("completed")
               ELSE IF next = after THEN EndsWith("repeated_cursor")
               ELSE IF pages' >= MaxPages
                    THEN status' = "max_pages_reached" /\ after' = next
               ELSE GoOn(next)

\* The cursor that an RPC page names: none, when nothing is left.
Named(e) == {e} \cup IF e = head THEN {0} ELSE {}

\* 121: the type is looked at after the record counts as seen.  (The records
\* beyond the limit, which it does not look at, end the walk anyway.)
Operations(b) ==
    /\ kept' = kept \o Room(Those(Fresh(Page(b)), Wanted))
    /\ seen' = seen \cup ToSet(Page(b))
    /\ IF Page(b) = <<>> \/ Len(kept') >= MaxRecords \/ Repeated(NextCursor(b))
       THEN EndsWith("returned") /\ UNCHANGED last
       ELSE GoOn(NextCursor(b)) /\ last' = NextCursor(b)
    /\ UNCHANGED pages

\* 258: the records of all pages, filtered when the walk is over.  An empty
\* page counts as the first one only.
History(b) ==
    /\ kept' = kept \o Page(b)
    /\ pages' = IF Page(b) = <<>> /\ pages > 0 THEN pages ELSE pages + 1
    /\ IF Page(b) = <<>> \/ pages' >= MaxPages \/ Repeated(NextCursor(b))
       THEN EndsWith("returned") /\ UNCHANGED last
       ELSE GoOn(NextCursor(b)) /\ last' = NextCursor(b)
    /\ UNCHANGED seen

\* 169: what a page holds beyond the limit is cut off.
Holders(b) ==
    /\ kept' = kept \o Room(Page(b))
    /\ IF Page(b) = <<>> THEN EndsWith("completed")
       ELSE IF Len(kept') >= MaxRecords THEN EndsWith("truncated")
       ELSE GoOn(NextCursor(b))
    /\ UNCHANGED <<pages, last, seen>>

\* 30
Traverse(b) ==
    /\ kept' = kept \o Room(Page(b))
    /\ IF Page(b) = <<>> \/ Len(kept') >= MaxRecords THEN EndsWith("returned")
       ELSE GoOn(NextCursor(b))
    /\ UNCHANGED <<pages, last, seen>>

\* 66: one record beyond the limit tells that there are more.
Effects(b) ==
    LET collected == kept \o Page(b)
    IN  /\ IF Len(collected) > MaxRecords
           THEN EndsWith("truncated") /\ kept' = SubSeq(collected, 1, MaxRecords)
           ELSE /\ kept' = collected
                /\ IF Len(Page(b)) < PageSize THEN EndsWith("completed") ELSE GoOn(NextCursor(b))
        /\ UNCHANGED <<pages, last, seen>>

\* The records in ascending order (a SortSeq the proofs can expand).
Sorted(records) ==
    LET UpTo(i) == {j \in DOMAIN records : \/ records[j] < records[i]
                                           \/ records[j] = records[i] /\ j <= i}
    IN  [n \in DOMAIN records |->
            records[CHOOSE i \in DOMAIN records : Cardinality(UpTo(i)) = n]]

\* 210: what was found is sorted in the end.
Replay(b, e) ==
    /\ IF e - b < PageSize
       THEN EndsWith("returned") /\ kept' = Sorted(kept \o Between(b, e))
       ELSE GoOn(e) /\ kept' = kept \o Between(b, e)
    /\ UNCHANGED <<pages, last, seen>>

\* 209: the cursor moves on with a page that holds events.
Watch(b, e) ==
    /\ kept' = kept \o Between(b, e)
    /\ GoOn(IF e = b THEN after ELSE e)
    /\ UNCHANGED <<pages, last, seen>>

Answer == /\ status = "walking" /\ ~Refused
          /\ \E b \in Beginnings :
                /\ begin' = b /\ known' = head
                /\ \/ walker = 157 /\ Collection(b)
                   \/ walker = 187 /\ \E e \in Reaches(b) : \E next \in Named(e) : Rpc(b, e, next)
                   \/ walker = 121 /\ Operations(b)
                   \/ walker = 258 /\ History(b)
                   \/ walker = 169 /\ Holders(b)
                   \/ walker = 30 /\ Traverse(b)
                   \/ walker = 66 /\ Effects(b)
                   \/ walker = 210 /\ \E e \in Reaches(b) : Replay(b, e)
                   \/ walker = 209 /\ \E e \in Reaches(b) : Watch(b, e)
          /\ UNCHANGED <<walker, stop, server>>

ErrorStatusForgotten ==                                       \* mutant
    CASE walker \in {157, 169} -> "completed"
      [] walker = 258 /\ pages > 0 -> "returned"
      [] walker = 209 -> "walking"
      [] OTHER -> "failed"

\* 157 and 169 return the error with what they have, 258 what it has without
\* the error, unless the first page fails; 209 asks again after a pause; the
\* others throw.
ErrorStatus == CASE walker \in {157, 169} -> "error"
                 [] walker = 258 /\ pages > 0 -> "returned"
                 [] walker = 209 -> "walking"
                 [] OTHER -> "failed"

\* The request fails, or is overtaken by the timer of 157 and 187: the answer
\* to it, if one still comes, is not looked at.
RequestFails == /\ status = "walking"
                /\ faults < MaxFaults
                /\ faults' = faults + 1
                /\ EndsWith(ErrorStatus)
                /\ UNCHANGED <<walker, stop, head, manners, begin, known, pages, last, seen, kept>>

\* The strict server answers with an error.
Refuse == /\ status = "walking" /\ Refused
          /\ EndsWith(ErrorStatus)
          /\ UNCHANGED <<walker, stop, server, begin, known, pages, last, seen, kept>>

\* SIGINT: 209 handles the page it waits for, if any, and stops.
Interrupt == /\ status = "walking" /\ walker = 209
             /\ EndsWith("stopped")
             /\ UNCHANGED <<walker, stop, server, begin, known, pages, last, seen, kept>>

WalkNext == Grow \/ Behave \/ Answer \/ RequestFails \/ Refuse \/ Interrupt

\* A request is answered, or it fails; the server owes nothing else.
WalkSpec == WalkInit /\ [][WalkNext]_walk /\ WF_walk(Answer \/ Refuse)

-----------------------------------------------------------------------------
(* properties                                                              *)

WalkTypeOK == /\ walker \in Walkers /\ stop \in 0..N
              /\ head \in 0..N /\ manners \in Manners /\ faults \in 0..MaxFaults
              /\ after \in 0..N /\ begin \in 0..after /\ known \in 0..head
              /\ pages \in 0..MaxPages /\ last \in 0..N
              /\ seen \subseteq 1..N /\ kept \in Seq(1..N)
              /\ status \in Statuses

\* What is returned are the records of the collection in its order.  None is
\* left out before one that is there, by any walker, however the server
\* repeats itself; none is there twice, in 157 (line 138) and 121 (line 133)
\* whatever the server sends, in the others as long as it goes on after the
\* cursor, while records are added.
NoSkip == \A r \in ToSet(kept) : \A q \in 1..(r - 1) :
    q \in ToSet(kept) \/ (walker = 121 /\ q \notin Wanted)
NoRepeat == \A i \in 1..(Len(kept) - 1) : kept[i] < kept[i + 1]
Unbroken == NoSkip /\ (walker \in {157, 121} \/ faults = 0 => NoRepeat)

\* The caller is told the truth: the whole collection was returned
\* (157: line 161, 187: lines 168 and 183, 169: line 385), or what cut the
\* walk short did; a cursor is called repeated only if the server repeated
\* itself (187: lines 127 and 189).  66 tells "exactly the limit" from "cut
\* short" (66: line 798).  187 calls empty (line 159) what may be no more than
\* a window without events.  121, 258, 30 and 210 tell nothing: what they
\* return is everything, or as much as the limit allows, unless the server
\* failed, repeated itself or searched in windows.  The cursor that 209 names
\* in the end (209: line 67) is that of the last event it printed.
Everything == \A r \in 1..known : r \in ToSet(kept) \/ (walker = 121 /\ r \notin Wanted)
Truthful ==
    /\ status = "completed" => Everything
    /\ status = "empty" => Everything \/ manners = "windows"
    /\ status \in {"max_records_reached", "truncated"} =>
           Len(kept) = MaxRecords /\ (walker = 66 /\ faults = 0 => known > MaxRecords)
    /\ status = "max_pages_reached" => pages = MaxPages /\ after \in ToSet(kept)
    /\ status = "early_termination" =>
           Len(kept) <= MaxRecords /\ \A i \in 1..Len(kept) : kept[i] = stop <=> i = Len(kept)
    /\ status \in {"repeated_cursor", "error", "failed"} => faults > 0
    /\ status = "returned" /\ faults = 0 =>
           \/ Everything
           \/ walker = 258 /\ pages = MaxPages
           \/ walker \in {121, 30} /\ Len(kept) = MaxRecords
    /\ status = "stopped" => kept = Between(0, after)

\* What can hold a walk for ever: 157 does not notice that a page holds
\* nothing new, and 121 compares a cursor with the one before it only.  209
\* goes on asking a server that refuses its requests, and for the same window
\* if nothing happened in it.
Stuck == \/ walker = 157 /\ manners # "honest"
         \/ walker = 121 /\ manners = "old"
         \/ walker = 209 /\ manners # "honest"

\* Every walk ends, unless the server holds it for ever (157: line 128, 121:
\* line 156); only 209 may go on without, and then prints every event there
\* is (209: lines 30 to 64).
Ends == \/ <>(status # "walking")
        \/ <>[]Stuck
        \/ walker = 209 /\ <>[](kept = Between(0, head))
=============================================================================
