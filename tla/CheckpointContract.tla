------------------------- MODULE CheckpointContract -------------------------
(***************************************************************************)
(* What a checkpoint promises the operator of a resumable scan: a cursor   *)
(* is published only when everything at or before it has been delivered.   *)
(* "Checkpoint guarantees" of examples/reliable-lifecycle-workflows.md     *)
(* words it as at-least-once delivery.  Nothing is said of pages, retries, *)
(* processes, temporary files or crashes: ReliableScan implements it.      *)
(***************************************************************************)
EXTENDS Integers

CONSTANTS
    Scopes,      \* what a checkpoint is bound to: endpoint, network, filter
    N,           \* the last position of the history that a run can see
    IdOf,        \* IdOf[s][q]: the stable identity of the record at q
    Skip,        \* IdOf[s][q] = Skip: nothing at q matches the query
    Fresh        \* there is no usable checkpoint

VARIABLES
    delivered,   \* delivered[s]: the identities handed to the caller so far
    committed    \* Fresh, or the scope and cursor a later run resumes from

vars == <<delivered, committed>>

Covered(s, c) == \A q \in 1..c : IdOf[s][q] \in delivered[s] \cup {Skip}

Init == /\ delivered = [s \in Scopes |-> {}]
        /\ committed = Fresh

Deliver == \E s \in Scopes, q \in 1..N :
    /\ IdOf[s][q] # Skip
    /\ delivered' = [delivered EXCEPT ![s] = @ \cup {IdOf[s][q]}]
    /\ UNCHANGED committed

Commit == \E s \in Scopes, c \in 1..N :
    /\ Covered(s, c)
    /\ committed' = [scope |-> s, cursor |-> c]
    /\ UNCHANGED delivered

\* The operator removes the checkpoint, or edits it so that it is refused.
Reset == /\ committed' = Fresh
         /\ UNCHANGED delivered

Next == Deliver \/ Commit \/ Reset

Spec == Init /\ [][Next]_vars
=============================================================================
