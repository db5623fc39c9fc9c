--------------------------- MODULE MCReliableScan ---------------------------
(***************************************************************************)
(* Two instances of ReliableScan in one run, told apart by the slots that  *)
(* are ever used:                                                          *)
(*  - alone: one process, two scopes with different histories, transient   *)
(*    errors and retries;                                                  *)
(*  - together: two processes on the checkpoint of one scope, against the  *)
(*    documented advice, over the first two records and without retries,   *)
(*    which touch nothing the other process can see.                       *)
(***************************************************************************)
EXTENDS ReliableScan, TLC

CONSTANTS a, b, s1, s2, p1, p2

\* s1 repeats an identity (on one page or on two, as the pages fall); s2 has
\* a gap that does not match the query and a record without an identity.
MCHistory == (s1 :> <<a, b, a>>) @@ (s2 :> <<Skip, a, NoId>>)

VARIABLE used   \* the slots this instance uses

Alone == used = {p1}

MCInit == /\ Init
          /\ used \in {{p1}, {p1, p2}}
          /\ scope[p2] = s1
          /\ ~Alone => scope[p1] = s1

\* What the next state of the instance may be.
Within == IF Alone THEN pc'[p2] = "idle"
          ELSE /\ head'[s1] <= 2 /\ head'[s2] = 0
               /\ \A p \in Procs : scope'[p] = s1 /\ pc'[p] # "backoff"

MCNext == Next /\ Within /\ UNCHANGED used

\* RunStep is never disabled by Within while it is enabled: a fetch that
\* could fail transiently can also succeed.
MCSpec == MCInit /\ [][MCNext]_<<vars, used>> /\ \A p \in Procs : WF_vars(RunStep(p))
=============================================================================
