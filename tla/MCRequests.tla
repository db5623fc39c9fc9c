------------------------------ MODULE MCRequests ------------------------------
(* What a program does about its requests to Horizon and Soroban RPC: the    *)
(* sequence numbers of its transactions, the recovery of one that paid too   *)
(* little, the loops around a request, the walks over pages.  None reads     *)
(* what another does: each is run alone, the others waiting, once a walk     *)
(* over an empty collection is over.                                         *)
EXTENDS LocalSequenceManager, FeeBumpRecovery, TransactionPolling, PageWalk

VARIABLE part

Parts == {"sequence", "recovery", "polling", "walk"}
all == <<part, sequencing, recovery, vars, walk>>

MCInit ==
    /\ part \in Parts
    /\ SequenceInit /\ (part # "sequence" => habits = {"orderly"})
    /\ RecoveryInit /\ (part # "recovery" => innerBaseFee = 1 /\ bumpBaseFee = 1 /\ price = 1)
    /\ Init /\ (part # "polling" => loop = "request" /\ fate = "PENDING")
    /\ WalkInit /\ (part # "walk" => walker = 30 /\ head = 0)

Alone == status # "walking"

MCNext == /\ \/ part = "sequence" /\ Alone /\ SequenceNext /\ UNCHANGED <<recovery, vars, walk>>
             \/ part = "recovery" /\ Alone /\ RecoveryNext /\ UNCHANGED <<sequencing, vars, walk>>
             \/ part = "polling" /\ Alone /\ Next /\ UNCHANGED <<sequencing, recovery, walk>>
             \/ part = "walk" /\ WalkNext /\ UNCHANGED <<sequencing, recovery, vars>>
             \/ part # "walk" /\ Answer /\ UNCHANGED <<sequencing, recovery, vars>>
          /\ UNCHANGED part

MCSpec == MCInit /\ [][MCNext]_all /\ WF_walk(Answer \/ Refuse)
=============================================================================
