--------------------------- MODULE FeeBumpRecovery ---------------------------
(***************************************************************************)
(* src/examples/96-fee-bump-recovery-workflow.ts: a payment is submitted   *)
(* with a low fee; when it is not confirmed the signed transaction is      *)
(* wrapped into a fee-bump transaction with a higher fee and submitted     *)
(* again.  The network may refuse, include, lose or delay either envelope, *)
(* Horizon shows what was included some time later, and both envelopes     *)
(* spend the same sequence number.                                         *)
(***************************************************************************)
EXTENDS Integers, FiniteSets

CONSTANTS
    Fees,       \* the base fees one may configure, and the network may ask
    OpsMayFail  \* the payment operation itself may fail when included

ASSUME FeesAssumption == Fees \subseteq Nat \ {0} /\ OpsMayFail \in BOOLEAN

VARIABLES
    phase,         \* where run() is
    innerBaseFee, bumpBaseFee,
    price,      \* the base fee the network asks for now
    flying,     \* the envelopes the network may still include
    included,   \* the envelopes in the ledger, each with its success
    visible,    \* the envelopes Horizon has ingested
    expired,    \* the 30 s time bound of the inner transaction has passed
    spent,      \* the sequence numbers the ledger has consumed
    confirmed   \* originalConfirmed

fees == <<innerBaseFee, bumpBaseFee>>
outside == <<price, flying, included, visible, expired, spent>>
recovery == <<phase, fees, outside, confirmed>>

Envelope == {"inner", "bump"}
Included == {r.env : r \in included}
FeeOf(env) == IF env = "inner" THEN innerBaseFee ELSE bumpBaseFee

SequenceOfRebuilt(env) == env                                 \* mutant

\* Both envelopes carry the inner transaction, so both spend its sequence.
SequenceOf(env) == "inner"

Returned == {"confirmed", "confirmed after all", "replaced"}
Waiting == {"submitted", "delay", "lookup", "verify", "bumped", "confirm"}

\* The run up to its first submission: fees read, accounts funded and loaded.
\* A bump below the original fee throws.
RecoveryInit == /\ innerBaseFee \in Fees /\ bumpBaseFee \in Fees
                /\ phase = IF bumpBaseFee < innerBaseFee THEN "threw" ELSE "submit"
                /\ price \in Fees
                /\ flying = {} /\ included = {} /\ visible = {} /\ spent = {}
                /\ expired = FALSE
                /\ confirmed = FALSE

Goto(p) == phase' = p

-----------------------------------------------------------------------------
(* the network                                                             *)

\* The ledger takes an envelope: its sequence is spent, whether or not the
\* payment succeeds.
Include(env) == /\ SequenceOf(env) \notin spent
                /\ ~expired
                /\ FeeOf(env) >= price
                /\ \E ok \in {TRUE} \cup {~OpsMayFail} :
                       included' = included \cup {[env |-> env, ok |-> ok]}
                /\ spent' = spent \cup {SequenceOf(env)}

IncludeLate == \E env \in flying :
    /\ Include(env)
    /\ flying' = flying \ {env}
    /\ UNCHANGED <<phase, fees, price, visible, expired, confirmed>>

Lose == \E env \in flying :
    /\ flying' = flying \ {env}
    /\ UNCHANGED <<phase, fees, price, included, visible, expired, spent, confirmed>>

Ingest == \E env \in Included \ visible :
    /\ visible' = visible \cup {env}
    /\ UNCHANGED <<phase, fees, price, flying, included, expired, spent, confirmed>>

PriceMoves == \E p \in Fees \ {price} :
    /\ price' = p
    /\ UNCHANGED <<phase, fees, flying, included, visible, expired, spent, confirmed>>

Expire == /\ ~expired /\ phase # "submit"
          /\ expired' = TRUE
          /\ UNCHANGED <<phase, fees, price, flying, included, visible, spent, confirmed>>

-----------------------------------------------------------------------------
(* run()                                                                   *)

\* Step 2: submit the original.
Submit == /\ phase = "submit"
          /\ flying' = flying \cup {"inner"}
          /\ Goto("submitted")
          /\ UNCHANGED <<fees, price, included, visible, expired, spent, confirmed>>

\* Horizon answers that the transaction is in the ledger and succeeded.
OriginalAccepted == /\ phase = "submitted"
                    /\ [env |-> "inner", ok |-> TRUE] \in included
                    /\ confirmed' = TRUE
                    /\ Goto("confirmed")
                    /\ UNCHANGED <<fees, outside>>

\* tx_failed, tx_bad_fee or tx_bad_auth: a candidate for recovery.
OriginalFailed == /\ phase = "submitted"
                  /\ \/ [env |-> "inner", ok |-> FALSE] \in included /\ UNCHANGED outside
                     \/ /\ "inner" \in flying
                        /\ flying' = flying \ {"inner"}
                        /\ UNCHANGED <<price, included, visible, expired, spent>>
                  /\ Goto("verify")
                  /\ UNCHANGED <<fees, confirmed>>

\* Any other answer, or none at all: the envelope may still be flying.
OriginalUnknown == /\ phase = "submitted"
                   /\ Goto("delay")
                   /\ UNCHANGED <<fees, outside, confirmed>>

\* The 1.5 s before the first look.
FirstDelay == /\ phase = "delay"
              /\ Goto("lookup")
              /\ UNCHANGED <<fees, outside, confirmed>>

ConfirmedUnlessGone == ~expired \/ "inner" \in visible        \* mutant

\* isTransactionConfirmed: Horizon knows the hash.  A fee bump is found under
\* the hash of its inner transaction too, but none was submitted yet.
IsTransactionConfirmed == "inner" \in visible

Lookup == /\ phase = "lookup"
          /\ confirmed' = IsTransactionConfirmed
          /\ Goto(IF IsTransactionConfirmed THEN "confirmed" ELSE "verify")
          /\ UNCHANGED <<fees, outside>>

\* Any error of a lookup but 404 ends the run.
LookupThrows == /\ phase \in {"lookup", "verify", "confirm"}
                /\ Goto("threw")
                /\ UNCHANGED <<fees, outside, confirmed>>

\* Step 3: look again, and only then build and submit the fee bump (4, 5).
Verify == /\ phase = "verify"
          /\ IF IsTransactionConfirmed
             THEN Goto("confirmed after all") /\ UNCHANGED flying
             ELSE Goto("bumped") /\ flying' = flying \cup {"bump"}
          /\ UNCHANGED <<fees, price, included, visible, expired, spent, confirmed>>

\* Step 5 answers with success only for an included, successful bump.
BumpAccepted == /\ phase = "bumped"
                /\ [env |-> "bump", ok |-> TRUE] \in included
                /\ Goto("confirm")
                /\ UNCHANGED <<fees, outside, confirmed>>

\* Everything else throws: refused, a bad sequence, a failed payment, a
\* timeout after which the bump may still be included.
BumpThrows == /\ phase = "bumped"
              /\ Goto("threw")
              /\ UNCHANGED <<fees, outside, confirmed>>

\* Step 6: the replacement is looked up once; not found throws.
Confirm == /\ phase = "confirm"
           /\ Goto(IF "bump" \in visible THEN "replaced" ELSE "threw")
           /\ UNCHANGED <<fees, outside, confirmed>>

Step == \/ Submit \/ OriginalAccepted \/ OriginalFailed \/ OriginalUnknown \/ FirstDelay
        \/ Lookup \/ LookupThrows \/ Verify \/ BumpAccepted \/ BumpThrows \/ Confirm

RecoveryNext == \/ Step
                \/ IncludeLate \/ Lose \/ Ingest \/ PriceMoves \/ Expire

RecoverySpec == RecoveryInit /\ [][RecoveryNext]_recovery

-----------------------------------------------------------------------------
(* properties                                                              *)

RecoveryTypeOK == /\ phase \in {"submit", "threw"} \cup Waiting \cup Returned
                  /\ innerBaseFee \in Fees /\ bumpBaseFee \in Fees /\ price \in Fees
                  /\ flying \subseteq Envelope /\ visible \subseteq Included
                  /\ included \subseteq [env : Envelope, ok : BOOLEAN]
                  /\ expired \in BOOLEAN /\ confirmed \in BOOLEAN
                  /\ spent \subseteq Envelope

\* The destination is paid at most once, whenever the network includes which
\* envelope: the bump wraps the signed inner transaction (line 189).
PaidAtMostOnce == Cardinality(included) <= 1

\* A run that returns has paid: "confirmed on ledger" (163), "confirmed after
\* all. No replacement needed." (173), "Replacement transaction confirmed."
ReturnMeansPaid == phase \in Returned => \E r \in included : r.ok

=============================================================================
