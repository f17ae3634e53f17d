--------------------------- MODULE EvidencePolicy ---------------------------
(***************************************************************************)
(* The evidence vocabulary (agents/evidence/evidence.py) and the policy    *)
(* that decides which records let an opportunity advance                   *)
(* (agents/evidence/evidence_policy.py).  Only pure operators: the table   *)
(* that keeps the records is in EvidenceStore, the tracker that asks the   *)
(* policy is in OpportunityLifecycle.                                      *)
(*                                                                         *)
(* A record keeps the fields the policy reads: its id, the opportunity it  *)
(* is about, its type, status, verification level and method, and its      *)
(* amount.                                                                 *)
(***************************************************************************)
EXTENDS Integers

Statuses == {"UNVERIFIED", "PARTIALLY_VERIFIED", "VERIFIED",
             "REJECTED", "CONFLICTED", "EXPIRED"}

\* EvidenceStatus.is_affirmative
Affirmative == {"VERIFIED", "PARTIALLY_VERIFIED"}

\* VerificationLevel, a totally ordered trust scale
L1 == 1     \* SELF_REPORTED
L2 == 2     \* LOCAL_VALIDATION
L3 == 3     \* EXTERNAL_SOURCE
L4 == 4     \* INDEPENDENT_VERIFICATION
L5 == 5     \* CRYPTOGRAPHIC
Levels == 0 .. L5

\* TRANSITION_PAYMENT_EVIDENCE_TYPES
PaymentSlot == {"payment_confirmation", "payment_gross", "balance_delta",
                "platform_transaction", "manual_attestation",
                "external_reconciliation"}

IndependentMethods == {"external_reconciliation", "authenticated_api_response",
                       "authenticated_api_lookup", "api_response",
                       "platform_transaction", "blockchain_transaction_receipt",
                       "blockchain_balance_delta"}

ManualMethods == {"manual_attestation", "human_confirmation"}

-----------------------------------------------------------------------------
(* The registry of required evidence: one set of acceptable types per slot. *)

Require(slots, minLevel, manual) ==
  [slots |-> slots, minLevel |-> minLevel, allowManual |-> manual]

Transitions == {"DISCOVERED->RESEARCHED", "RESEARCHED->QUEUED",
                "QUEUED->APPLIED", "APPLIED->IN_PROGRESS",
                "IN_PROGRESS->SUBMITTED", "SUBMITTED->PAID",
                "CLAIMED->REVENUE_REALIZED", "PENDING->PAID_MANUAL"}

Requirement(t) ==
  CASE t \in {"DISCOVERED->RESEARCHED", "RESEARCHED->QUEUED"} ->
            Require({{"discovery", "research_summary"}}, L1, TRUE)
    [] t = "QUEUED->APPLIED" -> Require({{"application"}}, L2, TRUE)
    [] t = "APPLIED->IN_PROGRESS" -> Require({{"application"}}, L2, FALSE)
    [] t = "IN_PROGRESS->SUBMITTED" ->
            Require({{"platform_submission"}}, L3, FALSE)
    [] t = "SUBMITTED->PAID" ->
            Require({{"platform_submission"}, {"completion_confirmation"},
                     PaymentSlot}, L3, FALSE)
    [] t = "CLAIMED->REVENUE_REALIZED" ->
            Require({{"balance_delta", "transaction_receipt"}}, L5, FALSE)
    [] t = "PENDING->PAID_MANUAL" ->
            Require({{"manual_attestation"}}, L1, TRUE)

SlotSatisfied(slot, req, evs) ==
  \E ev \in evs :
     /\ ev.type \in slot
     /\ ev.status \in Affirmative
     /\ \/ ev.level >= req.minLevel
        \/ req.allowManual /\ ev.method \in ManualMethods

\* An unregistered transition is never eligible.
IsTransitionEligible(t, evs) ==
  /\ t \in Transitions
  /\ \A slot \in Requirement(t).slots : SlotSatisfied(slot, Requirement(t), evs)

\* The two chains either of which lets the tracker book a payout.
PayoutEligible(evs) == \/ IsTransitionEligible("SUBMITTED->PAID", evs)
                       \/ IsTransitionEligible("CLAIMED->REVENUE_REALIZED", evs)

\* Evidence.is_verified: affirmative at or above the external-source floor
IsVerified(ev) == ev.status \in Affirmative /\ ev.level >= L3

-----------------------------------------------------------------------------
(* reconcile(): the only path that turns a non-affirmative record into an   *)
(* affirmative one.  The code asks for the method only, not for the state   *)
(* the record is in.                                                        *)
Reconcile(ev, method) ==
  IF method \in IndependentMethods
  THEN [ev EXCEPT !.status = "VERIFIED", !.method = method, !.level = L4]
  ELSE ev
=============================================================================
