----------------------------- MODULE MCLifecycle -----------------------------
(***************************************************************************)
(* The instance of OpportunityLifecycle for TLC: one opportunity with      *)
(* every kind of evidence the producers deliver, whose payout records      *)
(* share the id "".                                                        *)
(***************************************************************************)
EXTENDS OpportunityLifecycle

CONSTANT o1

Ev(id, o, type, status, level, method, amount) ==
  [id |-> id, subject |-> o, type |-> type, status |-> status,
   level |-> level, method |-> method, amount |-> amount]

\* from_upwork_submission, accepted or answered with an error
Submission(id, o, ok) ==
  IF ok THEN Ev(id, o, "platform_submission", "VERIFIED", L3, "api_response", 0)
  ELSE Ev(id, o, "platform_submission", "CONFLICTED", L1, "api_response", 0)

Completion(id, o) ==
  Ev(id, o, "completion_confirmation", "UNVERIFIED", L1, "human_confirmation", 0)

\* from_verification_evidence: the three methods of the payout verifier
OnChain(o, ok, amount) ==
  Ev("", o, "balance_delta", IF ok THEN "VERIFIED" ELSE "UNVERIFIED", L5,
     "blockchain_balance_delta", amount)
Reference(o) ==
  Ev("", o, "manual_attestation", "VERIFIED", L1, "manual_attestation", 0)
Statement(o, ok, amount) ==
  Ev("", o, "platform_transaction", IF ok THEN "VERIFIED" ELSE "UNVERIFIED", L3,
     "api_response", amount)

OneIds == {"", "sub", "done"}
OneOpp == {o1}
OneEvidence == {Submission("sub", o1, TRUE), Submission("sub", o1, FALSE),
                Completion("done", o1), OnChain(o1, TRUE, 1),
                OnChain(o1, FALSE, 0), Reference(o1), Statement(o1, TRUE, 2)}

TwoMethods == {"external_reconciliation", "manual_attestation"}
=============================================================================
