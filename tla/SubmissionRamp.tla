---------------------------- MODULE SubmissionRamp ----------------------------
(***************************************************************************)
(* The track record of one platform (app/earning_memory.py), what is       *)
(* written to it when a proposal is sent, refused or paid, and the two     *)
(* gates that read it: the submission ramp (agents/earning/                *)
(* submission_ramp.py), which lets the loop submit without a human, and    *)
(* the win rate guard (agents/earning/win_rate_guard.py), which drops the  *)
(* platform from discovery.                                                *)
(*                                                                         *)
(* The loop and the window each work on a gig of their own, on their own   *)
(* threads.  The record is written in single transactions, and a proposal  *)
(* reads it well before its own writes.                                    *)
(***************************************************************************)
EXTENDS Naturals, FiniteSets

CONSTANTS
  Gigs,            \* opportunities of the platform
  MinSubmissions,  \* of the ramp: attempts before it may open
  RateNeeded,      \* of the ramp, in percent
  MinSamples,      \* of the guard: attempts before it may decline
  DeclineBelow,    \* of the guard, in percent
  MaxCredits       \* bound on the payments an operator verifies

ASSUME RampAssumption ==
  /\ IsFiniteSet(Gigs)
  /\ MinSubmissions \in Nat /\ MinSamples \in Nat /\ MaxCredits \in Nat
  /\ RateNeeded \in 1 .. 100 /\ DeclineBelow \in 1 .. 100

VARIABLES
  record,    \* reputation_memory: attempts, wins and losses
  proposal,  \* where the proposal of each gig is
  credits,   \* number of payments verified
  sent       \* observation: gigs a proposal was given to the platform for

rampVars == <<record, proposal, credits, sent>>

Zero == [attempts |-> 0, wins |-> 0, losses |-> 0]

SlipWinOnSubmission(r) == [r EXCEPT !.attempts = @ + 1, !.wins = @ + 1]
\* record_attempt, record_win and record_loss: each of them counts an attempt.
Attempted(r) == [r EXCEPT !.attempts = @ + 1]
Won(r) == [Attempted(r) EXCEPT !.wins = @ + 1]
Lost(r) == [Attempted(r) EXCEPT !.losses = @ + 1]

SlipRateOnly(r) == r.wins * 100 < RateNeeded * r.attempts
\* requires_human, should_decline (success_rate is 0 without attempts)
HumanNeeded(r) == \/ r.attempts < MinSubmissions
                  \/ r.attempts = 0
                  \/ r.wins * 100 < RateNeeded * r.attempts
Declined(r) == r.attempts >= MinSamples /\ r.wins * 100 < DeclineBelow * r.attempts

Becomes(g, where) == proposal' = [proposal EXCEPT ![g] = where]

-----------------------------------------------------------------------------
(* submit_gig_proposal. *)

\* Discovery hands a gig to the loop, unless the platform is declined.
Admit(g) ==
  /\ proposal[g] = "new" /\ ~Declined(record)
  /\ Becomes(g, "admitted")
  /\ UNCHANGED <<record, credits, sent>>

\* The loop has no human at hand: the ramp decides, and its refusal is tracked
\* as a failed proposal.
AskRamp(g) ==
  /\ proposal[g] = "admitted"
  /\ Becomes(g, IF HumanNeeded(record) THEN "failing" ELSE "cleared")
  /\ UNCHANGED <<record, credits, sent>>

\* The operator confirms a gig in the window; its review may still block it.
AskOperator(g) ==
  /\ proposal[g] = "new"
  /\ \E where \in {"confirmed", "failing"} : Becomes(g, where)
  /\ UNCHANGED <<record, credits, sent>>

\* track_opportunity "failed": a loss on the record.
Fail(g) ==
  /\ proposal[g] = "failing"
  /\ record' = Lost(record)
  /\ Becomes(g, "failed")
  /\ UNCHANGED <<credits, sent>>

\* No client can submit: nothing is tracked, the gig may come again.
NoClient(g) ==
  /\ proposal[g] \in {"cleared", "confirmed"}
  /\ Becomes(g, "new")
  /\ UNCHANGED <<record, credits, sent>>

\* The client is called.  The answer may be an error or empty although the
\* platform has the proposal.
Submit(g) ==
  /\ proposal[g] \in {"cleared", "confirmed"}
  /\ \E arrived, answered \in BOOLEAN :
       /\ answered => arrived
       /\ sent' = IF arrived THEN sent \cup {g} ELSE sent
       /\ Becomes(g, IF answered THEN "answered" ELSE "refused")
  /\ UNCHANGED <<record, credits>>

\* record_ramp_submission, and then the stage: submitted, or failed with a loss.
Tally(g) ==
  /\ proposal[g] \in {"answered", "refused"}
  /\ record' = Attempted(record)
  /\ Becomes(g, IF proposal[g] = "answered" THEN "submitted" ELSE "failing")
  /\ UNCHANGED <<credits, sent>>

\* Verify or Reconcile in the window: a proof of payment credits a win, each time
\* it is pressed, to the platform that the history knows the gig by.
Credit(g) ==
  /\ proposal[g] \in {"submitted", "paid"} /\ credits < MaxCredits
  /\ \E known \in BOOLEAN : record' = IF known THEN Won(record) ELSE record
  /\ credits' = credits + 1
  /\ Becomes(g, "paid")
  /\ UNCHANGED sent

-----------------------------------------------------------------------------

RampInit == /\ record = Zero /\ credits = 0 /\ sent = {}
            /\ proposal = [g \in Gigs |-> "new"]

RampNext == \E g \in Gigs :
  \/ Admit(g) \/ AskRamp(g) \/ AskOperator(g) \/ Fail(g)
  \/ NoClient(g) \/ Submit(g) \/ Tally(g) \/ Credit(g)

RampSpec == RampInit /\ [][RampNext]_rampVars

-----------------------------------------------------------------------------
(* Properties. *)

RampTypeOK ==
  /\ record \in [attempts : Nat, wins : Nat, losses : Nat]
  /\ proposal \in [Gigs -> {"new", "admitted", "cleared", "confirmed", "failing",
                            "answered", "refused", "submitted", "failed", "paid"}]
  /\ credits \in Nat /\ sent \subseteq Gigs

\* The loop is let past the human only on a platform that has paid before, for a
\* gig that was really sent: no number of submissions, refusals or errors opens
\* the ramp by itself (requires_human, record_submission, record_accept).
RampIsEarned ==
  [][\A g \in Gigs : proposal[g] = "admitted" /\ proposal'[g] = "cleared" =>
       \E paid \in sent : proposal[paid] = "paid"]_rampVars

\* Every win stands for a verified payment, and every payment is at least the
\* second thing counted about its gig: as long as each payment is verified once,
\* the record shows at most half the attempts won.
WinsAreHalf == credits <= Cardinality({g \in Gigs : proposal[g] = "paid"}) =>
                 2 * record.wins <= record.attempts

\* A platform is not declined before MinSamples proposals were sent on it
\* (win_rate_guard: fewer than min_samples attempts is never declined).
ColdStartIsNotDeclined == Declined(record) => Cardinality(sent) >= MinSamples
=============================================================================
