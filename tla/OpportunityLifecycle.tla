------------------------ MODULE OpportunityLifecycle ------------------------
(***************************************************************************)
(* OpportunityLifecycleTracker (agents/earning/opportunity_lifecycle.py):  *)
(* the authority on the stage an opportunity is in and on whether its      *)
(* payout is booked, with its evidence table and its JSON state file.      *)
(*                                                                         *)
(* The tracker holds every opportunity in memory and rewrites the whole    *)
(* state file each time a handler appends an event.  One handler call is   *)
(* one action here, but a call saves several times on its way and may      *)
(* assign fields after its last save, so a handler is described by an      *)
(* Outcome: the states of its opportunity it saved, the last of them, and  *)
(* the state it leaves in memory.  A save is best-effort: it may be        *)
(* dropped without notice.  A crash may come between any two saves of a    *)
(* call; the restarted tracker then holds what the file holds.             *)
(*                                                                         *)
(* Definitions whose name starts with Slip are deliberate mistakes, each   *)
(* of a kind the source's comments report as once made; no action uses     *)
(* them.                                                                   *)
(***************************************************************************)
EXTENDS EvidenceStore

CONSTANTS
  Amounts,         \* amounts a caller can claim
  Evidences,       \* records the producers can deliver
  Methods,         \* verification methods an operator can reconcile with
  MarkStages,      \* stages the callers mark
  Outcomes,        \* final outcomes other than paid, failed and rejected
  SavesMayFail,    \* may _persist drop a write
  MaxCrashes       \* bound on the crashes of one behaviour

ASSUME LifecycleAssumption ==
  /\ Amounts \subseteq Nat
  /\ Evidences \subseteq EvidenceRecord
  /\ NoEvidence \notin Evidences
  /\ Methods \subseteq STRING
  /\ MarkStages \subseteq {"researched", "queued", "applied", "in_progress"}
  /\ Outcomes \subseteq {"completed", "submitted"}
  /\ SavesMayFail \in BOOLEAN
  /\ MaxCrashes \in Nat

VARIABLES
  mem,      \* _states: the tracker's memory
  disk,     \* the JSON state file
  table,    \* the evidence table
  proven,   \* observation: opportunities the policy has once found payable
  crashes   \* crashes so far

vars == <<mem, disk, table, proven, crashes>>

-----------------------------------------------------------------------------
(* The state machine of stages. *)

Stages == {"discovered", "researched", "queued", "applied", "in_progress",
           "submitted", "claimed", "paid", "completed", "failed", "rejected"}

Terminal == {"paid", "completed", "failed", "rejected"}

Allowed(stage) ==
  CASE stage = "discovered" -> {"researched", "queued", "applied", "claimed",
                                "completed", "failed"}
    [] stage = "researched" -> {"queued", "applied", "claimed", "completed",
                                "failed"}
    [] stage = "queued" -> {"applied", "claimed", "rejected", "completed",
                            "failed"}
    [] stage = "applied" -> {"in_progress", "submitted", "claimed", "rejected",
                             "completed", "failed"}
    [] stage = "in_progress" -> {"submitted", "completed", "failed"}
    [] stage \in {"submitted", "claimed"} -> {"paid", "completed", "failed"}
    [] stage \in Terminal -> {}

\* The stage the shortest path _route_to finds passes on the way to `paid`, the
\* stage itself when `paid` is one step away.
Waypoint(stage) ==
  IF "paid" \in Allowed(stage) THEN stage
  ELSE IF "claimed" \in Allowed(stage) THEN "claimed" ELSE "submitted"

Results == {"active", "paid", "completed", "submitted", "failed", "rejected"}

\* What _is_verified_evidence makes of the stored verification.
Verifications == {"none", "unverified", "verified"}

OpState == [stage : Stages, status : Results, lastAmount : Nat,
            verification : Verifications]

NewState == [stage |-> "discovered", status |-> "active", lastAmount |-> 0,
             verification |-> "none"]

SlipView(ev) == ev.status
View(ev) == IF IsVerified(ev) THEN "verified" ELSE "unverified"

Larger(m, n) == IF m >= n THEN m ELSE n

-----------------------------------------------------------------------------
(* Outcomes of handlers. *)

Saved(s) == [saves |-> {s}, last |-> s, final |-> s]

\* Assignments a handler makes after its last save.
ThenAssign(out, s) == [out EXCEPT !.final = s]

\* Two handlers called one after the other, the second from the first's final.
Then(out, next) == [next EXCEPT !.saves = out.saves \cup @]

\* _append with move_stage
Append(s, stage) == Saved([s EXCEPT !.stage = stage])

\* _transition: a refused move is written to the audit trail and saved
Moves(s, stage) == stage \in Allowed(s.stage)
Transition(s, stage) == IF Moves(s, stage) THEN Append(s, stage) ELSE Saved(s)

SlipNoSecondSave(s, verification) ==
  IF s.stage \in Terminal THEN Saved(s)
  ELSE ThenAssign(Append(s, "paid"),
                  [s EXCEPT !.stage = "paid", !.status = "paid",
                            !.verification = verification])
SlipBypassMachine(s, verification) ==
  Saved([s EXCEPT !.stage = "paid", !.status = "paid",
                  !.verification = verification])
\* _mark_paid: walk to `paid` through the state machine, save, then set status
\* and verification and save again; from a terminal stage, record a refusal.
MarkPaid(s, verification) ==
  IF s.stage \in Terminal
  THEN Saved(s)
  ELSE LET via == [s EXCEPT !.stage = Waypoint(@)]
           arrived == [s EXCEPT !.stage = "paid"]
           booked == [arrived EXCEPT !.status = "paid",
                                     !.verification = verification]
       IN  Then([saves |-> (IF via = s THEN {} ELSE {via}) \cup {arrived}],
                Saved(booked))

SlipRefuseUnsaved(s, verification) ==
  ThenAssign(Saved(s), [s EXCEPT !.stage = "submitted",
                                 !.verification = verification])
\* A payout claim that is not accepted: the stage is appended as `submitted`
\* whatever it was, and the verification is replaced after the save.
RefusePayout(s, verification) ==
  LET r == [s EXCEPT !.stage = "submitted"]
  IN  ThenAssign(Saved(r), [r EXCEPT !.verification = verification])

SlipTrustStatus(s, amount, ev, evs) ==
  IF ev.status \in Affirmative
  THEN MarkPaid([s EXCEPT !.lastAmount = Larger(@, amount)], View(ev))
  ELSE RefusePayout(s, View(ev))
\* mark_paid_verified with an Evidence already recorded in the table
PayoutByEvidence(s, amount, ev, evs) ==
  IF PayoutEligible(evs)
  THEN MarkPaid([s EXCEPT !.lastAmount = Larger(@, amount)], View(ev))
  ELSE RefusePayout(s, View(ev))

\* The part of reconcile_evidence that re-evaluates the payout: a positive
\* reconciled amount replaces the claim.
PayoutByReconciliation(s, rec) ==
  LET t == IF rec.amount > 0 THEN [s EXCEPT !.lastAmount = rec.amount] ELSE s
  IN  IF t.lastAmount > 0 THEN MarkPaid(t, View(rec))
                          ELSE Append(t, "submitted")

\* mark_submitted without evidence, and with evidence already recorded: an
\* unconfirmed submission is appended without asking the state machine
Submit(s, amount) == Transition([s EXCEPT !.lastAmount = amount], "submitted")
SubmitByEvidence(s, amount, evs) ==
  IF IsTransitionEligible("IN_PROGRESS->SUBMITTED", evs)
  THEN Submit(s, amount)
  ELSE Append([s EXCEPT !.lastAmount = amount], "submitted")

SlipStatusBeforeGate(s, stage) ==
  LET t == [s EXCEPT !.status = stage]
  IN  IF Moves(s, stage) THEN Append(t, stage) ELSE Saved(t)
\* mark_failed, mark_rejected and the generic branch of mark_final_outcome:
\* the status is assigned after the save, and only if the stage moved.
Conclude(s, stage) ==
  IF Moves(s, stage)
  THEN ThenAssign(Transition(s, stage), [s EXCEPT !.stage = stage,
                                                  !.status = stage])
  ELSE Saved(s)

\* mark_final_outcome("paid"): no evidence is attached, so the payout is
\* refused; unless it was booked before, the outcome becomes `completed`.
ConcludePaid(s) ==
  LET r == RefusePayout(s, "none")
  IN  IF r.final.status = "paid" THEN r
      ELSE Then(r, Transition([r.final EXCEPT !.status = "completed"],
                              "completed"))

\* track_opportunity: start() first, whatever the stage, then the handler of
\* the stage; `paid` claims the payout twice with an attestation (or nothing,
\* when the operator gave no note).
Restart(s) == Append(s, "discovered")
TrackMove(s, stage) ==
  LET r == Restart(s) IN Then(r, Transition(r.final, stage))
TrackSubmitted(s) == LET r == Restart(s) IN Then(r, Submit(r.final, 0))
TrackFailed(s) == LET r == Restart(s) IN Then(r, Conclude(r.final, "failed"))
TrackPaid(s, attested) ==
  LET r == Restart(s)
      once == RefusePayout(r.final, attested)
  IN  Then(Then(r, once), RefusePayout(once.final, attested))

-----------------------------------------------------------------------------
(* Running a handler: it returns, or the process dies inside it. *)

Snapshot(o, s) == [mem EXCEPT ![o] = s]

\* What the file may hold after some of a handler's saves.
Partial(o, out) == {disk} \cup {Snapshot(o, s) : s \in out.saves}

Return(o, out) ==
  /\ mem' = Snapshot(o, out.final)
  /\ \/ disk' = Snapshot(o, out.last)
     \/ SavesMayFail /\ disk' \in Partial(o, out)
  /\ UNCHANGED crashes

\* The process dies and the next one recovers the file (_recover_from_disk).
Die(o, out) ==
  /\ crashes < MaxCrashes
  /\ crashes' = crashes + 1
  /\ disk' \in Partial(o, out)
  /\ mem' = disk'

Run(o, out) == Return(o, out) \/ Die(o, out)

Observe == proven' = proven \cup
             {p \in Opps : PayoutEligible(ForSubject(table', p))}

\* A handler that does not touch the evidence table.
Call(o, out) == Run(o, out) /\ UNCHANGED <<table, proven>>

\* A handler that records ev, which is about o, before anything else.
Deliver(o, ev) == /\ ev.subject = o
                  /\ table' = Record(table, ev)
                  /\ Observe

-----------------------------------------------------------------------------
(* Handlers. *)

\* mark_researched, mark_queued, mark_applied, mark_in_progress
Mark(o) == \E stage \in MarkStages : Call(o, Transition(mem[o], stage))

MarkSubmitted(o) == \E a \in Amounts : Call(o, Submit(mem[o], a))

MarkSubmittedWithEvidence(o) ==
  \E ev \in Evidences, a \in Amounts :
    /\ ev.type = "platform_submission"
    /\ Deliver(o, ev)
    /\ Run(o, SubmitByEvidence(mem[o], a, ForSubject(table', o)))

MarkPaidVerified(o) ==
  \E ev \in Evidences, a \in Amounts :
    /\ Deliver(o, ev)
    /\ Run(o, PayoutByEvidence(mem[o], a, ev, ForSubject(table', o)))

\* mark_paid, and mark_paid_verified with nothing or an attestation attached
ClaimPaid(o) == \E v \in {"none", "unverified"} :
                  Call(o, RefusePayout(mem[o], v))

ReconcileEvidence(o) ==
  \E id \in EvIds, method \in Methods :
    /\ table[id] # NoEvidence
    /\ table[id].subject = o
    /\ LET rec == Reconcile(table[id], method)
       IN  /\ table' = Record(table, rec)
           /\ Observe
           /\ IF PayoutEligible(ForSubject(table', o))
              THEN Run(o, PayoutByReconciliation(mem[o], rec))
              ELSE UNCHANGED <<mem, disk, crashes>>

MarkFailed(o) == Call(o, Conclude(mem[o], "failed"))
MarkRejected(o) == Call(o, Conclude(mem[o], "rejected"))

MarkFinalOutcome(o) ==
  \/ Call(o, ConcludePaid(mem[o]))
  \/ \E outcome \in Outcomes : Call(o, Conclude(mem[o], outcome))

Track(o) ==
  \/ \E stage \in MarkStages \ {"queued"} : Call(o, TrackMove(mem[o], stage))
  \/ Call(o, TrackSubmitted(mem[o]))
  \/ Call(o, TrackFailed(mem[o]))
  \/ \E v \in {"none", "unverified"} : Call(o, TrackPaid(mem[o], v))
  \/ Call(o, Restart(mem[o]))

\* process_scheduled_actions; the guards are evaluated again when an action
\* computed by an earlier scheduler_check is processed
PromoteToApplied(o) == /\ mem[o].stage = "queued"
                       /\ Call(o, Transition(mem[o], "applied"))
PromoteToSubmitted(o) == /\ mem[o].stage \in {"applied", "in_progress"}
                         /\ Call(o, Transition(mem[o], "submitted"))
Expire(o) == /\ mem[o].stage \notin {"submitted", "paid", "failed", "rejected"}
             /\ Call(o, Transition(mem[o], "failed"))

\* A component other than the tracker records evidence about an opportunity.
RecordEvidence == \E ev \in Evidences : /\ table' = Record(table, ev)
                                        /\ Observe
                                        /\ UNCHANGED <<mem, disk, crashes>>

\* The process dies between two handlers.
Crash == /\ crashes < MaxCrashes
         /\ crashes' = crashes + 1
         /\ mem' = disk
         /\ UNCHANGED <<disk, table, proven>>

Handler(o) == \/ Mark(o) \/ MarkSubmitted(o) \/ MarkSubmittedWithEvidence(o)
              \/ MarkPaidVerified(o) \/ ClaimPaid(o) \/ ReconcileEvidence(o)
              \/ MarkFailed(o) \/ MarkRejected(o) \/ MarkFinalOutcome(o)
              \/ Track(o)
              \/ PromoteToApplied(o) \/ PromoteToSubmitted(o) \/ Expire(o)

Init == /\ mem = [o \in Opps |-> NewState]
        /\ disk = mem
        /\ table = EmptyTable
        /\ proven = {}
        /\ crashes = 0

Next == (\E o \in Opps : Handler(o)) \/ RecordEvidence \/ Crash

Spec == Init /\ [][Next]_vars

-----------------------------------------------------------------------------
(* Properties. *)

\* Every variable keeps its shape, in memory and in the file.
TypeOK == /\ mem \in [Opps -> OpState]
          /\ disk \in [Opps -> OpState]
          /\ table \in Tables
          /\ proven \subseteq Opps
          /\ crashes \in 0 .. MaxCrashes

\* A payout is booked, in memory or in the file, only for an opportunity whose
\* recorded evidence has at some moment satisfied the policy: neither a refused
\* claim, nor a chain of legal calls, nor a crash inside a handler books one
\* (mark_paid_verified, reconcile_evidence, _recover_from_disk).
PaidIsProvable == \A o \in Opps : "paid" \in {mem[o].status, disk[o].status}
                                    => o \in proven

\* The status turns to `paid` only in a call that leaves the policy satisfied by
\* the evidence then in the table and that found the opportunity in an open
\* stage, or because a restart recovered a booking the file held (_mark_paid).
BookingNeedsCurrentEvidence ==
  [][\A o \in Opps : mem[o].status # "paid" /\ mem'[o].status = "paid" =>
        \/ mem[o].stage \notin Terminal /\ PayoutEligible(ForSubject(table', o))
        \/ crashes' = crashes + 1 /\ disk'[o].status = "paid"]_vars

\* When no save is dropped, the file holds the stage of every opportunity each
\* time a handler returns, so a crash between two handlers moves no stage, and
\* it holds every booked payout (_append, the second save of _mark_paid).
StageIsDurable == \A o \in Opps : disk[o].stage = mem[o].stage
BookingIsDurable == \A o \in Opps : mem[o].status = "paid" =>
                                        disk[o].status = "paid"

\* As long as no crash came between two saves of a call, the stage `paid` comes
\* with the status and the verification of a booked payout, so the revenue report
\* sees every paid opportunity.
PaidStageIsBooked ==
  crashes = 0 => \A o \in Opps : mem[o].stage = "paid" =>
                   mem[o].status = "paid" /\ mem[o].verification # "none"
=============================================================================
