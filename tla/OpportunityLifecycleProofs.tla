--------------------- MODULE OpportunityLifecycleProofs ---------------------
(***************************************************************************)
(* Proofs about OpportunityLifecycle for every set of opportunities, every *)
(* set of evidence and any number of crashes.                              *)
(*                                                                         *)
(* A handler is an Outcome, so the argument has two layers: every handler  *)
(* makes a good outcome of a state (Good), and running a good outcome,     *)
(* returned from, cut short or only partly saved, keeps the invariant.     *)
(***************************************************************************)
EXTENDS OpportunityLifecycle, TLAPS

\* A state of one opportunity that a handler may pass on: well typed, and with
\* the status `paid` only if it had it before or `may` allows to book it.
Passes(t, s, may) == /\ t \in OpState
                     /\ t.status = "paid" => s.status = "paid" \/ may

\* The stage `paid` with the status and the verification of a booked payout.
Booked(s) == s.stage = "paid" => s.status = "paid" /\ s.verification # "none"

\* Stages a handler can move to without booking.
Unpaid == Stages \ {"paid"}

Outcome == [saves : SUBSET OpState, last : OpState, final : OpState]

Good(out, s, may) ==
  /\ out \in Outcome
  /\ \A t \in out.saves : Passes(t, s, may)
  /\ Passes(out.last, s, may)
  /\ Passes(out.final, s, may)
  /\ out.final.stage = out.last.stage
  /\ out.final.status = "paid" => out.last.status = "paid"
  /\ Booked(s) => Booked(out.final)

\* When a handler may book o: the evidence allows it and the stage is open.
MayBook(s, evs) == s.stage \notin Terminal /\ PayoutEligible(evs)

-----------------------------------------------------------------------------
\* Each handler makes a good outcome.

LEMMA AppendGood ==
  ASSUME NEW s \in OpState, NEW stage \in Unpaid
  PROVE  Good(Append(s, stage), s, FALSE)
  BY DEF Good, Outcome, Passes, Booked, Unpaid, Append, Saved, OpState

LEMMA TransitionGood ==
  ASSUME NEW s \in OpState, NEW stage \in Unpaid
  PROVE  Good(Transition(s, stage), s, FALSE)
  BY AppendGood DEF Good, Outcome, Passes, Booked, Transition, Saved

LEMMA RefuseGood ==
  ASSUME NEW s \in OpState, NEW v \in Verifications
  PROVE  Good(RefusePayout(s, v), s, FALSE)
  BY DEF Good, Outcome, Passes, Booked, RefusePayout, ThenAssign, Saved, OpState, Stages

LEMMA ConcludeGood ==
  ASSUME NEW s \in OpState,
         NEW stage \in {"completed", "submitted", "failed", "rejected"}
  PROVE  Good(Conclude(s, stage), s, FALSE)
  BY DEF Good, Outcome, Passes, Booked, Conclude, Moves, Transition, Append,
         ThenAssign, Saved, OpState, Stages, Results

LEMMA MarkPaidGood ==
  ASSUME NEW s \in OpState, NEW v \in {"unverified", "verified"}
  PROVE  Good(MarkPaid(s, v), s, s.stage \notin Terminal)
<1>1. CASE s.stage \in Terminal
  BY <1>1 DEF Good, Outcome, Passes, Booked, MarkPaid, Saved
<1>2. CASE s.stage \notin Terminal
  <2>. DEFINE via == [s EXCEPT !.stage = Waypoint(@)]
              arrived == [s EXCEPT !.stage = "paid"]
              booked == [arrived EXCEPT !.status = "paid", !.verification = v]
              hop == IF via = s THEN {} ELSE {via}
  <2>1. Waypoint(s.stage) \in Stages
    BY DEF Waypoint, OpState, Stages
  <2>2. via \in OpState /\ via.status = s.status
    BY <2>1 DEF OpState
  <2>3. arrived \in OpState /\ arrived.status = s.status
    BY DEF OpState, Stages
  <2>4. booked \in OpState /\ Booked(booked)
    BY <2>3 DEF OpState, Results, Verifications, Booked
  <2>5. MarkPaid(s, v) = [saves |-> hop \cup {arrived} \cup {booked},
                          last |-> booked, final |-> booked]
    BY <1>2 DEF MarkPaid, Then, Saved
  <2>6. /\ Passes(booked, s, TRUE)
        /\ \A t \in hop \cup {arrived} : Passes(t, s, TRUE)
    BY <2>2, <2>3, <2>4 DEF Passes
  <2>. HIDE DEF booked, arrived, hop
  <2>7. hop \cup {arrived} \cup {booked} \subseteq OpState
    BY <2>6 DEF Passes
  <2>. QED BY <1>2, <2>4, <2>5, <2>6, <2>7 DEF Good, Outcome, Passes
<1>. QED BY <1>1, <1>2

\* Handlers called one after the other make a good outcome.
LEMMA ThenGood ==
  ASSUME NEW s \in OpState, NEW out, NEW next,
         Good(out, s, FALSE), Good(next, out.final, FALSE)
  PROVE  Good(Then(out, next), s, FALSE)
<1>1. \A t : Passes(t, out.final, FALSE) => Passes(t, s, FALSE)
  BY DEF Good, Passes
<1>. QED BY <1>1 DEF Good, Then, Outcome

LEMMA SubmitGood ==
  ASSUME NEW s \in OpState, NEW a \in Nat
  PROVE  Good(Submit(s, a), s, FALSE)
<1>. DEFINE t == [s EXCEPT !.lastAmount = a]
<1>1. /\ t \in OpState /\ t.status = s.status
      /\ Booked(s) => Booked(t)
  BY DEF OpState, Booked
<1>2. Good(Transition(t, "submitted"), t, FALSE)
  BY <1>1, TransitionGood DEF Unpaid, Stages
<1>. QED BY <1>1, <1>2 DEF Good, Passes, Submit

LEMMA SubmitByEvidenceGood ==
  ASSUME NEW s \in OpState, NEW a \in Nat, NEW evs
  PROVE  Good(SubmitByEvidence(s, a, evs), s, FALSE)
<1>. DEFINE t == [s EXCEPT !.lastAmount = a]
<1>1. /\ t \in OpState /\ t.status = s.status
      /\ Booked(s) => Booked(t)
  BY DEF OpState, Booked
<1>2. Good(Append(t, "submitted"), t, FALSE)
  BY <1>1, AppendGood DEF Unpaid, Stages
<1>3. Good(Append(t, "submitted"), s, FALSE)
  BY <1>1, <1>2 DEF Good, Passes
<1>. QED BY <1>3, SubmitGood DEF SubmitByEvidence

LEMMA PayoutByEvidenceGood ==
  ASSUME NEW s \in OpState, NEW a \in Nat, NEW ev, NEW evs
  PROVE  Good(PayoutByEvidence(s, a, ev, evs), s, MayBook(s, evs))
<1>. DEFINE t == [s EXCEPT !.lastAmount = Larger(@, a)]
<1>0. View(ev) \in {"unverified", "verified"}
  BY DEF View
<1>1. /\ t \in OpState /\ t.status = s.status /\ t.stage = s.stage
      /\ Booked(s) => Booked(t)
  BY DEF OpState, Larger, Booked
<1>2. CASE PayoutEligible(evs)
  <2>1. Good(MarkPaid(t, View(ev)), t, t.stage \notin Terminal)
    BY <1>0, <1>1, MarkPaidGood
  <2>. QED BY <1>1, <1>2, <2>1 DEF Good, Passes, MayBook, PayoutByEvidence
<1>3. CASE ~PayoutEligible(evs)
  <2>1. Good(RefusePayout(s, View(ev)), s, FALSE)
    BY <1>0, RefuseGood DEF Verifications
  <2>. QED BY <1>3, <2>1 DEF Good, Passes, MayBook, PayoutByEvidence
<1>. QED BY <1>2, <1>3

LEMMA PayoutByReconciliationGood ==
  ASSUME NEW s \in OpState, NEW rec, rec.amount \in Nat, NEW evs,
         PayoutEligible(evs)
  PROVE  Good(PayoutByReconciliation(s, rec), s, MayBook(s, evs))
<1>. DEFINE t == IF rec.amount > 0 THEN [s EXCEPT !.lastAmount = rec.amount]
                                   ELSE s
<1>0. View(rec) \in {"unverified", "verified"}
  BY DEF View
<1>1. /\ t \in OpState /\ t.status = s.status /\ t.stage = s.stage
      /\ Booked(s) => Booked(t)
  BY DEF OpState, Booked
<1>2. Good(MarkPaid(t, View(rec)), t, t.stage \notin Terminal)
  BY <1>0, <1>1, MarkPaidGood
<1>3. Good(Append(t, "submitted"), t, FALSE)
  BY <1>1, AppendGood DEF Unpaid, Stages
<1>4. PayoutByReconciliation(s, rec) \in {MarkPaid(t, View(rec)),
                                         Append(t, "submitted")}
  BY DEF PayoutByReconciliation
<1>. HIDE DEF t
<1>. QED BY <1>1, <1>2, <1>3, <1>4 DEF Good, Passes, MayBook

LEMMA TrackGood ==
  ASSUME NEW s \in OpState
  PROVE  /\ Good(Restart(s), s, FALSE)
         /\ \A stage \in Unpaid : Good(TrackMove(s, stage), s, FALSE)
         /\ Good(TrackSubmitted(s), s, FALSE)
         /\ Good(TrackFailed(s), s, FALSE)
         /\ \A v \in Verifications : Good(TrackPaid(s, v), s, FALSE)
<1>. DEFINE r == Restart(s)
<1>1. Good(r, s, FALSE) /\ r.final \in OpState
  <2>1. Good(Append(s, "discovered"), s, FALSE)
    BY AppendGood DEF Unpaid, Stages
  <2>. QED BY <2>1 DEF Restart, Good, Passes
<1>. HIDE DEF r
<1>2. ASSUME NEW next, Good(next, r.final, FALSE)
      PROVE  Good(Then(r, next), s, FALSE)
  BY <1>1, <1>2, ThenGood
<1>3. ASSUME NEW stage \in Unpaid
      PROVE  Good(Then(r, Transition(r.final, stage)), s, FALSE)
  BY <1>1, <1>2, TransitionGood
<1>4. /\ Good(Then(r, Submit(r.final, 0)), s, FALSE)
      /\ Good(Then(r, Conclude(r.final, "failed")), s, FALSE)
  BY <1>1, <1>2, SubmitGood, ConcludeGood
<1>5. ASSUME NEW v \in Verifications
      PROVE  Good(TrackPaid(s, v), s, FALSE)
  <2>. DEFINE once == RefusePayout(r.final, v)
              twice == RefusePayout(once.final, v)
  <2>1. Good(once, r.final, FALSE) /\ once.final \in OpState
    BY <1>1, RefuseGood DEF Good, Passes
  <2>2. Good(twice, once.final, FALSE)
    BY <2>1, RefuseGood
  <2>3. TrackPaid(s, v) = Then(Then(r, once), twice)
    BY DEF TrackPaid, r
  <2>. HIDE DEF once, twice
  <2>4. Then(r, once).final = once.final
    BY <2>1 DEF Then, Good, Outcome
  <2>5. Good(Then(r, once), s, FALSE)
    BY <1>2, <2>1
  <2>. QED BY <2>2, <2>3, <2>4, <2>5, ThenGood
<1>. QED BY <1>1, <1>3, <1>4, <1>5
         DEF TrackMove, TrackSubmitted, TrackFailed, r

LEMMA ConcludePaidGood ==
  ASSUME NEW s \in OpState
  PROVE  Good(ConcludePaid(s), s, FALSE)
<1>. DEFINE r == RefusePayout(s, "none")
            t == [r.final EXCEPT !.status = "completed"]
<1>1. /\ Good(r, s, FALSE) /\ r.final \in OpState
      /\ r.final.stage = "submitted"
  <2>1. Good(r, s, FALSE)
    BY RefuseGood DEF Verifications
  <2>2. r.final.stage = "submitted"
    BY DEF RefusePayout, ThenAssign, Saved, OpState
  <2>. QED BY <2>1, <2>2 DEF Good, Passes
<1>2. t \in OpState /\ t.status # "paid" /\ Booked(t)
  BY <1>1 DEF OpState, Results, Booked
<1>. HIDE DEF r
<1>3. Good(Transition(t, "completed"), t, FALSE)
  BY <1>2, TransitionGood DEF Unpaid, Stages
<1>4. Good(Transition(t, "completed"), r.final, FALSE)
  BY <1>2, <1>3 DEF Good, Passes
<1>5. Good(Then(r, Transition(t, "completed")), s, FALSE)
  BY <1>1, <1>4, ThenGood
<1>. QED BY <1>1, <1>5 DEF ConcludePaid, r

-----------------------------------------------------------------------------
\* What one step does to memory and file, whatever the handler: `o` was handled
\* with a good outcome, or nothing moved but perhaps a crash.

Handled(o) ==
  \E out : \E may \in BOOLEAN :
     /\ Good(out, mem[o], may)
     /\ may => MayBook(mem[o], ForSubject(table', o)) /\ o \in proven'
     /\ Run(o, out)

Step == /\ table' \in Tables
        /\ proven \subseteq proven' /\ proven' \subseteq Opps
        /\ \/ \E o \in Opps : Handled(o)
           \/ UNCHANGED <<mem, disk, crashes>>
           \/ Crash

LEMMA RecordIsTable ==
  ASSUME NEW t \in Tables, NEW ev \in EvidenceRecord
  PROVE  Record(t, ev) \in Tables
  BY DEF Record, Tables, EvidenceRecord

LEMMA ReconcileIsRecord ==
  ASSUME NEW ev \in EvidenceRecord, NEW method \in STRING
  PROVE  Reconcile(ev, method) \in EvidenceRecord
<1>1. "VERIFIED" \in Statuses /\ L4 \in Levels
  BY DEF Statuses, Levels, L4, L5
<1>. QED BY <1>1 DEF Reconcile, EvidenceRecord

LEMMA CallIsStep ==
  ASSUME TypeOK, NEW o \in Opps, NEW out, Good(out, mem[o], FALSE), Call(o, out)
  PROVE  Step
<1>1. Handled(o)
  BY DEF Handled, Call
<1>. QED BY <1>1 DEF Step, Call, TypeOK

LEMMA ObserveGrows ==
  ASSUME TypeOK, Observe
  PROVE  /\ proven \subseteq proven' /\ proven' \subseteq Opps
         /\ \A o \in Opps : PayoutEligible(ForSubject(table', o)) => o \in proven'
  BY DEF Observe, TypeOK

LEMMA NextIsStep == TypeOK /\ Next => Step
<1>. SUFFICES ASSUME TypeOK, Next PROVE Step
  OBVIOUS
<1>. USE LifecycleAssumption
<1>0. \A o \in Opps : mem[o] \in OpState
  BY DEF TypeOK
<1>1. ASSUME NEW o \in Opps, Mark(o) PROVE Step
  <2>1. PICK stage \in Unpaid : Call(o, Transition(mem[o], stage))
    BY <1>1 DEF Mark, Unpaid, Stages
  <2>. QED BY <1>0, <2>1, TransitionGood, CallIsStep
<1>2. ASSUME NEW o \in Opps, MarkSubmitted(o) PROVE Step
  <2>1. PICK a \in Nat : Call(o, Submit(mem[o], a))
    BY <1>2 DEF MarkSubmitted
  <2>. QED BY <1>0, <2>1, SubmitGood, CallIsStep
<1>3. ASSUME NEW o \in Opps, MarkSubmittedWithEvidence(o) PROVE Step
  <2>1. PICK ev \in EvidenceRecord, a \in Nat :
          /\ Deliver(o, ev)
          /\ Run(o, SubmitByEvidence(mem[o], a, ForSubject(table', o)))
    BY <1>3 DEF MarkSubmittedWithEvidence
  <2>2. table' \in Tables
    BY <2>1, RecordIsTable DEF Deliver, TypeOK
  <2>3. Handled(o)
    BY <1>0, <2>1, SubmitByEvidenceGood DEF Handled
  <2>. QED BY <2>1, <2>2, <2>3, ObserveGrows DEF Step, Deliver
<1>4. ASSUME NEW o \in Opps, MarkPaidVerified(o) PROVE Step
  <2>1. PICK ev \in EvidenceRecord, a \in Nat :
          /\ Deliver(o, ev)
          /\ Run(o, PayoutByEvidence(mem[o], a, ev, ForSubject(table', o)))
    BY <1>4 DEF MarkPaidVerified
  <2>2. table' \in Tables
    BY <2>1, RecordIsTable DEF Deliver, TypeOK
  <2>3. Good(PayoutByEvidence(mem[o], a, ev, ForSubject(table', o)), mem[o],
             MayBook(mem[o], ForSubject(table', o)))
    BY <1>0, PayoutByEvidenceGood
  <2>4. MayBook(mem[o], ForSubject(table', o)) \in BOOLEAN
    BY DEF MayBook
  <2>5. MayBook(mem[o], ForSubject(table', o)) => o \in proven'
    BY <2>1, ObserveGrows DEF MayBook, Deliver
  <2>6. Handled(o)
    BY <2>1, <2>3, <2>4, <2>5 DEF Handled
  <2>. QED BY <2>1, <2>2, <2>6, ObserveGrows DEF Step, Deliver
<1>5. ASSUME NEW o \in Opps, ClaimPaid(o) PROVE Step
  <2>1. PICK v \in Verifications : Call(o, RefusePayout(mem[o], v))
    BY <1>5 DEF ClaimPaid, Verifications
  <2>. QED BY <1>0, <2>1, RefuseGood, CallIsStep
<1>6. ASSUME NEW o \in Opps, ReconcileEvidence(o) PROVE Step
  <2>1. PICK id \in EvIds, method \in STRING :
          /\ table[id] # NoEvidence
          /\ table' = Record(table, Reconcile(table[id], method))
          /\ Observe
          /\ IF PayoutEligible(ForSubject(table', o))
             THEN Run(o, PayoutByReconciliation(mem[o],
                                                Reconcile(table[id], method)))
             ELSE UNCHANGED <<mem, disk, crashes>>
    BY <1>6 DEF ReconcileEvidence
  <2>. DEFINE rec == Reconcile(table[id], method)
              evs == ForSubject(table', o)
  <2>2. rec \in EvidenceRecord
    BY <2>1, ReconcileIsRecord DEF TypeOK, Tables
  <2>3. table' \in Tables
    BY <2>1, <2>2, RecordIsTable DEF TypeOK
  <2>4. CASE PayoutEligible(evs)
    <3>1. rec.amount \in Nat
      BY <2>2 DEF EvidenceRecord
    <3>. HIDE DEF rec
    <3>2. Good(PayoutByReconciliation(mem[o], rec), mem[o], MayBook(mem[o], evs))
      BY <1>0, <2>4, <3>1, PayoutByReconciliationGood
    <3>3. MayBook(mem[o], evs) \in BOOLEAN
      BY DEF MayBook
    <3>4. MayBook(mem[o], evs) => o \in proven'
      BY <2>1, ObserveGrows DEF MayBook
    <3>5. Run(o, PayoutByReconciliation(mem[o], rec))
      BY <2>1, <2>4 DEF rec
    <3>6. Handled(o)
      BY <3>2, <3>3, <3>4, <3>5 DEF Handled
    <3>. QED BY <2>1, <2>3, <3>6, ObserveGrows DEF Step
  <2>5. CASE ~PayoutEligible(evs)
    BY <2>1, <2>3, <2>5, ObserveGrows DEF Step
  <2>. QED BY <2>4, <2>5
<1>7. ASSUME NEW o \in Opps, MarkFailed(o) \/ MarkRejected(o) PROVE Step
  BY <1>0, <1>7, ConcludeGood, CallIsStep DEF MarkFailed, MarkRejected
<1>8. ASSUME NEW o \in Opps, MarkFinalOutcome(o) PROVE Step
  <2>1. CASE Call(o, ConcludePaid(mem[o]))
    BY <1>0, <2>1, ConcludePaidGood, CallIsStep
  <2>2. CASE \E outcome \in Outcomes : Call(o, Conclude(mem[o], outcome))
    <3>1. PICK outcome \in {"completed", "submitted"} :
            Call(o, Conclude(mem[o], outcome))
      BY <2>2
    <3>. QED BY <1>0, <3>1, ConcludeGood, CallIsStep
  <2>. QED BY <1>8, <2>1, <2>2 DEF MarkFinalOutcome
<1>9. ASSUME NEW o \in Opps, Track(o) PROVE Step
  <2>1. PICK out : Good(out, mem[o], FALSE) /\ Call(o, out)
    BY <1>0, <1>9, TrackGood DEF Track, Unpaid, Stages, Verifications
  <2>. QED BY <2>1, CallIsStep
<1>10. ASSUME NEW o \in Opps,
              PromoteToApplied(o) \/ PromoteToSubmitted(o) \/ Expire(o)
       PROVE  Step
  <2>1. PICK stage \in Unpaid : Call(o, Transition(mem[o], stage))
    BY <1>10 DEF PromoteToApplied, PromoteToSubmitted, Expire, Unpaid, Stages
  <2>. QED BY <1>0, <2>1, TransitionGood, CallIsStep
<1>11. ASSUME RecordEvidence PROVE Step
  <2>1. PICK ev \in EvidenceRecord : table' = Record(table, ev)
    BY <1>11 DEF RecordEvidence
  <2>. QED BY <1>11, <2>1, RecordIsTable, ObserveGrows
       DEF RecordEvidence, Step, TypeOK
<1>12. ASSUME Crash PROVE Step
  BY <1>12 DEF Crash, Step, TypeOK
<1>. QED
  BY <1>1, <1>2, <1>3, <1>4, <1>5, <1>6, <1>7, <1>8, <1>9, <1>10, <1>11, <1>12
  DEF Next, Handler

-----------------------------------------------------------------------------
\* The states memory and file may hold after a handler was run.

LEMMA RunEffect ==
  ASSUME TypeOK, NEW o \in Opps, NEW out, NEW may \in BOOLEAN,
         Good(out, mem[o], may), Run(o, out)
  PROVE  /\ mem' \in [Opps -> OpState] /\ disk' \in [Opps -> OpState]
         /\ crashes' \in 0 .. MaxCrashes
         /\ \A p \in Opps : "paid" \in {mem'[p].status, disk'[p].status} =>
               \/ "paid" \in {mem[p].status, disk[p].status}
               \/ p = o /\ may
<1>. USE LifecycleAssumption
<1>1. \A t : Passes(t, mem[o], may) => Snapshot(o, t) \in [Opps -> OpState]
  BY DEF Passes, Snapshot, TypeOK
<1>2. Snapshot(o, out.last) \in [Opps -> OpState]
      /\ Snapshot(o, out.final) \in [Opps -> OpState]
  BY <1>1 DEF Good
<1>3. \A f \in Partial(o, out) : f \in [Opps -> OpState]
  BY <1>1 DEF Partial, Good, TypeOK
<1>4. \A t : Passes(t, mem[o], may) => \A p \in Opps :
        Snapshot(o, t)[p].status = "paid" =>
           mem[p].status = "paid" \/ (p = o /\ may)
  BY DEF Passes, Snapshot, TypeOK
<1>5. \A f \in Partial(o, out) : \A p \in Opps : f[p].status = "paid" =>
        "paid" \in {mem[p].status, disk[p].status} \/ (p = o /\ may)
  BY <1>4 DEF Partial, Good
<1>6. CASE Return(o, out)
  <2>1. mem' = Snapshot(o, out.final) /\ crashes' = crashes
    BY <1>6 DEF Return
  <2>2. disk' = Snapshot(o, out.last) \/ disk' \in Partial(o, out)
    BY <1>6 DEF Return
  <2>3. Passes(out.last, mem[o], may) /\ Passes(out.final, mem[o], may)
    BY DEF Good
  <2>. QED BY <1>2, <1>3, <1>4, <1>5, <2>1, <2>2, <2>3 DEF TypeOK
<1>7. CASE Die(o, out)
  <2>1. /\ disk' \in Partial(o, out) /\ mem' = disk'
        /\ crashes < MaxCrashes /\ crashes' = crashes + 1
    BY <1>7 DEF Die
  <2>2. crashes' \in 0 .. MaxCrashes
    BY <2>1 DEF TypeOK
  <2>. QED BY <1>3, <1>5, <2>1, <2>2
<1>. QED BY <1>6, <1>7 DEF Run

IInv == TypeOK /\ PaidIsProvable

LEMMA InitIInv == Init => IInv
<1>. USE LifecycleAssumption
<1>. SUFFICES ASSUME Init PROVE IInv
  OBVIOUS
<1>1. NewState \in OpState /\ NewState.status = "active"
  BY DEF NewState, OpState, Stages, Results, Verifications
<1>2. table \in Tables
  BY DEF Init, EmptyTable, Tables
<1>. QED BY <1>1, <1>2 DEF Init, IInv, TypeOK, PaidIsProvable

LEMMA StepIInv == IInv /\ Step => IInv'
<1>. SUFFICES ASSUME IInv, Step PROVE IInv'
  OBVIOUS
<1>. USE LifecycleAssumption DEF IInv
<1>1. table' \in Tables /\ proven \subseteq proven' /\ proven' \subseteq Opps
  BY DEF Step
<1>2. ASSUME NEW o \in Opps, Handled(o) PROVE IInv'
  <2>1. PICK out : \E may \in BOOLEAN :
          /\ Good(out, mem[o], may) /\ Run(o, out)
          /\ may => o \in proven'
    BY <1>2 DEF Handled
  <2>2. PICK may \in BOOLEAN :
          /\ Good(out, mem[o], may) /\ Run(o, out)
          /\ may => o \in proven'
    BY <2>1
  <2>3. /\ mem' \in [Opps -> OpState] /\ disk' \in [Opps -> OpState]
        /\ crashes' \in 0 .. MaxCrashes
        /\ \A p \in Opps : "paid" \in {mem'[p].status, disk'[p].status} =>
              \/ "paid" \in {mem[p].status, disk[p].status}
              \/ p = o /\ may
    BY <2>2, RunEffect
  <2>. QED BY <1>1, <2>2, <2>3 DEF TypeOK, PaidIsProvable
<1>3. CASE UNCHANGED <<mem, disk, crashes>>
  BY <1>1, <1>3 DEF TypeOK, PaidIsProvable
<1>4. CASE Crash
  <2>1. crashes' \in 0 .. MaxCrashes
    BY <1>4 DEF Crash, TypeOK
  <2>. QED BY <1>1, <1>4, <2>1 DEF Crash, TypeOK, PaidIsProvable
<1>. QED BY <1>2, <1>3, <1>4 DEF Step

LEMMA NextIInv == IInv /\ [Next]_vars => IInv'
<1>1. IInv /\ UNCHANGED vars => IInv'
  BY DEF IInv, TypeOK, PaidIsProvable, vars
<1>. QED BY <1>1, NextIsStep, StepIInv DEF IInv

\* The tracker's memory, its file and the evidence table keep their shape.
THEOREM TypeCorrect == Spec => []TypeOK
<1>1. IInv => TypeOK
  BY DEF IInv
<1>. QED BY <1>1, InitIInv, NextIInv, PTL DEF Spec

\* No order of handlers, dropped saves and crashes makes up a booked payout:
\* what memory or file call paid, the evidence has once allowed.
THEOREM PayoutsAreProvable == Spec => []PaidIsProvable
<1>1. IInv => PaidIsProvable
  BY DEF IInv
<1>. QED BY <1>1, InitIInv, NextIInv, PTL DEF Spec

-----------------------------------------------------------------------------
Booking ==
  \A o \in Opps : mem[o].status # "paid" /\ mem'[o].status = "paid" =>
     \/ mem[o].stage \notin Terminal /\ PayoutEligible(ForSubject(table', o))
     \/ crashes' = crashes + 1 /\ disk'[o].status = "paid"

LEMMA StepBooks == TypeOK /\ Step => Booking
<1>. SUFFICES ASSUME TypeOK, Step PROVE Booking
  OBVIOUS
<1>1. ASSUME NEW o \in Opps, Handled(o) PROVE Booking
  <2>1. PICK out : \E may \in BOOLEAN :
          /\ Good(out, mem[o], may) /\ Run(o, out)
          /\ may => MayBook(mem[o], ForSubject(table', o))
    BY <1>1 DEF Handled
  <2>2. PICK may \in BOOLEAN :
          /\ Good(out, mem[o], may) /\ Run(o, out)
          /\ may => MayBook(mem[o], ForSubject(table', o))
    BY <2>1
  <2>3. CASE Return(o, out)
    <3>1. mem' = Snapshot(o, out.final) /\ Passes(out.final, mem[o], may)
      BY <2>2, <2>3 DEF Return, Good
    <3>2. \A p \in Opps : mem[p].status # "paid" /\ mem'[p].status = "paid"
                           => p = o /\ may
      BY <3>1 DEF Snapshot, Passes, TypeOK
    <3>. QED BY <2>2, <3>2 DEF Booking, MayBook
  <2>4. CASE Die(o, out)
    <3>1. crashes' = crashes + 1 /\ mem' = disk'
      BY <2>4 DEF Die
    <3>. QED BY <3>1 DEF Booking
  <2>. QED BY <2>2, <2>3, <2>4 DEF Run
<1>2. CASE UNCHANGED <<mem, disk, crashes>>
  BY <1>2 DEF Booking
<1>3. CASE Crash
  BY <1>3 DEF Crash, Booking
<1>. QED BY <1>1, <1>2, <1>3 DEF Step

\* The status turns to `paid` only where the evidence then in the table allows
\* it and the stage was open, or by recovering a booking the file held.
THEOREM BookingsAreEarned == Spec => BookingNeedsCurrentEvidence
<1>1. TypeOK /\ [Next]_vars => [Booking]_vars
  BY NextIsStep, StepBooks
<1>2. [Booking]_vars =>
        [\A o \in Opps : mem[o].status # "paid" /\ mem'[o].status = "paid" =>
           \/ mem[o].stage \notin Terminal
              /\ PayoutEligible(ForSubject(table', o))
           \/ crashes' = crashes + 1 /\ disk'[o].status = "paid"]_vars
  BY DEF Booking
<1>. QED BY <1>1, <1>2, TypeCorrect, PTL DEF Spec, BookingNeedsCurrentEvidence

-----------------------------------------------------------------------------
\* What the policy accepts as proof of a payment.

PaymentProof(ev) == /\ IsVerified(ev)
                    /\ ev.type \in PaymentSlot \cup {"transaction_receipt"}

\* Both chains that book a payout end in a record from outside: what the program,
\* its operator or a model says of itself is below the floor (L1, L2), and the
\* requirements of both forbid a manual record in its place.
LEMMA PayoutNeedsProof ==
  ASSUME NEW evs, \A ev \in evs : ev.level \in Int, PayoutEligible(evs)
  PROVE  \E ev \in evs : PaymentProof(ev)
<1>1. CASE IsTransitionEligible("SUBMITTED->PAID", evs)
  <2>. DEFINE req == Requirement("SUBMITTED->PAID")
  <2>1. PaymentSlot \in req.slots /\ req.minLevel = L3 /\ req.allowManual = FALSE
    BY DEF Requirement, Require
  <2>2. SlotSatisfied(PaymentSlot, req, evs)
    BY <1>1, <2>1 DEF IsTransitionEligible
  <2>3. PICK ev \in evs : /\ ev.type \in PaymentSlot /\ ev.status \in Affirmative
                          /\ ev.level >= L3
    BY <2>1, <2>2 DEF SlotSatisfied
  <2>. QED BY <2>3 DEF PaymentProof, IsVerified
<1>2. CASE IsTransitionEligible("CLAIMED->REVENUE_REALIZED", evs)
  <2>. DEFINE req == Requirement("CLAIMED->REVENUE_REALIZED")
              slot == {"balance_delta", "transaction_receipt"}
  <2>1. slot \in req.slots /\ req.minLevel = L5 /\ req.allowManual = FALSE
    BY DEF Requirement, Require
  <2>2. SlotSatisfied(slot, req, evs)
    BY <1>2, <2>1 DEF IsTransitionEligible
  <2>3. PICK ev \in evs : /\ ev.type \in slot /\ ev.status \in Affirmative
                          /\ ev.level >= L5
    BY <2>1, <2>2 DEF SlotSatisfied
  <2>4. ev.level >= L3
    BY <2>3 DEF L3, L5
  <2>. QED BY <2>3, <2>4 DEF PaymentProof, IsVerified, PaymentSlot
<1>. QED BY <1>1, <1>2 DEF PayoutEligible

\* Nothing that is added to the evidence takes an eligibility away.
LEMMA EvidenceAddsUp ==
  ASSUME NEW evs, NEW more, evs \subseteq more, PayoutEligible(evs)
  PROVE  PayoutEligible(more)
  BY DEF PayoutEligible, IsTransitionEligible, SlotSatisfied

\* Each step that books a payout finds in the table an affirmative record about
\* the opportunity, at or above the external-source floor and of a kind that
\* shows a payment, or recovers a booking from the file (is_transition_eligible,
\* _mark_paid): no claim is paid on the word of the one who makes it.
THEOREM PayoutsAreVerified ==
  Spec => [][\A o \in Opps : mem[o].status # "paid" /\ mem'[o].status = "paid" =>
               \/ \E ev \in ForSubject(table', o) : PaymentProof(ev)
               \/ crashes' = crashes + 1 /\ disk'[o].status = "paid"]_vars
<1>. DEFINE Verified ==
       \A o \in Opps : mem[o].status # "paid" /\ mem'[o].status = "paid" =>
         \/ \E ev \in ForSubject(table', o) : PaymentProof(ev)
         \/ crashes' = crashes + 1 /\ disk'[o].status = "paid"
<1>1. ASSUME TypeOK', Booking
      PROVE  Verified
  <2>1. ASSUME NEW o \in Opps
        PROVE  \A ev \in ForSubject(table', o) : ev.level \in Int
    BY <1>1 DEF TypeOK, Tables, ForSubject, Rows, EvidenceRecord, Levels, L5
  <2>. QED BY <1>1, <2>1, PayoutNeedsProof DEF Booking
<1>2. TypeOK /\ TypeOK' /\ [Next]_vars => [Verified]_vars
  BY <1>1, NextIsStep, StepBooks
<1>. QED BY <1>2, TypeCorrect, PTL DEF Spec

-----------------------------------------------------------------------------
DInv == StageIsDurable /\ BookingIsDurable

LEMMA FileKeepsUp ==
  ASSUME ~SavesMayFail
  PROVE  Spec => []DInv
<1>1. Init => DInv
  BY DEF Init, DInv, StageIsDurable, BookingIsDurable
<1>2. TypeOK /\ DInv /\ Step => DInv'
  <2>. SUFFICES ASSUME TypeOK, DInv, Step PROVE DInv'
    OBVIOUS
  <2>1. ASSUME NEW o \in Opps, Handled(o) PROVE DInv'
    <3>1. PICK out : /\ out.final.stage = out.last.stage
                     /\ out.final.status = "paid" => out.last.status = "paid"
                     /\ Run(o, out)
      BY <2>1 DEF Handled, Good
    <3>2. CASE Return(o, out)
      <4>1. mem' = Snapshot(o, out.final) /\ disk' = Snapshot(o, out.last)
        BY <3>2 DEF Return
      <4>. QED BY <3>1, <4>1
           DEF DInv, StageIsDurable, BookingIsDurable, Snapshot, TypeOK
    <3>3. CASE Die(o, out)
      BY <3>3 DEF Die, DInv, StageIsDurable, BookingIsDurable
    <3>. QED BY <3>1, <3>2, <3>3 DEF Run
  <2>2. CASE UNCHANGED <<mem, disk, crashes>>
    BY <2>2 DEF DInv, StageIsDurable, BookingIsDurable
  <2>3. CASE Crash
    BY <2>3 DEF Crash, DInv, StageIsDurable, BookingIsDurable
  <2>. QED BY <2>1, <2>2, <2>3 DEF Step
<1>3. DInv /\ UNCHANGED vars => DInv'
  BY DEF DInv, StageIsDurable, BookingIsDurable, vars
<1>4. TypeOK /\ DInv /\ [Next]_vars => DInv'
  BY <1>2, <1>3, NextIsStep
<1>. QED BY <1>1, <1>4, TypeCorrect, PTL DEF Spec

\* Where no save is dropped, the file holds every stage whenever a handler has
\* returned, whatever handlers ran and crashes cut short (_append).
THEOREM StagesAreDurable ==
  ASSUME ~SavesMayFail
  PROVE  Spec => []StageIsDurable
<1>1. DInv => StageIsDurable
  BY DEF DInv
<1>. QED BY <1>1, FileKeepsUp, PTL

\* Likewise the file holds every booked payout (the second save of _mark_paid).
THEOREM BookingsAreDurable ==
  ASSUME ~SavesMayFail
  PROVE  Spec => []BookingIsDurable
<1>1. DInv => BookingIsDurable
  BY DEF DInv
<1>. QED BY <1>1, FileKeepsUp, PTL

\* As long as no crash cut a handler short, every opportunity in the stage `paid`
\* is booked with a verification, so the reports see it (the second save of
\* _mark_paid, RefusePayout and start leave the stage).
THEOREM PaidStagesAreBooked == Spec => []PaidStageIsBooked
<1>1. Init => PaidStageIsBooked
  BY DEF Init, NewState, PaidStageIsBooked
<1>2. TypeOK /\ PaidStageIsBooked /\ Step => PaidStageIsBooked'
  <2>. SUFFICES ASSUME TypeOK, PaidStageIsBooked, Step PROVE PaidStageIsBooked'
    OBVIOUS
  <2>1. ASSUME NEW o \in Opps, Handled(o) PROVE PaidStageIsBooked'
    <3>1. PICK out : (Booked(mem[o]) => Booked(out.final)) /\ Run(o, out)
      BY <2>1 DEF Handled, Good
    <3>2. CASE Return(o, out)
      <4>1. mem' = Snapshot(o, out.final) /\ crashes' = crashes
        BY <3>2 DEF Return
      <4>. QED BY <3>1, <4>1 DEF PaidStageIsBooked, Booked, Snapshot, TypeOK
    <3>3. CASE Die(o, out)
      BY <3>3 DEF Die, PaidStageIsBooked, TypeOK
    <3>. QED BY <3>1, <3>2, <3>3 DEF Run
  <2>2. CASE UNCHANGED <<mem, disk, crashes>>
    BY <2>2 DEF PaidStageIsBooked
  <2>3. CASE Crash
    BY <2>3 DEF Crash, PaidStageIsBooked, TypeOK
  <2>. QED BY <2>1, <2>2, <2>3 DEF Step
<1>3. PaidStageIsBooked /\ UNCHANGED vars => PaidStageIsBooked'
  BY DEF PaidStageIsBooked, vars
<1>4. TypeOK /\ PaidStageIsBooked /\ [Next]_vars => PaidStageIsBooked'
  BY <1>2, <1>3, NextIsStep
<1>. QED BY <1>1, <1>4, TypeCorrect, PTL DEF Spec
=============================================================================
