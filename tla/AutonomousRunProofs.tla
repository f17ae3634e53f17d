-------------------------- MODULE AutonomousRunProofs --------------------------
(***************************************************************************)
(* Proofs about the autonomous loop, for every number of opportunities,    *)
(* runs and crashes, and, where a theorem does not say otherwise, of       *)
(* threads.                                                                *)
(***************************************************************************)
EXTENDS AutonomousRun, FiniteSetTheorems, TLAPS

\* A run in progress has an opportunity.
Engaged == \A t \in Threads : Active(t) => run[t].opp \in Opps

TypeInv == TypeOK /\ Engaged

-----------------------------------------------------------------------------
(* What a step does to the run of its thread. *)

\* A step other than the last keeps the run in progress, its opportunity and,
\* but for _begin_run, its id; other threads do not notice.
Advances(t) ==
  /\ run' \in [Threads -> Run]
  /\ Active(t) /\ run'[t].at # "idle"
  /\ run'[t].opp = run[t].opp
  /\ run[t].begun => run'[t].begun
  /\ \A u \in Threads \ {t} : run'[u] = run[u]

LEMMA PutAdvances ==
  ASSUME TypeInv, NEW t \in Threads, Active(t), NEW r \in Run,
         r.at # "idle", r.opp = run[t].opp, run[t].begun => r.begun,
         run' = [run EXCEPT ![t] = r]
  PROVE  Advances(t)
  BY DEF TypeInv, TypeOK, Advances

LEMMA GoesAdvances ==
  ASSUME TypeInv, NEW t \in Threads, Active(t),
         NEW step \in Steps \ {"idle"}, Goes(t, step)
  PROVE  Advances(t) /\ run'[t] = [run[t] EXCEPT !.at = step]
  BY DEF TypeInv, TypeOK, Advances, Goes, Run, Active

LEMMA EndsAdvances ==
  ASSUME TypeInv, NEW t \in Threads, Active(t),
         NEW decision \in Decisions, Ends(t, decision)
  PROVE  /\ Advances(t)
         /\ run'[t] = [run[t] EXCEPT !.at = "sync", !.decision = decision]
  BY DEF TypeInv, TypeOK, Advances, Ends, Run, Active, Steps

LEMMA StepAdvances ==
  ASSUME TypeInv, NEW t \in Threads, Step(t), ~PersistRun(t)
  PROVE  Advances(t)
<1>. Active(t)
  BY DEF Step, Active, Stop, Checked, ReplayGuard, BeginRun, Deduplicate,
         CheckEconomics, RequestApproval, Execute, Validate, Submit,
         MarkIrreversible, Verify, Learn, Rerank, SyncFinalState
<1>. {"begin", "dedup", "economics", "approval", "execute", "validate", "submit",
      "mark", "verify", "learn", "rerank", "sync", "persist"}
       \subseteq Steps \ {"idle"}
  BY DEF Steps, Checked, Early
<1>. {"failed", "reject", "await_approval"} \subseteq Decisions
  BY DEF Decisions
<1>1. CASE Stop(t)
  BY <1>1, EndsAdvances DEF Stop
<1>2. CASE ReplayGuard(t)
  BY <1>2, GoesAdvances, EndsAdvances DEF ReplayGuard
<1>3. CASE BeginRun(t)
  <2>. DEFINE r == [run[t] EXCEPT !.at = "dedup", !.begun = TRUE]
  <2>1. r \in Run /\ r.at = "dedup" /\ r.opp = run[t].opp /\ r.begun
    BY DEF TypeInv, TypeOK, Run, Steps, Checked
  <2>2. run' = [run EXCEPT ![t] = r]
    BY <1>3 DEF BeginRun, TypeInv, TypeOK, Run
  <2>. QED BY <2>1, <2>2, PutAdvances
<1>4. CASE Deduplicate(t) \/ CheckEconomics(t) \/ RequestApproval(t)
  BY <1>4, GoesAdvances, EndsAdvances
     DEF Deduplicate, CheckEconomics, RequestApproval
<1>5. CASE Execute(t)
  BY <1>5, GoesAdvances, EndsAdvances DEF Execute
<1>6. CASE Validate(t)
  <2>1. CASE Ends(t, "reject")
    BY <2>1, EndsAdvances
  <2>2. CASE run' = [run EXCEPT ![t].at = "submit", ![t].validated = artifact.opp]
    <3>. DEFINE r == [run[t] EXCEPT !.at = "submit", !.validated = artifact.opp]
    <3>1. /\ r \in Run /\ r.at = "submit" /\ r.opp = run[t].opp
          /\ r.begun = run[t].begun
      BY DEF TypeInv, TypeOK, Run, Steps, Artifact
    <3>2. run' = [run EXCEPT ![t] = r]
      BY <2>2 DEF TypeInv, TypeOK, Run
    <3>. QED BY <3>1, <3>2, PutAdvances
  <2>. QED BY <1>6, <2>1, <2>2 DEF Validate
<1>7. CASE Submit(t) \/ MarkIrreversible(t) \/ Rerank(t) \/ SyncFinalState(t)
  BY <1>7, GoesAdvances DEF Submit, MarkIrreversible, Rerank, SyncFinalState
<1>8. CASE Verify(t)
  <2>1. PICK paid \in BOOLEAN :
           run' = [run EXCEPT ![t].at = "learn", ![t].paid = paid]
    BY <1>8 DEF Verify
  <2>. DEFINE r == [run[t] EXCEPT !.at = "learn", !.paid = paid]
  <2>2. /\ r \in Run /\ r.at = "learn" /\ r.opp = run[t].opp
        /\ r.begun = run[t].begun
    BY DEF TypeInv, TypeOK, Run, Steps, Checked
  <2>3. run' = [run EXCEPT ![t] = r]
    BY <2>1 DEF TypeInv, TypeOK, Run
  <2>. QED BY <2>2, <2>3, PutAdvances
<1>9. CASE Learn(t)
  <2>. DEFINE d == IF run[t].paid THEN "proceed" ELSE "completed_unpaid"
              r == [run[t] EXCEPT !.at = "rerank", !.decision = d]
  <2>1. d \in Decisions
    BY DEF Decisions
  <2>2. /\ r \in Run /\ r.at = "rerank" /\ r.opp = run[t].opp
        /\ r.begun = run[t].begun
    BY <2>1 DEF TypeInv, TypeOK, Run, Steps, Checked
  <2>3. run' = [run EXCEPT ![t] = r]
    BY <1>9 DEF Learn, TypeInv, TypeOK, Run
  <2>. QED BY <2>2, <2>3, PutAdvances
<1>. QED BY <1>1, <1>2, <1>3, <1>4, <1>5, <1>6, <1>7, <1>8, <1>9 DEF Step

-----------------------------------------------------------------------------
(* Types. *)

LEMMA IdleRun == Idle \in Run /\ Idle.at = "idle" /\ Idle.begun = FALSE
  BY DEF Idle, Run, Steps, Decisions

LEMMA InitType == Init => TypeInv
<1>1. Idle \in Run
  BY IdleRun
<1>2. NoArtifact \in Artifact
  BY DEF NoArtifact, Artifact
<1>3. ASSUME Init, NEW t \in Threads PROVE ~Active(t)
  BY <1>3, IdleRun DEF Init, Active
<1>. QED BY <1>1, <1>2, <1>3, RunAssumption DEF Init, TypeInv, TypeOK, Engaged, Rows, Work

LEMMA NextType ==
  ASSUME TypeInv, [Next]_vars
  PROVE  TypeInv'
<1>. USE RunAssumption DEF TypeInv, TypeOK
<1>1. ASSUME NEW t \in Threads, Step(t), ~PersistRun(t)
      PROVE  TypeInv'
  <2>1. Advances(t) /\ run[t].opp \in Opps
    BY <1>1, StepAdvances DEF Engaged, Advances
  <2>2. Engaged' /\ run' \in [Threads -> Run]
    BY <2>1 DEF Engaged, Advances, Active
  <2>3. free' = free /\ runs' = runs /\ crashes' = crashes
    BY <1>1 DEF Step, Stop, ReplayGuard, BeginRun, Deduplicate, CheckEconomics,
       RequestApproval, Execute, Validate, Submit, MarkIrreversible, Verify,
       Learn, Rerank, SyncFinalState, counters
  <2>4. cancelled' \subseteq Opps /\ artifact' \in Artifact
    BY <1>1, <2>1 DEF Step, Stop, ReplayGuard, BeginRun, Deduplicate,
       CheckEconomics, RequestApproval, Execute, Validate, Submit,
       MarkIrreversible, Verify, Learn, Rerank, SyncFinalState, Artifact
  <2>5. ledger' \in [Opps -> Rows] /\ refused' \subseteq Opps
    BY <1>1 DEF Step, Stop, ReplayGuard, BeginRun, Deduplicate,
       CheckEconomics, RequestApproval, Execute, Validate, Submit,
       MarkIrreversible, Verify, Learn, Rerank, SyncFinalState, stores, Rows
  <2>6. keys' \subseteq Opps /\ won' \subseteq Opps
    BY <1>1, <2>1 DEF Step, Stop, ReplayGuard, BeginRun, Deduplicate,
       CheckEconomics, RequestApproval, Execute, Validate, Submit,
       MarkIrreversible, Verify, Learn, Rerank, SyncFinalState, stores
  <2>7. work' \in [Opps -> Work]
    <3>1. CASE Execute(t)
      BY <3>1 DEF Execute, ExecutorLeaves, Work
    <3>2. CASE SyncFinalState(t)
      BY <3>2, <2>1 DEF SyncFinalState, Work
    <3>. QED BY <1>1, <3>1, <3>2 DEF Step, Stop, ReplayGuard, BeginRun,
         Deduplicate, CheckEconomics, RequestApproval, Validate, Submit,
         MarkIrreversible, Verify, Learn, Rerank, stores
  <2>8. sent' \in [Opps -> Nat]
    <3>1. CASE Submit(t)
      BY <3>1, <2>1 DEF Submit
    <3>. QED BY <1>1, <3>1 DEF Step, Stop, ReplayGuard, BeginRun,
         Deduplicate, CheckEconomics, RequestApproval, Execute, Validate,
         MarkIrreversible, Verify, Learn, Rerank, SyncFinalState
  <2>. QED BY <2>2, <2>3, <2>4, <2>5, <2>6, <2>7, <2>8
<1>2. ASSUME NEW t \in Threads, PersistRun(t)
      PROVE  TypeInv'
  <2>1. Engaged' /\ run' \in [Threads -> Run]
    BY <1>2 DEF PersistRun, Engaged, Active, Idle, Run, Steps, Decisions
  <2>2. ledger' \in [Opps -> Rows] /\ refused' \subseteq Opps
    BY <1>2 DEF PersistRun, FinalRow, Rows, Engaged, Active
  <2>. QED BY <1>2, <2>1, <2>2 DEF PersistRun, counters
<1>3. ASSUME NEW t \in Threads, NEW o \in Opps, Start(t, o)
      PROVE  TypeInv'
  <2>1. Engaged' /\ run' \in [Threads -> Run]
    BY <1>3 DEF Start, Engaged, Active, Idle, Run, Steps, Early, Decisions
  <2>2. free' \in Nat
    BY <1>3 DEF Start
  <2>. QED BY <1>3, <2>1, <2>2 DEF Start, stores
<1>4. ASSUME NEW o \in Opps, Cancel(o)
      PROVE  TypeInv'
  <2>0. \A t \in Threads : /\ run'[t] \in Run
                            /\ run'[t].at = run[t].at /\ run'[t].opp = run[t].opp
    BY <1>4 DEF Cancel, Run
  <2>1. Engaged' /\ run' \in [Threads -> Run]
    BY <1>4, <2>0 DEF Cancel, Engaged, Active
  <2>. QED BY <1>4, <2>1 DEF Cancel, stores, counters
<1>5. CASE Restart
  <2>1. Engaged' /\ run' \in [Threads -> Run]
    BY <1>5 DEF Restart, Engaged, Active, Idle, Run, Steps, Decisions
  <2>2. ledger' \in [Opps -> Rows]
    BY <1>5 DEF Restart, RecoverIncomplete, Rows
  <2>. QED BY <1>5, <2>1, <2>2 DEF Restart, NoArtifact, Artifact
<1>6. CASE UNCHANGED vars
  BY <1>6 DEF vars, Engaged, Active
<1>. QED BY <1>1, <1>2, <1>3, <1>4, <1>5, <1>6 DEF Next

\* The loop keeps its types, and a run in progress always has an opportunity.
THEOREM RunTypeCorrect == Spec => []TypeOK
<1>1. Spec => []TypeInv
  BY InitType, NextType, PTL DEF Spec
<1>. QED BY <1>1, PTL DEF TypeInv

-----------------------------------------------------------------------------
(* The order of the stages. *)

After(step) ==
  CASE step = "guard" -> {"begin", "sync"}
    [] step = "begin" -> {"dedup"}
    [] step = "dedup" -> {"economics", "sync"}
    [] step = "economics" -> {"approval", "sync"}
    [] step = "approval" -> {"execute", "sync"}
    [] step = "execute" -> {"validate", "sync"}
    [] step = "validate" -> {"submit", "sync"}
    [] step = "submit" -> {"mark", "verify"}
    [] step = "mark" -> {"verify"}
    [] step = "verify" -> {"learn", "sync"}
    [] step = "learn" -> {"rerank", "sync"}
    [] step = "rerank" -> {"sync"}
    [] step = "sync" -> {"persist"}
    [] OTHER -> {"idle"}

LEMMA StagesInOrder ==
  ASSUME TypeInv, NEW t \in Threads, Step(t)
  PROVE  run'[t].at \in After(run[t].at)
<1>. USE DEF TypeInv, TypeOK, Run, Goes, Ends
<1>1. CASE Stop(t)
  BY <1>1 DEF Stop, Checked, After
<1>2. CASE ReplayGuard(t) \/ BeginRun(t)
  BY <1>2 DEF ReplayGuard, BeginRun, After
<1>3. CASE Deduplicate(t) \/ CheckEconomics(t) \/ RequestApproval(t)
  BY <1>3 DEF Deduplicate, CheckEconomics, RequestApproval, After
<1>4. CASE Execute(t) \/ Validate(t)
  BY <1>4 DEF Execute, Validate, After
<1>5. CASE Submit(t) \/ MarkIrreversible(t)
  BY <1>5 DEF Submit, MarkIrreversible, After
<1>6. CASE Verify(t) \/ Learn(t) \/ Rerank(t)
  BY <1>6 DEF Verify, Learn, Rerank, After
<1>7. CASE SyncFinalState(t)
  BY <1>7 DEF SyncFinalState, After
<1>8. CASE PersistRun(t)
  <2>1. run[t].at = "persist" /\ run'[t].at = "idle"
    BY <1>8, IdleRun DEF PersistRun
  <2>. QED BY <2>1 DEF After
<1>. QED BY <1>1, <1>2, <1>3, <1>4, <1>5, <1>6, <1>7, <1>8 DEF Step

LEMMA StepIsActive ==
  ASSUME NEW t \in Threads, Step(t)
  PROVE  Active(t)
  BY DEF Step, Active, Stop, Checked, ReplayGuard, BeginRun, Deduplicate,
     CheckEconomics, RequestApproval, Execute, Validate, Submit,
     MarkIrreversible, Verify, Learn, Rerank, SyncFinalState, PersistRun

\* A thread that steps leaves the others as they are.
LEMMA OthersWait ==
  ASSUME TypeInv, NEW t \in Threads, Step(t), NEW u \in Threads, u # t
  PROVE  run'[u] = run[u]
  BY StepAdvances DEF Advances, PersistRun, TypeInv, TypeOK

-----------------------------------------------------------------------------
(* A key stands for a submission. *)

KeyInv ==
  /\ KeyMeansSubmitted
  /\ \A t \in Threads : run[t].at = "mark" => sent[run[t].opp] > 0

LEMMA SentGrows ==
  ASSUME TypeInv, [Next]_vars, NEW o \in Opps
  PROVE  sent'[o] \in Nat /\ sent'[o] >= sent[o]
<1>1. ASSUME NEW t \in Threads, Submit(t)
      PROVE  sent'[o] \in Nat /\ sent'[o] >= sent[o]
  BY <1>1 DEF Submit, TypeInv, TypeOK
<1>2. ASSUME ~ \E t \in Threads : Submit(t)
      PROVE  sent' = sent
  BY <1>2 DEF Next, Step, vars, Stop, ReplayGuard, BeginRun, Deduplicate,
     CheckEconomics, RequestApproval, Execute, Validate, MarkIrreversible, Verify,
     Learn, Rerank, SyncFinalState, PersistRun, Start, Cancel, Restart
<1>. QED BY <1>1, <1>2 DEF TypeInv, TypeOK

\* keys changes only by _mark_irreversible.
LEMMA KeysChange ==
  ASSUME [Next]_vars
  PROVE  \/ keys' = keys
         \/ \E t \in Threads : /\ MarkIrreversible(t)
                               /\ keys' = keys \cup {run[t].opp}
  BY DEF Next, Step, vars, stores, Stop, ReplayGuard, BeginRun, Deduplicate,
     CheckEconomics, RequestApproval, Execute, Validate, Submit, MarkIrreversible,
     Verify, Learn, Rerank, SyncFinalState, PersistRun, Start, Cancel, Restart

LEMMA KeyNext ==
  ASSUME TypeInv, KeyInv, [Next]_vars
  PROVE  KeyInv'
<1>. DEFINE Marking(u) == run[u].at = "mark" => sent[run[u].opp] > 0
<1>1. KeyMeansSubmitted'
  <2>1. ASSUME NEW o \in keys' PROVE sent[o] > 0 /\ o \in Opps
    BY <2>1, KeysChange DEF KeyInv, KeyMeansSubmitted, MarkIrreversible, TypeInv,
       TypeOK, Engaged, Active
  <2>. QED BY <2>1, SentGrows DEF KeyMeansSubmitted, TypeInv, TypeOK
<1>2. ASSUME NEW t \in Threads, Step(t), NEW u \in Threads
      PROVE  Marking(u)'
  <2>1. CASE u = t /\ run'[t].at = "mark"
    <3>1. run[t].at = "submit" /\ run[t].opp \in Opps
      BY <1>2, <2>1, StagesInOrder DEF After, TypeInv, Engaged, Active
    <3>2. Submit(t) /\ ~PersistRun(t)
      BY <1>2, <3>1 DEF Step, Stop, Checked, ReplayGuard, BeginRun, Deduplicate,
         CheckEconomics, RequestApproval, Execute, Validate, MarkIrreversible,
         Verify, Learn, Rerank, SyncFinalState, PersistRun
    <3>3. run'[t].opp = run[t].opp
      BY <1>2, <3>2, StepAdvances DEF Advances
    <3>4. sent' = [sent EXCEPT ![run[t].opp] = @ + 1]
      BY <2>1, <3>2 DEF Submit, Goes, TypeInv, TypeOK, Run
    <3>. QED BY <2>1, <3>1, <3>3, <3>4 DEF TypeInv, TypeOK
  <2>2. CASE u # t
    BY <1>2, <2>2, OthersWait, SentGrows DEF KeyInv, TypeInv, TypeOK, Engaged, Active, Next
  <2>. QED BY <2>1, <2>2
<1>3. ASSUME NEW u \in Threads, ~ \E t \in Threads : Step(t)
      PROVE  Marking(u)'
  <2>1. CASE UNCHANGED vars
    BY <2>1 DEF vars, KeyInv
  <2>2. ASSUME NEW t \in Threads, NEW o \in Opps, Start(t, o)
        PROVE  Marking(u)'
    BY <2>2 DEF Start, Idle, KeyInv, TypeInv, TypeOK
  <2>3. ASSUME NEW o \in Opps, Cancel(o)
        PROVE  Marking(u)'
    <3>1. run'[u].at = run[u].at /\ run'[u].opp = run[u].opp
      BY <2>3 DEF Cancel, TypeInv, TypeOK, Run
    <3>. QED BY <2>3, <3>1 DEF Cancel, KeyInv
  <2>4. CASE Restart
    BY <2>4 DEF Restart, Idle
  <2>. QED BY <1>3, <2>1, <2>2, <2>3, <2>4 DEF Next
<1>. QED BY <1>1, <1>2, <1>3 DEF KeyInv

\* Whatever the ledger, the platform, cancellations and crashes do, and with any
\* number of runs at once, a key stands for a submission that was made.
THEOREM KeysAreEarned == Spec => []KeyMeansSubmitted
<1>1. Init => KeyInv
  BY IdleRun DEF Init, KeyInv, KeyMeansSubmitted
<1>2. Spec => [](TypeInv /\ KeyInv)
  BY <1>1, InitType, NextType, KeyNext, PTL DEF Spec
<1>. QED BY <1>2, PTL DEF KeyInv

-----------------------------------------------------------------------------
(* The slots of the semaphore. *)

Busy == {t \in Threads : Active(t)}

\* Each slot is free or held by a run in progress.
SlotInv ==
  Slots > 0 => IsFiniteSet(Busy) /\ free + Cardinality(Busy) = Slots

LEMMA SlotNext ==
  ASSUME TypeInv, SlotInv, [Next]_vars
  PROVE  SlotInv'
<1>. SUFFICES ASSUME Slots > 0
              PROVE  IsFiniteSet(Busy') /\ free' + Cardinality(Busy') = Slots
  BY DEF SlotInv
<1>held. IsFiniteSet(Busy) /\ free + Cardinality(Busy) = Slots /\ free \in Nat
  BY DEF SlotInv, TypeInv, TypeOK
<1>size. Cardinality(Busy) \in Nat
  BY <1>held, FS_CardinalityType
<1>1. ASSUME NEW t \in Threads, Step(t), ~PersistRun(t)
      PROVE  Busy' = Busy /\ free' = free
  <2>1. Busy' = Busy
    BY <1>1, StepAdvances DEF Advances, Busy, Active
  <2>2. free' = free
    BY <1>1 DEF Step, Stop, ReplayGuard, BeginRun, Deduplicate, CheckEconomics,
       RequestApproval, Execute, Validate, Submit, MarkIrreversible, Verify,
       Learn, Rerank, SyncFinalState
  <2>. QED BY <2>1, <2>2
<1>2. ASSUME NEW t \in Threads, PersistRun(t)
      PROVE  Busy' = Busy \ {t} /\ t \in Busy /\ free' = free + 1
  BY <1>2, IdleRun DEF PersistRun, Busy, Active, TypeInv, TypeOK
<1>3. ASSUME NEW t \in Threads, NEW o \in Opps, Start(t, o)
      PROVE  Busy' = Busy \cup {t} /\ t \notin Busy /\ free' = free - 1
  <2>1. run' = [run EXCEPT ![t] = [Idle EXCEPT !.at = "guard", !.opp = o]]
    BY <1>3 DEF Start
  <2>2. run'[t].at = "guard"
    BY <2>1 DEF Idle, TypeInv, TypeOK
  <2>3. \A u \in Threads \ {t} : run'[u] = run[u]
    BY <2>1 DEF TypeInv, TypeOK
  <2>. QED BY <1>3, <2>2, <2>3 DEF Start, Busy, Active
<1>4. ASSUME NEW o \in Opps, Cancel(o)
      PROVE  Busy' = Busy /\ free' = free
  <2>1. \A t \in Threads : run'[t].at = run[t].at
    BY <1>4 DEF Cancel, TypeInv, TypeOK, Run
  <2>. QED BY <1>4, <2>1 DEF Cancel, Busy, Active
<1>5. CASE Restart
  <2>1. Busy' = {} /\ free' = Slots
    BY <1>5, IdleRun DEF Restart, Busy, Active
  <2>. QED BY <2>1, FS_EmptySet, RunAssumption
<1>6. CASE UNCHANGED vars
  BY <1>held, <1>6 DEF vars, Busy, Active
<1>7. ASSUME NEW t \in Threads, PersistRun(t)
      PROVE  IsFiniteSet(Busy') /\ free' + Cardinality(Busy') = Slots
  <2>1. Cardinality(Busy \ {t}) = Cardinality(Busy) - 1 /\ IsFiniteSet(Busy \ {t})
    BY <1>held, <1>2, <1>7, FS_RemoveElement
  <2>. QED BY <1>held, <1>size, <1>2, <1>7, <2>1
<1>8. ASSUME NEW t \in Threads, NEW o \in Opps, Start(t, o)
      PROVE  IsFiniteSet(Busy') /\ free' + Cardinality(Busy') = Slots
  <2>1. Busy' = Busy \cup {t} /\ t \notin Busy /\ free' = free - 1
    BY <1>3, <1>8
  <2>2. IsFiniteSet(Busy') /\ Cardinality(Busy') = Cardinality(Busy) + 1
    BY <1>held, <2>1, FS_AddElement
  <2>. QED BY <1>held, <1>size, <2>1, <2>2
<1>. QED BY <1>held, <1>1, <1>4, <1>5, <1>6, <1>7, <1>8 DEF Next

LEMMA SlotInit == Init => SlotInv
<1>1. ASSUME Init PROVE Busy = {} /\ free = Slots
  BY <1>1, IdleRun DEF Init, Busy, Active
<1>. QED BY <1>1, FS_EmptySet, RunAssumption DEF SlotInv

\* The semaphore bounds the runs in progress, whichever way they end and through
\* restarts: a slot is neither lost nor given twice (run, its finally clause).
THEOREM SlotsBoundRuns ==
  Spec => [](Slots > 0 => IsFiniteSet(Busy) /\ Cardinality(Busy) <= Slots)
<1>1. TypeInv /\ SlotInv
        => (Slots > 0 => IsFiniteSet(Busy) /\ Cardinality(Busy) <= Slots)
  <2>. SUFFICES ASSUME TypeInv, SlotInv, Slots > 0
                PROVE  IsFiniteSet(Busy) /\ Cardinality(Busy) <= Slots
    OBVIOUS
  <2>1. /\ IsFiniteSet(Busy) /\ free + Cardinality(Busy) = Slots /\ free \in Nat
        /\ Cardinality(Busy) \in Nat
    BY FS_CardinalityType DEF SlotInv, TypeInv, TypeOK
  <2>. QED BY <2>1
<1>. QED BY <1>1, InitType, NextType, SlotInit, SlotNext, PTL DEF Spec

-----------------------------------------------------------------------------
(* Runs that follow one another: one slot, or a single caller. *)

OneAtATime == Slots = 1 \/ \A t, u \in Threads : t = u

Alone == \A t, u \in Threads : Active(t) /\ Active(u) => t = u

LEMMA OneSlotMeansAlone ==
  ASSUME OneAtATime, TypeInv, SlotInv
  PROVE  Alone
<1>. SUFFICES ASSUME Slots = 1, NEW t \in Threads, NEW u \in Threads,
                     Active(t), Active(u), t # u
              PROVE  FALSE
  BY DEF OneAtATime, Alone
<1>1. IsFiniteSet(Busy) /\ Cardinality(Busy) \in Nat /\ free \in Nat
      /\ free + Cardinality(Busy) = 1
  BY FS_CardinalityType DEF SlotInv, TypeInv, TypeOK
<1>2. t \in Busy /\ u \in Busy \ {t}
  BY DEF Busy
<1>3. /\ IsFiniteSet(Busy \ {t})
      /\ Cardinality(Busy \ {t}) = Cardinality(Busy) - 1
  BY <1>1, <1>2, FS_RemoveElement
<1>4. Cardinality(Busy \ {t}) # 0
  BY <1>2, <1>3, FS_EmptySet
<1>5. Cardinality(Busy \ {t}) \in Nat
  BY <1>3, FS_CardinalityType
<1>. QED BY <1>1, <1>3, <1>4, <1>5

LEMMA RunsFollow ==
  ASSUME OneAtATime
  PROVE  Spec => [](TypeInv /\ Alone)
<1>1. TypeInv /\ SlotInv => Alone
  BY OneSlotMeansAlone
<1>. QED BY <1>1, InitType, NextType, SlotInit, SlotNext, PTL DEF Spec

-----------------------------------------------------------------------------
(* The guard of replays, when runs follow one another. *)

\* Stages between the guard and the mark.
Guarded == {"begin", "dedup", "economics", "approval", "execute", "validate",
            "submit", "mark"}

GuardInv == \A t \in Threads : run[t].at \in Guarded => run[t].opp \notin keys

LEMMA GuardNext ==
  ASSUME Alone, TypeInv, GuardInv, [Next]_vars
  PROVE  GuardInv'
<1>. SUFFICES ASSUME NEW t \in Threads, run'[t].at \in Guarded
              PROVE  run'[t].opp \notin keys'
  BY DEF GuardInv
<1>1. CASE Step(t)
  <2>1. /\ ~MarkIrreversible(t) /\ ~PersistRun(t)
        /\ run[t].at \in Guarded \cup {"guard"}
    BY <1>1, StagesInOrder DEF After, Guarded, MarkIrreversible, PersistRun
  <2>2. keys' = keys
    BY <2>1, KeysChange DEF Alone, Active, Guarded, MarkIrreversible
  <2>3. run'[t].opp = run[t].opp
    BY <1>1, <2>1, StepAdvances DEF Advances
  <2>4. CASE run[t].at = "guard"
    <3>1. ReplayGuard(t)
      BY <1>1, <2>4 DEF Step, Stop, Checked, BeginRun, Deduplicate, CheckEconomics,
         RequestApproval, Execute, Validate, Submit, MarkIrreversible, Verify,
         Learn, Rerank, SyncFinalState, PersistRun
    <3>2. run[t].opp \notin keys
      <4>1. CASE Ends(t, "reject")
        BY <4>1 DEF Ends, Guarded, TypeInv, TypeOK, Run
      <4>. QED BY <3>1, <4>1 DEF ReplayGuard
    <3>. QED BY <2>2, <2>3, <3>2
  <2>. QED BY <2>1, <2>2, <2>3, <2>4 DEF GuardInv
<1>2. CASE UNCHANGED vars
  BY <1>2 DEF vars, GuardInv
<1>3. ASSUME NEW u \in Threads, NEW o \in Opps, Start(u, o)
      PROVE  run'[t].opp \notin keys'
  <2>1. u # t
    BY <1>3 DEF Start, Guarded, Idle, TypeInv, TypeOK
  <2>. QED BY <1>3, <2>1 DEF Start, stores, GuardInv, TypeInv, TypeOK
<1>4. ASSUME NEW o \in Opps, Cancel(o)
      PROVE  run'[t].opp \notin keys'
  <2>1. run'[t].at = run[t].at /\ run'[t].opp = run[t].opp
    BY <1>4 DEF Cancel, TypeInv, TypeOK, Run
  <2>. QED BY <1>4, <2>1 DEF Cancel, stores, GuardInv
<1>5. CASE Restart
  BY <1>5, IdleRun DEF Restart, Guarded
<1>6. ASSUME NEW u \in Threads, Step(u), u # t
      PROVE  FALSE
  BY <1>6, OthersWait, StepIsActive DEF Alone, Active, Guarded
<1>. QED BY <1>1, <1>2, <1>3, <1>4, <1>5, <1>6 DEF Next

LEMMA NoResubmission ==
  ASSUME TypeInv, GuardInv, [Next]_vars
  PROVE  \A o \in Opps : o \in keys => sent'[o] = sent[o]
<1>1. ASSUME NEW t \in Threads, Submit(t)
      PROVE  \A o \in Opps : o \in keys => sent'[o] = sent[o]
  <2>1. run[t].opp \notin keys
    BY <1>1 DEF Submit, GuardInv, Guarded
  <2>. QED BY <1>1, <2>1 DEF Submit, TypeInv, TypeOK
<1>2. CASE ~ \E t \in Threads : Submit(t)
  BY <1>2 DEF Next, Step, vars, Stop, ReplayGuard, BeginRun, Deduplicate,
     CheckEconomics, RequestApproval, Execute, Validate, MarkIrreversible, Verify,
     Learn, Rerank, SyncFinalState, PersistRun, Start, Cancel, Restart
<1>. QED BY <1>1, <1>2

\* With runs one after the other, nothing makes the loop submit an opportunity
\* again once its key is written: no crash, no ledger that fails, no lost reply.
THEOREM MarksAreFinal ==
  ASSUME OneAtATime
  PROVE  Spec => MarkedIsNeverResubmitted
<1>1. Init => GuardInv
  BY DEF Init, GuardInv
<1>2. Spec => [](TypeInv /\ GuardInv)
  BY <1>1, RunsFollow, GuardNext, PTL DEF Spec
<1>3. TypeInv /\ GuardInv /\ [Next]_vars
        => [\A o \in Opps : o \in keys => sent'[o] = sent[o]]_vars
  BY NoResubmission
<1>. QED BY <1>2, <1>3, PTL DEF Spec, MarkedIsNeverResubmitted

-----------------------------------------------------------------------------
(* The rows, when the ledger's database does not fail. *)

LEMMA BegunOnce ==
  ASSUME TypeInv, NEW t \in Threads, Step(t), ~BeginRun(t), ~PersistRun(t)
  PROVE  run'[t].begun = run[t].begun
  BY DEF TypeInv, TypeOK, Run, Step, Goes, Ends, Stop, ReplayGuard, Deduplicate,
     CheckEconomics, RequestApproval, Execute, Validate, Submit,
     MarkIrreversible, Verify, Learn, Rerank, SyncFinalState

\* Rows change when a run begins, when it is filed, and at a restart.
LEMMA LedgerChange ==
  ASSUME TypeInv, NEW t \in Threads, Step(t), ~BeginRun(t), ~PersistRun(t)
  PROVE  ledger' = ledger
  BY DEF Step, stores, Stop, ReplayGuard, Deduplicate, CheckEconomics,
     RequestApproval, Execute, Validate, Submit, MarkIrreversible, Verify,
     Learn, Rerank, SyncFinalState

\* A cancellation leaves every run where it is.
LEMMA CancelWaits ==
  ASSUME TypeInv, NEW o \in Opps, Cancel(o), NEW t \in Threads
  PROVE  /\ run'[t].at = run[t].at /\ run'[t].opp = run[t].opp
         /\ run'[t].begun = run[t].begun
         /\ ledger' = ledger /\ keys' = keys
  BY DEF Cancel, stores, TypeInv, TypeOK, Run

LEMMA RowsNext ==
  ASSUME ~LedgerMayFail, TypeInv, RunningHasARun, [Next]_vars
  PROVE  RunningHasARun'
<1>. SUFFICES ASSUME NEW o \in Opps, ledger'[o] = "RUNNING"
              PROVE  \E t \in Threads : InFlight(t)' /\ run'[t].opp = o
  BY DEF RunningHasARun
<1>1. ASSUME NEW t \in Threads, Step(t), ~BeginRun(t), ~PersistRun(t)
      PROVE  \E u \in Threads : InFlight(u)' /\ run'[u].opp = o
  <2>1. ledger'[o] = ledger[o]
    BY <1>1, LedgerChange
  <2>2. PICK u \in Threads : InFlight(u) /\ run[u].opp = o
    BY <2>1 DEF RunningHasARun
  <2>3. InFlight(u)' /\ run'[u].opp = o
    BY <1>1, <2>2, StepAdvances, OthersWait DEF Advances, InFlight
  <2>. QED BY <2>3
<1>2. ASSUME NEW t \in Threads, BeginRun(t)
      PROVE  \E u \in Threads : InFlight(u)' /\ run'[u].opp = o
  <2>1. Step(t) /\ ~PersistRun(t)
    BY <1>2 DEF Step, BeginRun, PersistRun
  <2>2. run'[t].begun /\ Advances(t)
    BY <1>2, <2>1, StepAdvances DEF BeginRun, TypeInv, TypeOK, Run
  <2>3. CASE run[t].opp = o
    BY <2>2, <2>3 DEF Advances, InFlight
  <2>4. CASE run[t].opp # o
    <3>1. ledger'[o] = ledger[o]
      BY <1>2, <2>4 DEF BeginRun, TypeInv, TypeOK
    <3>2. PICK u \in Threads : InFlight(u) /\ run[u].opp = o
      BY <3>1 DEF RunningHasARun
    <3>. QED BY <2>2, <2>4, <3>2 DEF Advances, InFlight
  <2>. QED BY <2>3, <2>4
<1>3. ASSUME NEW t \in Threads, PersistRun(t)
      PROVE  \E u \in Threads : InFlight(u)' /\ run'[u].opp = o
  <2>1. Active(t) /\ run[t].opp \in Opps
    BY <1>3 DEF PersistRun, Active, TypeInv, Engaged
  <2>2. FinalRow(t) # "RUNNING"
    BY DEF FinalRow
  <2>3. ledger'[o] = ledger[o] /\ ~(run[t].begun /\ run[t].opp = o)
    BY <1>3, <2>1, <2>2 DEF PersistRun, TypeInv, TypeOK
  <2>4. PICK u \in Threads : InFlight(u) /\ run[u].opp = o
    BY <2>3 DEF RunningHasARun
  <2>5. run'[u] = run[u]
    BY <1>3, <2>3, <2>4 DEF PersistRun, InFlight, TypeInv, TypeOK
  <2>. QED BY <2>4, <2>5 DEF InFlight
<1>4. ASSUME NEW t \in Threads, NEW p \in Opps, Start(t, p)
      PROVE  \E u \in Threads : InFlight(u)' /\ run'[u].opp = o
  <2>1. PICK u \in Threads : InFlight(u) /\ run[u].opp = o
    BY <1>4 DEF Start, stores, RunningHasARun
  <2>2. run'[u] = run[u]
    BY <1>4, <2>1 DEF Start, Active, InFlight, TypeInv, TypeOK
  <2>. QED BY <2>1, <2>2 DEF InFlight
<1>5. ASSUME NEW p \in Opps, Cancel(p)
      PROVE  \E u \in Threads : InFlight(u)' /\ run'[u].opp = o
  <2>1. PICK u \in Threads : InFlight(u) /\ run[u].opp = o
    BY <1>5 DEF Cancel, stores, RunningHasARun
  <2>2. /\ run'[u].at = run[u].at /\ run'[u].opp = run[u].opp
        /\ run'[u].begun = run[u].begun
    BY <1>5, CancelWaits
  <2>. QED BY <2>1, <2>2 DEF InFlight
<1>6. CASE Restart
  BY <1>6 DEF Restart, RecoverIncomplete
<1>7. CASE UNCHANGED vars
  BY <1>7 DEF vars, RunningHasARun, InFlight
<1>. QED BY <1>1, <1>2, <1>3, <1>4, <1>5, <1>6, <1>7 DEF Next, Step

\* While the ledger's database does not fail, no row shows RUNNING without a run
\* that will file it, whatever number of runs there are at once.
THEOREM RowsHaveRuns ==
  ASSUME ~LedgerMayFail
  PROVE  Spec => []RunningHasARun
<1>1. Init => RunningHasARun
  BY DEF Init, RunningHasARun
<1>. QED BY <1>1, InitType, NextType, RowsNext, PTL DEF Spec

-----------------------------------------------------------------------------
(* The ledger's promise, when runs follow one another. *)

\* Steps of a run that _begin_run has given its id.
Numbered == {"dedup", "economics", "approval", "execute", "validate", "submit",
             "mark", "verify", "learn", "rerank"}

NumberInv ==
  \A t \in Threads : /\ run[t].at \in {"guard", "begin"} => ~run[t].begun
                     /\ run[t].at \in Numbered => run[t].begun

LedgerInv == GuardInv /\ NumberInv /\ RunningHasARun /\ InFlightIsVisible

LEMMA NumberNext ==
  ASSUME TypeInv, NumberInv, [Next]_vars
  PROVE  NumberInv'
<1>. DEFINE Numbers(u) == /\ run[u].at \in {"guard", "begin"} => ~run[u].begun
                          /\ run[u].at \in Numbered => run[u].begun
<1>. SUFFICES ASSUME NEW u \in Threads
              PROVE  Numbers(u)'
  BY DEF NumberInv
<1>1. Numbers(u)
  BY DEF NumberInv
<1>2. CASE Step(u) /\ ~BeginRun(u) /\ ~PersistRun(u)
  <2>1. run'[u].begun = run[u].begun /\ run'[u].at \in After(run[u].at)
    BY <1>2, BegunOnce, StagesInOrder
  <2>2. run[u].at # "begin" \/ run'[u].at \notin Numbered
    BY <1>2 DEF Step, BeginRun, Stop, Checked, ReplayGuard, Deduplicate,
       CheckEconomics, RequestApproval, Execute, Validate, Submit,
       MarkIrreversible, Verify, Learn, Rerank, SyncFinalState, PersistRun
  <2>. QED BY <1>1, <1>2, <2>1, <2>2 DEF Numbered, After
<1>3. CASE BeginRun(u)
  BY <1>3 DEF BeginRun, TypeInv, TypeOK, Run, Numbered
<1>4. CASE PersistRun(u) \/ Restart
  <2>1. run'[u] = Idle
    BY <1>4 DEF PersistRun, Restart, TypeInv, TypeOK
  <2>. QED BY <2>1, IdleRun DEF Numbered
<1>5. ASSUME NEW o \in Opps, Start(u, o)
      PROVE  Numbers(u)'
  <2>1. run'[u] = [Idle EXCEPT !.at = "guard", !.opp = o]
    BY <1>5 DEF Start, TypeInv, TypeOK
  <2>2. run'[u].at = "guard" /\ run'[u].begun = FALSE
    BY <2>1 DEF Idle
  <2>. QED BY <2>2 DEF Numbered
<1>6. ASSUME NEW t \in Threads, t # u, Step(t) \/ \E o \in Opps : Start(t, o)
      PROVE  Numbers(u)'
  <2>1. run'[u] = run[u]
    BY <1>6, OthersWait DEF Start, TypeInv, TypeOK
  <2>. QED BY <1>1, <2>1
<1>7. CASE \E o \in Opps : Cancel(o)
  BY <1>1, <1>7, CancelWaits
<1>8. CASE UNCHANGED vars
  BY <1>1, <1>8 DEF vars
<1>. QED BY <1>2, <1>3, <1>4, <1>5, <1>6, <1>7, <1>8 DEF Next, Step

LEMMA VisibleNext ==
  ASSUME Alone, ~LedgerMayFail, TypeInv, InFlightIsVisible, [Next]_vars
  PROVE  InFlightIsVisible'
<1>. SUFFICES ASSUME NEW t \in Threads, InFlight(t)'
              PROVE  ledger'[run'[t].opp] = "RUNNING"
  BY DEF InFlightIsVisible
<1>1. CASE Step(t) /\ ~BeginRun(t) /\ ~PersistRun(t)
  <2>1. InFlight(t) /\ run'[t].opp = run[t].opp
    BY <1>1, BegunOnce, StepAdvances DEF InFlight, Advances, Active
  <2>. QED BY <1>1, <2>1, LedgerChange DEF InFlightIsVisible
<1>2. CASE BeginRun(t)
  <2>1. Active(t) /\ run[t].opp \in Opps
    BY <1>2 DEF BeginRun, Active, TypeInv, Engaged
  <2>. QED BY <1>2, <2>1 DEF BeginRun, TypeInv, TypeOK, Run
<1>3. CASE PersistRun(t) \/ Restart
  BY <1>3, IdleRun DEF PersistRun, Restart, InFlight, TypeInv, TypeOK
<1>4. ASSUME NEW u \in Threads, NEW o \in Opps, Start(u, o)
      PROVE  ledger'[run'[t].opp] = "RUNNING"
  <2>1. u # t
    BY <1>4, IdleRun DEF Start, Idle, InFlight, TypeInv, TypeOK
  <2>. QED BY <1>4, <2>1 DEF Start, stores, InFlight, InFlightIsVisible, TypeInv,
           TypeOK
<1>5. ASSUME NEW o \in Opps, Cancel(o)
      PROVE  ledger'[run'[t].opp] = "RUNNING"
  BY <1>5, CancelWaits DEF InFlight, InFlightIsVisible
<1>6. CASE UNCHANGED vars
  BY <1>6 DEF vars, InFlight, InFlightIsVisible
<1>7. ASSUME NEW u \in Threads, Step(u), u # t
      PROVE  FALSE
  BY <1>7, OthersWait, StepIsActive DEF Alone, Active, InFlight
<1>. QED BY <1>1, <1>2, <1>3, <1>4, <1>5, <1>6, <1>7 DEF Next, Step

LEMMA LedgerSteps ==
  ASSUME ~LedgerMayFail, TypeInv, Alone, LedgerInv, [Next]_vars
  PROVE  [Ledger!Next]_<<ledger, keys>>
<1>1. ASSUME NEW t \in Threads, BeginRun(t)
      PROVE  Ledger!Start(run[t].opp) /\ run[t].opp \in Opps
  <2>1. run[t].opp \in Opps /\ run[t].opp \notin keys /\ ~InFlight(t)
    BY <1>1 DEF BeginRun, TypeInv, Engaged, Active, LedgerInv, GuardInv, Guarded,
       NumberInv, InFlight
  <2>2. ledger[run[t].opp] # "RUNNING"
    BY <1>1, <2>1 DEF LedgerInv, RunningHasARun, Alone, Active, InFlight, BeginRun
  <2>. QED BY <1>1, <2>1, <2>2 DEF BeginRun, Ledger!Start
<1>2. ASSUME NEW t \in Threads, MarkIrreversible(t)
      PROVE  Ledger!Commit(run[t].opp) /\ run[t].opp \in Opps
  <2>1. run[t].opp \in Opps /\ run[t].opp \notin keys /\ InFlight(t)
    BY <1>2 DEF MarkIrreversible, TypeInv, Engaged, Active, LedgerInv, GuardInv,
       Guarded, NumberInv, Numbered, InFlight
  <2>2. ledger[run[t].opp] = "RUNNING"
    BY <2>1 DEF LedgerInv, InFlightIsVisible
  <2>. QED BY <1>2, <2>1, <2>2 DEF MarkIrreversible, Ledger!Commit
<1>3. ASSUME NEW t \in Threads, PersistRun(t)
      PROVE  \/ Ledger!Finish(run[t].opp) /\ run[t].opp \in Opps
             \/ UNCHANGED <<ledger, keys>>
  <2>1. CASE run[t].begun
    <3>1. run[t].opp \in Opps /\ InFlight(t)
      BY <1>3, <2>1 DEF PersistRun, TypeInv, Engaged, Active, InFlight
    <3>2. ledger[run[t].opp] = "RUNNING"
      BY <3>1 DEF LedgerInv, InFlightIsVisible
    <3>. QED BY <1>3, <2>1, <3>1, <3>2 DEF PersistRun, FinalRow, Ledger!Finish
  <2>2. CASE ~run[t].begun
    BY <1>3, <2>2 DEF PersistRun
  <2>. QED BY <2>1, <2>2
<1>4. ASSUME Restart
      PROVE  Ledger!Interrupt
  BY <1>4 DEF Restart, RecoverIncomplete, Ledger!Interrupt
<1>5. ASSUME NEW t \in Threads, Step(t), ~BeginRun(t), ~MarkIrreversible(t),
             ~PersistRun(t)
      PROVE  UNCHANGED <<ledger, keys>>
  BY <1>5, LedgerChange DEF Step, stores, Stop, ReplayGuard, Deduplicate,
     CheckEconomics, RequestApproval, Execute, Validate, Submit, Verify, Learn,
     Rerank, SyncFinalState
<1>6. ASSUME \/ UNCHANGED vars
             \/ \E o \in Opps : Cancel(o) \/ \E t \in Threads : Start(t, o)
      PROVE  UNCHANGED <<ledger, keys>>
  BY <1>6 DEF vars, stores, Cancel, Start
<1>. QED BY <1>1, <1>2, <1>3, <1>4, <1>5, <1>6 DEF Next, Step, Ledger!Next

LEMMA LedgerInvariance ==
  ASSUME OneAtATime, ~LedgerMayFail
  PROVE  Spec => [](TypeInv /\ Alone /\ LedgerInv)
<1>1. Init => LedgerInv
  BY IdleRun DEF Init, LedgerInv, GuardInv, Guarded, NumberInv, Numbered,
     RunningHasARun, InFlightIsVisible, InFlight
<1>2. TypeInv /\ Alone /\ LedgerInv /\ [Next]_vars => LedgerInv'
  BY GuardNext, NumberNext, RowsNext, VisibleNext DEF LedgerInv
<1>. QED BY <1>1, <1>2, RunsFollow, PTL DEF Spec

\* A run in flight shows RUNNING, so that a restart finds it, when runs follow one
\* another on a database that does not fail (_begin_run, recover_incomplete).
THEOREM RunsAreVisible ==
  ASSUME OneAtATime, ~LedgerMayFail
  PROVE  Spec => []InFlightIsVisible
<1>1. LedgerInv => InFlightIsVisible
  BY DEF LedgerInv
<1>. QED BY <1>1, LedgerInvariance, PTL

\* Runs that follow one another, on a database that does not fail, implement the
\* promise of the ledger: a run is RUNNING until it is filed or interrupted, and
\* commits once, through cancellations, lost replies and crashes.
THEOREM LedgerIsImplemented ==
  ASSUME OneAtATime, ~LedgerMayFail
  PROVE  Spec => LedgerIsKept
<1>1. Init => Ledger!Init
  BY DEF Init, Ledger!Init
<1>2. TypeInv /\ Alone /\ LedgerInv /\ [Next]_vars
        => [Ledger!Next]_<<ledger, keys>>
  BY LedgerSteps
<1>. QED BY <1>1, <1>2, LedgerInvariance, PTL DEF Spec, LedgerIsKept, Ledger!Spec

\* What the ledger's promise comes to: once an opportunity is committed, no later
\* run of it ever begins (_replay_guard, _mark_irreversible).
THEOREM NothingRunsAfterCommit ==
  ASSUME OneAtATime, ~LedgerMayFail
  PROVE  Spec => [][\A o \in keys : ledger[o] # "RUNNING" => ledger'[o] # "RUNNING"]_
                     <<ledger, keys>>
<1>1. ASSUME TypeInv, Ledger!Next, NEW o \in keys, ledger[o] # "RUNNING"
      PROVE  ledger'[o] # "RUNNING"
  <2>1. ASSUME NEW p \in Opps, Ledger!Start(p)
        PROVE  ledger'[o] # "RUNNING"
    BY <1>1, <2>1 DEF Ledger!Start, TypeInv, TypeOK
  <2>2. ASSUME NEW p \in Opps, Ledger!Finish(p)
        PROVE  ledger'[o] # "RUNNING"
    BY <1>1, <2>2 DEF Ledger!Finish, TypeInv, TypeOK
  <2>3. CASE Ledger!Interrupt
    BY <1>1, <2>3 DEF Ledger!Interrupt, TypeInv, TypeOK
  <2>. QED BY <1>1, <2>1, <2>2, <2>3 DEF Ledger!Next, Ledger!Commit
<1>2. TypeInv /\ [Ledger!Next]_<<ledger, keys>>
        => [\A o \in keys : ledger[o] # "RUNNING" => ledger'[o] # "RUNNING"]_
              <<ledger, keys>>
  BY <1>1
<1>. QED BY <1>2, LedgerInvariance, LedgerIsImplemented, PTL
         DEF LedgerIsKept, Ledger!Spec

-----------------------------------------------------------------------------
(* How often an opportunity can be submitted, when runs follow one another. *)

Marking(o) == \E t \in Threads : run[t].at = "mark" /\ run[t].opp = o

\* A submission is recorded or about to be, but for those that crashes cut off.
CountInv ==
  \A o \in Opps : /\ sent[o] <= crashes + 1
                  /\ o \notin keys /\ ~Marking(o) => sent[o] <= crashes

LEMMA NobodyElseMarks ==
  ASSUME Alone, NEW t \in Threads, Active(t), run[t].at # "mark", NEW o
  PROVE  ~Marking(o)
  BY DEF Alone, Active, Marking

\* sent and crashes change in two places.
LEMMA CountersStay ==
  ASSUME NEW t \in Threads, Step(t)
  PROVE  crashes' = crashes /\ (~Submit(t) => sent' = sent)
  BY DEF Step, counters, Stop, ReplayGuard, BeginRun, Deduplicate, CheckEconomics,
     RequestApproval, Execute, Validate, Submit, MarkIrreversible, Verify, Learn,
     Rerank, SyncFinalState, PersistRun

LEMMA CountNext ==
  ASSUME ~LedgerMayFail, ~RepliesMayBeLost, Alone, TypeInv, GuardInv, CountInv,
         [Next]_vars
  PROVE  CountInv'
<1>. DEFINE Counted(o) == /\ sent[o] <= crashes + 1
                          /\ o \notin keys /\ ~Marking(o) => sent[o] <= crashes
<1>. SUFFICES ASSUME NEW o \in Opps
              PROVE  Counted(o)'
  BY DEF CountInv
<1>1. Counted(o) /\ sent[o] \in Nat /\ crashes \in Nat
  BY DEF CountInv, TypeInv, TypeOK
<1>2. ASSUME NEW t \in Threads, Submit(t)
      PROVE  Counted(o)'
  <2>1. Step(t) /\ crashes' = crashes /\ keys' = keys /\ run[t].at = "submit"
    BY <1>2 DEF Submit, Step, counters, stores
  <2>2. ~Marking(o)
    BY <2>1, NobodyElseMarks DEF Active
  <2>3. CASE sent' = sent
    BY <1>1, <2>1, <2>2, <2>3
  <2>4. CASE sent' # sent /\ run[t].opp = o
    <3>1. sent'[o] = sent[o] + 1 /\ run' = [run EXCEPT ![t].at = "mark"]
      BY <1>2, <2>4 DEF Submit, Goes, TypeInv, TypeOK
    <3>2. Marking(o)'
      BY <2>4, <3>1 DEF Marking, TypeInv, TypeOK, Run
    <3>3. o \notin keys
      BY <2>1, <2>4 DEF GuardInv, Guarded
    <3>4. sent[o] <= crashes
      BY <1>1, <2>2, <3>3
    <3>. QED BY <1>1, <2>1, <3>1, <3>2, <3>4
  <2>5. CASE run[t].opp # o
    <3>1. sent'[o] = sent[o]
      BY <1>2, <2>5 DEF Submit, TypeInv, TypeOK
    <3>. QED BY <1>1, <2>1, <2>2, <3>1
  <2>. QED BY <2>3, <2>4, <2>5
<1>3. ASSUME NEW t \in Threads, MarkIrreversible(t)
      PROVE  Counted(o)'
  <2>1. /\ crashes' = crashes /\ sent' = sent /\ run[t].at = "mark"
        /\ keys' = keys \cup {run[t].opp}
    BY <1>3 DEF MarkIrreversible, counters
  <2>2. CASE run[t].opp = o
    BY <1>1, <2>1, <2>2
  <2>3. CASE run[t].opp # o
    <3>1. ~Marking(o)
      BY <2>1, <2>3 DEF Alone, Active, Marking
    <3>. QED BY <1>1, <2>1, <3>1
  <2>. QED BY <2>2, <2>3
<1>4. ASSUME NEW t \in Threads, Step(t), ~Submit(t), ~MarkIrreversible(t)
      PROVE  Counted(o)'
  <2>1. crashes' = crashes /\ sent' = sent
    BY <1>4, CountersStay
  <2>2. keys' = keys
    BY <1>4 DEF Step, stores, Stop, ReplayGuard, BeginRun, Deduplicate,
       CheckEconomics, RequestApproval, Execute, Validate, Verify, Learn, Rerank,
       SyncFinalState, PersistRun
  <2>3. Active(t) /\ run[t].at # "mark"
    BY <1>4, StepIsActive DEF Step, Stop, Checked, ReplayGuard, BeginRun,
       Deduplicate, CheckEconomics, RequestApproval, Execute, Validate, Verify,
       Learn, Rerank, SyncFinalState, PersistRun
  <2>4. ~Marking(o)
    BY <2>3, NobodyElseMarks
  <2>. QED BY <1>1, <2>1, <2>2, <2>4
<1>5. ASSUME NEW t \in Threads, NEW p \in Opps, Start(t, p)
      PROVE  Counted(o)'
  <2>1. crashes' = crashes /\ sent' = sent /\ keys' = keys
    BY <1>5 DEF Start, stores
  <2>2. ASSUME Marking(o) PROVE Marking(o)'
    <3>1. PICK u \in Threads : run[u].at = "mark" /\ run[u].opp = o
      BY <2>2 DEF Marking
    <3>2. run'[u] = run[u]
      BY <1>5, <3>1 DEF Start, Active, TypeInv, TypeOK
    <3>. QED BY <3>1, <3>2 DEF Marking
  <2>. QED BY <1>1, <2>1, <2>2
<1>6. ASSUME NEW p \in Opps, Cancel(p)
      PROVE  Counted(o)'
  <2>1. crashes' = crashes /\ sent' = sent /\ keys' = keys
    BY <1>6 DEF Cancel, stores, counters
  <2>2. Marking(o)' <=> Marking(o)
    BY <1>6, CancelWaits DEF Marking
  <2>. QED BY <1>1, <2>1, <2>2
<1>7. CASE Restart
  <2>1. crashes' = crashes + 1 /\ sent' = sent
    BY <1>7 DEF Restart
  <2>. QED BY <1>1, <2>1
<1>8. CASE UNCHANGED vars
  BY <1>1, <1>8 DEF vars, Marking
<1>. QED BY <1>2, <1>3, <1>4, <1>5, <1>6, <1>7, <1>8 DEF Next

\* With runs one after the other, a ledger that works and replies that arrive, an
\* opportunity is submitted once, and once more for each crash: only a crash
\* between the external call and _mark_irreversible lets a run repeat it.
THEOREM SubmissionsAreBounded ==
  ASSUME OneAtATime, ~LedgerMayFail, ~RepliesMayBeLost
  PROVE  Spec => [](\A o \in Opps : sent[o] <= crashes + 1)
<1>1. Init => GuardInv /\ CountInv
  BY IdleRun DEF Init, GuardInv, Guarded, CountInv
<1>2. Spec => [](TypeInv /\ Alone /\ GuardInv /\ CountInv)
  BY <1>1, RunsFollow, GuardNext, CountNext, PTL DEF Spec
<1>3. CountInv => \A o \in Opps : sent[o] <= crashes + 1
  BY DEF CountInv
<1>. QED BY <1>2, <1>3, PTL

-----------------------------------------------------------------------------
(* Cancellation, and whose result is submitted, when runs follow one another. *)

\* The cancelled set keeps the request until the run that was told reaches a
\* check, and the shared field holds the result of the run that validates it.
ObeyInv ==
  \A t \in Threads :
    /\ run[t].told /\ run[t].at \in Early => run[t].opp \in cancelled
    /\ run[t].at = "validate" => artifact.opp = run[t].opp

PropInv == CancelledIsNotSubmitted /\ ResultIsOwn

LEMMA ToldOnce ==
  ASSUME TypeInv, NEW t \in Threads, Step(t), ~PersistRun(t)
  PROVE  run'[t].told = run[t].told
  BY DEF TypeInv, TypeOK, Run, Step, Goes, Ends, Stop, ReplayGuard, BeginRun,
     Deduplicate, CheckEconomics, RequestApproval, Execute, Validate, Submit,
     MarkIrreversible, Verify, Learn, Rerank, SyncFinalState

LEMMA ObeyStep ==
  ASSUME TypeInv, ObeyInv, PropInv, NEW t \in Threads, Step(t), ~PersistRun(t)
  PROVE  /\ run'[t].told /\ run'[t].at \in Early => run'[t].opp \in cancelled'
         /\ run'[t].at = "validate" => artifact'.opp = run'[t].opp
         /\ run'[t].told => run'[t].at \notin {"submit", "mark", "verify",
                                               "learn", "rerank"}
         /\ run'[t].at = "submit" => run'[t].validated = run'[t].opp
<1>1. /\ run'[t].told = run[t].told /\ run'[t].opp = run[t].opp
      /\ run'[t].at \in After(run[t].at)
  BY ToldOnce, StepAdvances, StagesInOrder DEF Advances
<1>2. CASE Stop(t)
  BY <1>2, <1>1 DEF Stop, Ends, TypeInv, TypeOK, Run, Early
<1>3. CASE Execute(t)
  <2>1. cancelled' = cancelled /\ run[t].at = "execute"
    BY <1>3 DEF Execute
  <2>2. run'[t].at = "validate" => artifact'.opp = run'[t].opp
    BY <1>3, <1>1 DEF Execute, Goes, Ends, TypeInv, TypeOK, Run
  <2>. QED BY <1>1, <2>1, <2>2 DEF After, Early, ObeyInv
<1>4. CASE Validate(t)
  <2>1. /\ cancelled' = cancelled /\ run[t].at = "validate"
        /\ run[t].opp \notin cancelled
    BY <1>4 DEF Validate, Unstopped
  <2>2. ~run[t].told
    BY <2>1 DEF ObeyInv, Early
  <2>3. run'[t].at = "submit" => run'[t].validated = artifact.opp
    BY <1>4 DEF Validate, Ends, TypeInv, TypeOK, Run
  <2>. QED BY <1>1, <2>1, <2>2, <2>3 DEF After, ObeyInv
<1>5. CASE ~Stop(t) /\ ~Execute(t) /\ ~Validate(t)
  <2>1. cancelled' = cancelled /\ artifact' = artifact
    BY <1>5 DEF Step, ReplayGuard, BeginRun, Deduplicate, CheckEconomics,
       RequestApproval, Submit, MarkIrreversible, Verify, Learn, Rerank,
       SyncFinalState
  <2>2. run[t].at \notin {"execute", "validate"}
    BY <1>5 DEF Step, ReplayGuard, BeginRun, Deduplicate, CheckEconomics,
       RequestApproval, Submit, MarkIrreversible, Verify, Learn, Rerank,
       SyncFinalState, PersistRun
  <2>3. run[t].told /\ run[t].at \in Early => run[t].opp \in cancelled
    BY DEF ObeyInv
  <2>4. run[t].told => run[t].at \notin {"submit", "mark", "verify", "learn",
                                         "rerank"}
    BY DEF PropInv, CancelledIsNotSubmitted
  <2>5. run[t].at \in Steps
    BY DEF TypeInv, TypeOK, Run
  <2>. QED BY <1>1, <2>1, <2>2, <2>3, <2>4, <2>5 DEF After, Early, Steps, Checked
<1>. QED BY <1>2, <1>3, <1>4, <1>5

LEMMA ObeyNext ==
  ASSUME Alone, TypeInv, ObeyInv, PropInv, [Next]_vars
  PROVE  (ObeyInv /\ PropInv)'
<1>. DEFINE Obeys(t) ==
       /\ run[t].told /\ run[t].at \in Early => run[t].opp \in cancelled
       /\ run[t].at = "validate" => artifact.opp = run[t].opp
       /\ run[t].told => run[t].at \notin {"submit", "mark", "verify", "learn",
                                           "rerank"}
       /\ run[t].at = "submit" => run[t].validated = run[t].opp
<1>. SUFFICES ASSUME NEW t \in Threads
              PROVE  Obeys(t)'
  BY DEF ObeyInv, PropInv, CancelledIsNotSubmitted, ResultIsOwn
<1>1. Obeys(t)
  BY DEF ObeyInv, PropInv, CancelledIsNotSubmitted, ResultIsOwn
<1>2. CASE Step(t) /\ ~PersistRun(t)
  BY <1>2, ObeyStep
<1>3. CASE PersistRun(t) \/ Restart
  <2>1. run'[t] = Idle
    BY <1>3 DEF PersistRun, Restart, TypeInv, TypeOK
  <2>2. Idle.told = FALSE
    BY DEF Idle
  <2>3. run'[t].told = FALSE /\ run'[t].at = "idle"
    BY <2>1, <2>2, IdleRun
  <2>. QED BY <2>3 DEF Early
<1>4. ASSUME NEW o \in Opps, Start(t, o)
      PROVE  Obeys(t)'
  <2>1. run'[t] = [Idle EXCEPT !.at = "guard", !.opp = o]
    BY <1>4 DEF Start, TypeInv, TypeOK
  <2>2. run'[t].told = FALSE /\ run'[t].at = "guard"
    BY <2>1 DEF Idle
  <2>. QED BY <2>2
<1>5. ASSUME NEW o \in Opps, Cancel(o)
      PROVE  Obeys(t)'
  <2>1. run'[t] = IF run[t].opp = o /\ run[t].at \in Early
                  THEN [run[t] EXCEPT !.told = TRUE] ELSE run[t]
    BY <1>5 DEF Cancel
  <2>2. artifact' = artifact /\ cancelled' = cancelled \cup {o}
    BY <1>5 DEF Cancel
  <2>3. CASE run[t].opp = o /\ run[t].at \in Early
    BY <1>1, <2>1, <2>2, <2>3 DEF Early, TypeInv, TypeOK, Run
  <2>. QED BY <1>1, <2>1, <2>2, <2>3
<1>6. CASE UNCHANGED vars
  BY <1>1, <1>6 DEF vars
<1>7. ASSUME NEW u \in Threads, u # t, Step(u)
      PROVE  Obeys(t)'
  <2>1. run'[t] = run[t] /\ run[t].at = "idle"
    BY <1>7, OthersWait, StepIsActive DEF Alone, Active
  <2>. QED BY <2>1 DEF Early
<1>8. ASSUME NEW u \in Threads, u # t, NEW o \in Opps, Start(u, o)
      PROVE  Obeys(t)'
  BY <1>1, <1>8 DEF Start, TypeInv, TypeOK
<1>. QED BY <1>2, <1>3, <1>4, <1>5, <1>6, <1>7, <1>8 DEF Next, Step

LEMMA ObeyInit == Init => ObeyInv /\ PropInv
<1>1. Idle.told = FALSE
  BY DEF Idle
<1>. QED BY <1>1, IdleRun DEF Init, ObeyInv, PropInv, CancelledIsNotSubmitted,
     ResultIsOwn

\* With runs one after the other, a run that is cancelled before it has a result
\* never submits, although nothing is checked around the execution.
THEOREM CancellationIsObeyed ==
  ASSUME OneAtATime
  PROVE  Spec => []CancelledIsNotSubmitted
<1>1. Spec => [](TypeInv /\ ObeyInv /\ PropInv)
  BY ObeyInit, ObeyNext, RunsFollow, PTL DEF Spec
<1>. QED BY <1>1, PTL DEF PropInv

\* With runs one after the other, a run submits only the result it executed.
THEOREM ResultsAreOwn ==
  ASSUME OneAtATime
  PROVE  Spec => []ResultIsOwn
<1>1. Spec => [](TypeInv /\ ObeyInv /\ PropInv)
  BY ObeyInit, ObeyNext, RunsFollow, PTL DEF Spec
<1>. QED BY <1>1, PTL DEF PropInv
===============================================================================
