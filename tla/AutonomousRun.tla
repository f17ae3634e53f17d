----------------------------- MODULE AutonomousRun -----------------------------
(***************************************************************************)
(* AutonomousLoop (agents/services/autonomous_loop.py) with its durable    *)
(* ledger (agents/services/autonomous_run_store.py): one call of run() per *)
(* thread walks an opportunity through the stages, up to an external       *)
(* submission that must not be made twice.                                 *)
(*                                                                         *)
(* A step is what a thread does between two of its reads or writes of      *)
(* state that another thread, a cancellation or a restart can see; stages  *)
(* that only describe the opportunity are part of the step that follows.   *)
(* What the stages learn from outside is a choice: the economic verdict,   *)
(* the executor's result, the platform's reply, and whether verification   *)
(* (OpportunityLifecycle models it) finds the payout booked.  The portfolio*)
(* is kept as far as the loop writes it: "open" is every status an         *)
(* executor or the operator can leave before a payout.                     *)
(*                                                                         *)
(* Left out: the L1 evidence records the stages write (no policy accepts   *)
(* L1 for a payout), the portfolio's priority, and the call of             *)
(* mark_final_outcome in _sync_final_state, which passes a keyword the     *)
(* tracker does not have and so changes nothing: the TypeError is caught.  *)
(* Definitions whose name starts with Slip are deliberate mistakes; no     *)
(* action uses them.                                                       *)
(***************************************************************************)
EXTENDS Naturals, FiniteSets

CONSTANTS
  Opps,            \* opportunities
  Threads,         \* callers of run()
  Nobody,          \* no opportunity
  Slots,           \* MRBOT_AUTONOMY_MAX_CONCURRENT; 0 is no limit
  Large,           \* opportunities above the approval threshold
  Submittable,     \* opportunities whose task type has a submission path
  Remembered,      \* opportunities with a success in outcome_memory
  StagesMayRaise,  \* may a stage raise, or the time limit be exceeded
  LedgerMayFail,   \* may an access to the ledger's database fail
  RepliesMayBeLost,\* may a submission arrive that the caller takes for failed
  MaxRuns,         \* bound on the runs started
  MaxCrashes       \* bound on crashes

ASSUME RunAssumption ==
  /\ Nobody \notin Opps
  /\ Slots \in Nat /\ MaxRuns \in Nat /\ MaxCrashes \in Nat
  /\ Large \subseteq Opps /\ Submittable \subseteq Opps /\ Remembered \subseteq Opps
  /\ {StagesMayRaise, LedgerMayFail, RepliesMayBeLost} \subseteq BOOLEAN

VARIABLES
  run,        \* per thread: the run it is in
  free,       \* _run_slots
  cancelled,  \* _cancelled
  artifact,   \* _last_exec_result, one field for all threads
  ledger,     \* row run-<opportunity> of autonomous_runs
  refused,    \* opportunities with a row saved without a run id
  keys,       \* idempotency_keys
  won,        \* opportunities with a success in outcome_memory_v2
  work,       \* portfolio work_status
  sent,       \* observation: submissions that reached the platform
  runs,       \* runs started so far
  crashes     \* crashes so far

vars == <<run, free, cancelled, artifact, ledger, refused, keys, won, work,
          sent, runs, crashes>>
stores == <<ledger, refused, keys, won, work>>
counters == <<runs, crashes>>

-----------------------------------------------------------------------------
(* States. *)

\* Steps that _check_limits precedes.
Checked == {"dedup", "economics", "approval", "validate", "verify", "learn",
            "rerank"}
\* Steps before the run has a result that could be submitted.
Early == {"guard", "begin", "dedup", "economics", "approval", "execute",
          "validate"}
Steps == Checked \cup Early \cup {"idle", "submit", "mark", "sync", "persist"}

Decisions == {"", "proceed", "completed_unpaid", "reject", "await_approval",
              "failed"}
Success == {"proceed", "completed_unpaid"}

Work == {"open", "IN_PROGRESS", "AWAITING_APPROVAL", "FAILED", "PAID"}
Rows == {"none", "RUNNING", "DONE", "FAILED"}

\* begun: _begin_run gave the run its id; validated: the opportunity whose
\* result _stage_validate accepted; told: an observation, cancel() was called
\* during the run and before it had a result.
Run == [at : Steps, opp : Opps \cup {Nobody}, decision : Decisions,
        paid : BOOLEAN, begun : BOOLEAN, validated : Opps \cup {Nobody},
        told : BOOLEAN]

Idle == [at |-> "idle", opp |-> Nobody, decision |-> "", paid |-> FALSE,
         begun |-> FALSE, validated |-> Nobody, told |-> FALSE]

NoArtifact == [opp |-> Nobody, output |-> FALSE]
Artifact == [opp : Opps \cup {Nobody}, output : BOOLEAN]

Active(t) == run[t].at # "idle"
\* between _begin_run and the final save
InFlight(t) == run[t].begun /\ run[t].at # "idle"

Goes(t, step) == run' = [run EXCEPT ![t].at = step]
Ends(t, decision) ==
  run' = [run EXCEPT ![t].at = "sync", ![t].decision = decision]

SlipNoCheck(t) == TRUE
\* _check_limits lets the run pass.
Unstopped(t) == run[t].opp \notin cancelled

-----------------------------------------------------------------------------
(* run() and cancel() *)

\* run: a caller that finds no slot is turned away and changes nothing.
Start(t, o) ==
  /\ ~Active(t) /\ runs < MaxRuns
  /\ Slots > 0 => free > 0
  /\ free' = IF Slots > 0 THEN free - 1 ELSE free
  /\ run' = [run EXCEPT ![t] = [Idle EXCEPT !.at = "guard", !.opp = o]]
  /\ runs' = runs + 1
  /\ UNCHANGED <<cancelled, artifact, stores, sent, crashes>>

\* cancel: the request waits in a set until a check of some run takes it out.
Cancel(o) ==
  /\ cancelled' = cancelled \cup {o}
  /\ run' = [t \in Threads |->
               IF run[t].opp = o /\ run[t].at \in Early
               THEN [run[t] EXCEPT !.told = TRUE] ELSE run[t]]
  /\ UNCHANGED <<free, artifact, stores, sent, counters>>

\* _check_limits raises for a cancelled run and forgets the request; a stage may
\* raise, or the time limit be over.  _run's handler ends the run as failed.
Stop(t) ==
  /\ run[t].at \in Checked
  /\ \/ ~Unstopped(t) /\ cancelled' = cancelled \ {run[t].opp}
     \/ Unstopped(t) /\ StagesMayRaise /\ UNCHANGED cancelled
  /\ Ends(t, "failed")
  /\ UNCHANGED <<free, artifact, stores, sent, counters>>

-----------------------------------------------------------------------------
(* The stages. *)

SlipGuardFailsOpen(t) ==
  /\ run[t].at = "guard"
  /\ \/ run[t].opp \in keys /\ Ends(t, "reject")
     \/ (run[t].opp \notin keys \/ LedgerMayFail) /\ Goes(t, "begin")
  /\ UNCHANGED <<free, cancelled, artifact, stores, sent, counters>>
\* _replay_guard refuses an opportunity with a key, and any opportunity when the
\* ledger cannot be read.
ReplayGuard(t) ==
  /\ run[t].at = "guard"
  /\ \/ (run[t].opp \in keys \/ LedgerMayFail) /\ Ends(t, "reject")
     \/ run[t].opp \notin keys /\ Goes(t, "begin")
  /\ UNCHANGED <<free, cancelled, artifact, stores, sent, counters>>

SlipMarkAtBegin(t) ==
  /\ run[t].at = "begin"
  /\ ledger' = [ledger EXCEPT ![run[t].opp] = "RUNNING"]
  /\ keys' = keys \cup {run[t].opp}
  /\ run' = [run EXCEPT ![t].at = "dedup", ![t].begun = TRUE]
  /\ UNCHANGED <<free, cancelled, artifact, refused, won, work, sent, counters>>
SlipBeginUnsaved(t) ==
  /\ run[t].at = "begin"
  /\ run' = [run EXCEPT ![t].at = "dedup", ![t].begun = TRUE]
  /\ UNCHANGED <<free, cancelled, artifact, stores, sent, counters>>
\* _begin_run: a save that fails is noted and the run goes on.
BeginRun(t) ==
  /\ run[t].at = "begin"
  /\ \/ ledger' = [ledger EXCEPT ![run[t].opp] = "RUNNING"]
     \/ LedgerMayFail /\ UNCHANGED ledger
  /\ run' = [run EXCEPT ![t].at = "dedup", ![t].begun = TRUE]
  /\ UNCHANGED <<free, cancelled, artifact, refused, keys, won, work, sent,
                 counters>>

\* _stage_deduplicate reads outcome_memory; _stage_learn writes
\* outcome_memory_v2.
Deduplicate(t) ==
  /\ run[t].at = "dedup" /\ Unstopped(t)
  /\ IF run[t].opp \in Remembered THEN Ends(t, "reject") ELSE Goes(t, "economics")
  /\ UNCHANGED <<free, cancelled, artifact, stores, sent, counters>>

CheckEconomics(t) ==
  /\ run[t].at = "economics" /\ Unstopped(t)
  /\ Ends(t, "reject") \/ Goes(t, "approval")
  /\ UNCHANGED <<free, cancelled, artifact, stores, sent, counters>>

RequestApproval(t) ==
  /\ run[t].at = "approval" /\ Unstopped(t)
  /\ IF run[t].opp \in Large THEN Ends(t, "await_approval") ELSE Goes(t, "execute")
  /\ UNCHANGED <<free, cancelled, artifact, stores, sent, counters>>

\* What an executor leaves in the portfolio: it books a payout it proved.
ExecutorLeaves(o) ==
  \/ UNCHANGED work
  \/ work[o] = "open" /\ work' = [work EXCEPT ![o] = "PAID"]

SlipExecuteTrusts(t) ==
  /\ run[t].at = "execute"
  /\ \/ /\ \E output \in BOOLEAN :
             artifact' = [opp |-> run[t].opp, output |-> output]
        /\ ExecutorLeaves(run[t].opp)
     \/ UNCHANGED <<artifact, work>>
  /\ Goes(t, "validate")
  /\ UNCHANGED <<free, cancelled, ledger, refused, keys, won, sent, counters>>
\* _stage_execute stores whatever the executor returns; when it raises, or the
\* opportunity has no portfolio entry, nothing is stored.
Execute(t) ==
  /\ run[t].at = "execute"
  /\ \/ /\ \E output \in BOOLEAN :
             artifact' = [opp |-> run[t].opp, output |-> output]
        /\ \/ Goes(t, "validate") /\ ExecutorLeaves(run[t].opp)
           \/ Ends(t, "failed") /\ UNCHANGED work
     \/ Ends(t, "failed") /\ UNCHANGED <<artifact, work>>
  /\ UNCHANGED <<free, cancelled, ledger, refused, keys, won, sent, counters>>

\* _stage_validate: only an output can pass the validator.
Validate(t) ==
  /\ run[t].at = "validate" /\ Unstopped(t)
  /\ \/ /\ artifact.output
        /\ run' = [run EXCEPT ![t].at = "submit", ![t].validated = artifact.opp]
     \/ Ends(t, "reject")
  /\ UNCHANGED <<free, cancelled, artifact, stores, sent, counters>>

\* _stage_submit up to the return of the external call
Submit(t) ==
  /\ run[t].at = "submit"
  /\ \/ Goes(t, "verify") /\ UNCHANGED sent
     \/ /\ run[t].opp \in Submittable
        /\ sent' = [sent EXCEPT ![run[t].opp] = @ + 1]
        /\ Goes(t, "mark") \/ (RepliesMayBeLost /\ Goes(t, "verify"))
  /\ UNCHANGED <<free, cancelled, artifact, stores, counters>>

\* _stage_submit after it: _mark_irreversible; a failure is noted only.
MarkIrreversible(t) ==
  /\ run[t].at = "mark"
  /\ \/ keys' = keys \cup {run[t].opp}
     \/ LedgerMayFail /\ UNCHANGED keys
  /\ Goes(t, "verify")
  /\ UNCHANGED <<free, cancelled, artifact, ledger, refused, won, work, sent,
                 counters>>

Verify(t) ==
  /\ run[t].at = "verify" /\ Unstopped(t)
  /\ \E paid \in BOOLEAN :
       run' = [run EXCEPT ![t].at = "learn", ![t].paid = paid]
  /\ UNCHANGED <<free, cancelled, artifact, stores, sent, counters>>

\* The decision of _run and _stage_learn, whose failure is noted only.
Learn(t) ==
  /\ run[t].at = "learn" /\ Unstopped(t)
  /\ run' = [run EXCEPT ![t].at = "rerank",
                        ![t].decision = IF run[t].paid THEN "proceed"
                                        ELSE "completed_unpaid"]
  /\ won' = won \cup {run[t].opp} \/ UNCHANGED won
  /\ UNCHANGED <<free, cancelled, artifact, ledger, refused, keys, work, sent,
                 counters>>

Rerank(t) ==
  /\ run[t].at = "rerank" /\ Unstopped(t)
  /\ Goes(t, "sync")
  /\ UNCHANGED <<free, cancelled, artifact, stores, sent, counters>>

\* The portfolio part of _sync_final_state: no table of transitions is asked.
SyncFinalState(t) ==
  /\ run[t].at = "sync"
  /\ work' = [work EXCEPT ![run[t].opp] =
                CASE run[t].decision \in Success -> "IN_PROGRESS"
                  [] run[t].decision = "reject" -> "FAILED"
                  [] run[t].decision = "await_approval" -> "AWAITING_APPROVAL"
                  [] OTHER -> @]
  /\ Goes(t, "persist")
  /\ UNCHANGED <<free, cancelled, artifact, ledger, refused, keys, won, sent,
                 counters>>

SlipDecisionAsRow(t) == run[t].decision
FinalRow(t) == IF run[t].decision \in Success THEN "DONE" ELSE "FAILED"

SlipKeepSlot(t) ==
  /\ run[t].at = "persist"
  /\ ledger' = [ledger EXCEPT ![run[t].opp] = FinalRow(t)]
  /\ free' = IF Slots > 0 /\ run[t].decision \in Success THEN free + 1 ELSE free
  /\ run' = [run EXCEPT ![t] = Idle]
  /\ UNCHANGED <<cancelled, artifact, refused, keys, won, work, sent, counters>>
\* _persist_run and the release of the slot.  save_run files a run without an id
\* under the opportunity.
PersistRun(t) ==
  /\ run[t].at = "persist"
  /\ \/ /\ run[t].begun
        /\ ledger' = [ledger EXCEPT ![run[t].opp] = FinalRow(t)]
        /\ UNCHANGED refused
     \/ /\ ~run[t].begun
        /\ refused' = refused \cup {run[t].opp}
        /\ UNCHANGED ledger
     \/ LedgerMayFail /\ UNCHANGED <<ledger, refused>>
  /\ free' = IF Slots > 0 THEN free + 1 ELSE free
  /\ run' = [run EXCEPT ![t] = Idle]
  /\ UNCHANGED <<cancelled, artifact, keys, won, work, sent, counters>>

-----------------------------------------------------------------------------
(* A crash and the next start, which runs recover_incomplete before any run. *)

SlipNoRecovery(rows) == rows
RecoverIncomplete(rows) ==
  [o \in Opps |-> IF rows[o] = "RUNNING" THEN "FAILED" ELSE rows[o]]

Restart ==
  /\ crashes < MaxCrashes
  /\ crashes' = crashes + 1
  /\ run' = [t \in Threads |-> Idle]
  /\ free' = Slots /\ cancelled' = {} /\ artifact' = NoArtifact
  /\ ledger' = RecoverIncomplete(ledger)
  /\ UNCHANGED <<refused, keys, won, work, sent, runs>>

-----------------------------------------------------------------------------

Init ==
  /\ run = [t \in Threads |-> Idle]
  /\ free = Slots /\ cancelled = {} /\ artifact = NoArtifact
  /\ ledger = [o \in Opps |-> "none"]
  /\ refused = {} /\ keys = {} /\ won = {}
  /\ work = [o \in Opps |-> "open"]
  /\ sent = [o \in Opps |-> 0]
  /\ runs = 0 /\ crashes = 0

Step(t) ==
  \/ Stop(t) \/ ReplayGuard(t) \/ BeginRun(t) \/ Deduplicate(t)
  \/ CheckEconomics(t) \/ RequestApproval(t) \/ Execute(t) \/ Validate(t)
  \/ Submit(t) \/ MarkIrreversible(t) \/ Verify(t) \/ Learn(t) \/ Rerank(t)
  \/ SyncFinalState(t) \/ PersistRun(t)

Next ==
  \/ \E t \in Threads : Step(t) \/ \E o \in Opps : Start(t, o)
  \/ \E o \in Opps : Cancel(o)
  \/ Restart

Spec == Init /\ [][Next]_vars

\* A thread inside run() is scheduled; that the calls it makes return is assumed.
FairSpec == Spec /\ \A t \in Threads : WF_vars(Step(t))

-----------------------------------------------------------------------------
(* Properties. *)

\* The variables keep their types.
TypeOK ==
  /\ run \in [Threads -> Run] /\ free \in Nat
  /\ cancelled \subseteq Opps /\ artifact \in Artifact
  /\ ledger \in [Opps -> Rows] /\ work \in [Opps -> Work]
  /\ refused \subseteq Opps /\ keys \subseteq Opps /\ won \subseteq Opps
  /\ sent \in [Opps -> Nat] /\ runs \in 0..MaxRuns /\ crashes \in 0..MaxCrashes

\* With runs one after the other, an opportunity that has an idempotency key is
\* not submitted again, through crashes, a ledger that can not be read, lost
\* replies and marks that failed before.
MarkedIsNeverResubmitted ==
  [][\A o \in Opps : o \in keys => sent'[o] = sent[o]]_vars

\* A key stands for a submission that reached the platform: a rejection, a pause
\* for approval, a failure or a cancellation leaves the opportunity replayable.
KeyMeansSubmitted == \A o \in keys : sent[o] > 0

\* A run cancelled while it has no result yet never gets to the submission,
\* although no check stands before _stage_execute and _stage_submit.
CancelledIsNotSubmitted ==
  \A t \in Threads :
    run[t].told => run[t].at \notin {"submit", "mark", "verify", "learn", "rerank"}

\* What a run is about to submit was validated as the result of the run's own
\* opportunity, although every run leaves its result in one field.
ResultIsOwn ==
  \A t \in Threads : run[t].at = "submit" => run[t].validated = run[t].opp

\* A run that has begun and is not yet filed shows RUNNING, so that a restart
\* finds it interrupted.
InFlightIsVisible ==
  \A t \in Threads : InFlight(t) => ledger[run[t].opp] = "RUNNING"

\* A row that shows RUNNING belongs to a run in progress: neither the end of a
\* run, whichever way, nor a restart leaves a ghost.
RunningHasARun ==
  \A o \in Opps :
    ledger[o] = "RUNNING" => \E t \in Threads : InFlight(t) /\ run[t].opp = o

\* The rows and keys change as the ledger promises.
Ledger == INSTANCE RunLedger WITH status <- ledger, committed <- keys
LedgerIsKept == Ledger!Spec

\* Every slot that was acquired comes back, whichever way its run ended.
SlotsReturn == <>[](Slots > 0 => free = Slots)
===============================================================================
