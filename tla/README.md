# MrBot1000: specifications, model checks and proofs

TLA+ models of the parts of MrBot1000 that decide about money, about actions that
cannot be undone, and about work that several threads do at once: when a payout
counts as earned, when a work product is submitted, when something a human approved
is run, when a patch is written, when a conversation goes on. Each module is a
translation of the source named in its header; `PROJECT.json` gives the lines of
every definition, the runs, the mutants, the hazards and the theorems.

    tlasany M.tla                      parse a module
    tlc -config X.cfg M                model-check
    tlapm M.tla                        check the proofs of a *Proofs module

## 1. The system

MrBot1000 is a desktop agent (one Python process, an interface thread and workers).
It finds paid work, executes it, submits it, verifies that it was paid, and asks a
human before it does anything irreversible. Its state is in memory, in SQLite
tables and in a few files that are rewritten in full.

    discovery --> portfolio --> autonomous loop --> task executor
                     ^              |    |  \
                     |              |    |   +--> run ledger (SQLite)
                     +-- statuses --+    +------> platform (external)
                     |                   |
     Opportunities   |                   |     ramp, win rate guard <-- reputation
     tab ------------+                   |
     evidence store <-- verification <---+
          |
     lifecycle tracker (memory + JSON file) --> payouts, revenue reports

     guard / submitter / trading / dispatcher --> approval queue (memory + JSON)
       |                                                | decision signal
       +-- code patches --> source file    main window -+--> tool, order, submission

     dialogue tab --> worker --> llm() --> providers (breaker, budget, daily cap)
     collaboration tab --> coordinator --> event bus --> handlers

### Inventory

| component | state | operations | interactions | hard behaviours | what makes it correct |
|---|---|---|---|---|---|
| lifecycle tracker (`opportunity_lifecycle.py`) | states in memory, JSON file | `mark_*`, `reconcile_evidence`, `mark_final_outcome`, scheduled promotions and expiry, recovery | called by the pipeline, the loop, the payout tab | several saves per call, assignments after the last save, saves dropped in silence, crashes | nothing is booked as paid that evidence never allowed; what is booked survives; terminal stages stay |
| evidence (`agents/evidence`) | table of records by id | record, query, reconcile, eligibility | producers in capability, payout verifier, loop | records replaced by id, order of proofs | only records of enough trust, about this opportunity, fill a slot |
| earning pipeline (`earning_pipeline.py`) | its stores | `track_opportunity`, reports | drives the tracker | the same opportunity tracked again | agreement with the tracker |
| autonomous loop (`autonomous_loop.py`) | slots, cancellations, last result | `run`, `cancel`, the stages | executor, ledger, portfolio, tracker, platform | concurrent runs, cancellation between stages, lost replies, crashes | no double submission; cancellations obeyed; the result submitted is the run's own |
| run ledger (`autonomous_run_store.py`) | run rows, idempotency keys | save, mark, `recover_incomplete` | loop, start-up | database errors, crash between call and mark | key only for a real submission; no ghost RUNNING row |
| approval queue (`approval.py`) | items, JSON file, two sets of ids | enqueue, decide, find, bound, load | every component that needs a human | restarts, failed writes, unreadable file, bound of the history | requests and decisions not lost; old decisions authorize nothing |
| actions on approvals (`main.py`, `platform_submitter.py`, `live_trading.py`, `dispatch.py`) | sets of executed ids, submission records | decision handler, tool, order, submission | queue, tools, exchange, platform | decision delivered twice, answer lost, memory lost at restart | one approval, at most one effect |
| safety guard (`guard.py`) | its own record of requests | check, approve, reject, poll, prune | approval queue | two records of one decision, no lock over both | the two records agree |
| code patches (`code_patch_service.py`) | patches, waiting list, ledger, backups | propose, approve, apply, drain, monitor, restore | guard, source file | failure between write and verify, waiting patches, restart | only text a human approved, once |
| portfolio (`opportunity_portfolio.py`) | SQLite rows | add, transition, remove | executor, loop, Opportunities tab | read, validate and write without one lock; whole rows written back | a status is earned whoever writes last |
| task executor (`executor.py`) | step records | fourteen-step execution | portfolio, validators | failure of one step | no step skipped, failure recorded |
| message bus (`comms.py`) | in flight, delivered, edges, tokens | publish, cancel, prune | coordinator, handlers | delivery outside the lock, retention | Stop reaches a delivery; nothing that may be delivered is lost |
| cognition coordinator (`coordinator.py`) | run records, active run | collaborate, cancel | bus, models, tab | Stop at any point of four stages | every run ends, and everybody hears it |
| dialogue tab (`dialogue_tab.py`) | worker, workers of the personas, timers, queue, budgets | start, stop, Live, Auto-Step, respond, replies, retries | worker threads, agent runtime | late signals, deleted workers, timers of a former session | Live goes on, and gives up on an unreachable provider |
| submission ramp, win rate guard | reputation row | record, ask | pipeline, loop, payment verification | three writers, each gig counted at different times | the ramp opens on payments only |
| circuit breaker, rate limit, cost | failures, daily calls, spend | ask, record | `llm()` of every worker | checked and counted apart, restart | bounded calls to a dead provider, bounded calls and spend a day |
| settings of the local servers (`provider_lifecycle_backend.py`, `dual_brain_control.py`) | `.env` file, writer thread, dirty mark, timer | edit, save later, save now | every widget that saves a setting | edit during a write, timer that stops, whole file replaced without a lock | the latest edit lands |
| accounting, goals | recorded amounts | sums | reports | retroactive records | revenue is verified revenue |
| trading | orders, positions, cash | place, match, cancel | exchange | reservations | nothing sold twice |
| discovery, its scheduler | caches, scores | select, run | portfolio | cooldown | a source is left alone after an error |
| brain servers, devices | processes, handles, registries | start, probe, stop | operating system | start during a start, stop during a start | one server per device |
| state reconciliation, recovery | none of its own | compare | all stores | stores that disagree | a report |
| autonomy, workflow engine, knowledge, integrations, views | grants, phases, texts | - | - | - | - |

## 2. Modules

| module | code | state and actions |
|---|---|---|
| `EvidencePolicy` | `evidence.py`, `evidence_policy.py`, `payment_evidence.py` | pure operators: levels, slots, the requirement table, `IsTransitionEligible`, `Reconcile` |
| `EvidenceStore` | `evidence_store.py` | `Record`, `ForSubject`: a table in which a record replaces the one with its id |
| `OpportunityLifecycle` | `opportunity_lifecycle.py`, `track_opportunity` | `mem` is `_states`, `disk` the JSON file, `table` the evidence; an action per handler |
| `RunLedger` | docstring of `autonomous_run_store.py` | abstract: status and commitment of each opportunity |
| `AutonomousRun` | `autonomous_loop.py`, `autonomous_run_store.py` | a program counter per thread; rows, keys, slots, cancellations, the shared result; an action per stage |
| `ApprovalQueue` | `approval.py` | `queue`, `file`, `old` (`_restored_decided`), `fresh` (`_decided_in_process`) |
| `ApprovedActions` | `main.py`, `platform_submitter.py`, `live_trading.py`, `dispatch.py` | extends the queue with the handlers of a decision and what they remember |
| `SafetyGuard` | `guard.py` | extends the queue with `owned` (`_owned`) and the two windows its lock leaves: `raising`, `answering` |
| `GatedFile` | docstring of `code_patch_service.py` | abstract: a file whose text changes only to that of a granted proposal, once for each |
| `CodePatches` | `code_patch_service.py`, `self_improvement_commands.py`, the monitor tick of `main.py` | extends the guard with one target file, the patches, the waiting list, the ledger, and the handler that runs |
| `WorkPortfolio` | `opportunity_portfolio.py`, `executor.py`, the stages of the loop and the buttons of the tab that write a row | `row`, what each writer has read (`held`) and is to write (`plan`) |
| `Collaboration` | `coordinator.py`, `comms.py`, `collaboration_tab.py` | where `collaborate` is, the message in delivery, the token, the steps of Stop |
| `SubmissionRamp` | `submission_ramp.py`, `win_rate_guard.py`, `proposal.py`, `earning_memory.py` | the record of a platform, and where the proposal of each gig is |
| `ProviderFailover` | `llm` in `worker_llm_mixin.py`, `circuit.py`, `provider_rate_limiter.py`, `cost.py` | a program counter per caller, the breaker, the two tables |
| `SettingsWriter` | `provider_lifecycle_backend.py`, `dual_brain_control.py`, `environment.py` | version shown and version in the file, the writer thread, a save of the interface thread, the timer |
| `DialogueTurns` | `dialogue_tab.py`, `agent.py` | `tab`: a record of the tab, its workers (`flights`) and its timers; a handler is an operator from a tab to the set of tabs it may leave |
| `MC*` | - | sets for the instances, compositions, and promises of the source |
| `*Proofs` | - | lemmas and theorems |

`EvidenceStore` extends `EvidencePolicy`; `OpportunityLifecycle` extends both and
asks the policy at each claim. `AutonomousRun` refines `RunLedger` (`LedgerIsKept`,
with `status <- ledger, committed <- keys`). `ApprovedActions` and `SafetyGuard`
extend `ApprovalQueue`, and `CodePatches` extends `SafetyGuard`: a step that asks or
decides changes both sides. `CodePatches` refines `GatedFile` (`FileIsGated`).
`MCServices` puts five modules that share no state into one run: a behaviour picks
one of them, and the others never leave their initial state. It asks nothing of their
combination and is only a way to check them together.

**Lifecycle.** A handler saves the file several times and may assign fields after
its last save. It is described by an *outcome*: the states of the opportunity it
saves on its way, the last saved, and the one left in memory. `Return` runs it to
the end, `Die` stops the process after any of its saves and lets the next process
recover the file, and with `SavesMayFail` any save may be dropped. Amounts are kept
because a claim of zero takes another branch after a reconciliation; nothing else
depends on them. `proven` observes which opportunities the policy has once found
payable; no action reads it.

**Loop.** A step is what a thread does between two accesses to state that another
thread, a cancellation or a restart can see. What the stages learn outside (economic
verdict, executor, platform, verification) is a choice. A ledger access may fail
(`LedgerMayFail`), a submission may arrive although the caller takes it for failed
(`RepliesMayBeLost`), any checked stage may raise or run out of time
(`StagesMayRaise`). `sent` observes submissions that reached the platform, `told` a
cancellation that came before the run had a result.

**Approvals.** Queue operations hold the class lock: one action each. A delivery of
a decision runs on the interface thread to its end, and a process that dies in it has
written nothing durable, so it is one action as well. `sent` and `approvals` observe
how often an item took effect and was approved. An action named by an alias is
covered by its approval under another name than it is called by, so the
dispatcher asks again (`AskAgain`).

**Guard and patches.** The guard's lock is not held while it calls the queue, so an
answer is two steps (the own record, then the queue, with the roll-back if the queue
refuses) and a request is two steps (the queue, then the own record). Handlers of
the patch service run on the interface thread, one at a time, but in steps, since
tools on other threads propose patches meanwhile and the process may end. One target
file is enough for the order of writes; `inUse` stands for `mark_in_use`.

**Portfolio.** Every writer first reads the row and later writes back a whole row.
`Look` and `Put` are the two halves; `plan` is what a writer will still ask for.
`earned` observes what the work has really passed: gates, validation, payment.

**Collaboration.** A publish is a walk over the handlers, each asked for after the
token was; Stop is three steps of the interface thread. `late` counts what begins
after the token is cancelled.

**Dialogue.** Handlers run one at a time on the interface thread, so a step is a
whole handler with everything it calls, and what it can leave behind is a set of
outcomes; an outcome with `ok = FALSE` was left by an exception that Qt swallows. The
interleaving is in the events: replies, ends of threads, deletions of workers and
timers come in any order. The personas are the roster in its order: a turn is handed on
round and round, and the attention of the runtime is kept as a line whose head is due,
since a turn takes the attention of its speaker away and raises that of all others by
the same amount, and the longest silence decides between equals. Whether an accepted
reply has made the history as long as `DIALOGUE_MAX_EXCHANGES` is a choice, made only
where the constant `ExchangesBounded` says that the setting is on: system messages fill
the history as well.

**Limits.** A caller of `llm()` checks the breaker, the budget and the cap in three
steps and is counted in later ones; other callers go on in between. The cost of a
call is one. A `lapsed` circuit is one whose cooldown is over and which nobody has
asked yet.

**Settings.** A version stands for everything the panel shows. The writer thread, a
save on the interface thread and the timer are separate steps; a save of the
interface thread has a beginning and an end, because the writer may replace the file
in between. `lost` is the last version whose save failed or overlapped another.

Definitions named `Slip...` are mistakes of a plausible kind that no action uses.
Each property has one that breaks it in its own run, listed as a mutant.

## 3. Runs

All runs are exhaustive. Passing runs:

| run | asks | bounds | distinct states |
|---|---|---|---|
| `lifecycle_one` | every handler, every kind of evidence, one crash | 1 opportunity, 7 records over 3 ids, amounts 0 and 1, saves work | 185,636 |
| `run_faults` | a ledger that fails, lost replies | 2 threads, 1 slot, 2 opportunities (one remembered as a success), 3 runs, 2 crashes | 1,212,236 |
| `run_ledger_kept` | refinement of `RunLedger`, cancellation, own result | 2 threads, 1 slot, 2 opportunities, 3 runs, 1 crash | 466,852 |
| `run_pairs` | ghost rows, slots (liveness) | 2 threads, 2 opportunities (one needs approval), 2 slots, 1 crash | 152,496 |
| `approvals_faults` | failed writes, unreadable file, lost replies, re-delivery | 2 requests of any kind, bound 1, 2 restarts | 285,400 |
| `patches` | guard, queue and patches together; refinement of `GatedFile` | 2 requests, bound 1, `owned_max` 1, 1 restart, 3 texts of which 1 does not compile, file works | 115,428 |
| `dialogue_live` | what ends a Live session, and what does not | 2 personas, 2 workers, failure budget 1, repeat budget 0, exchanges limited, 1 timer of a kind, 3 commands | 215,645 |
| `services` | five services, one per behaviour | 2 runs, 2 handlers; 4 gigs, thresholds of 3, 4 payments; 2 callers, 2 providers, 2 attempts, 1 call each; 3 edits | 568,633 |

What they show:

- `PaidIsProvable`: no chain of legal calls, no refusal and no crash books
  a payout for which the evidence never sufficed (dropped saves and records of several
  opportunities are beyond this run's bounds and are covered by the theorem
  `PayoutsAreProvable`). `BookingNeedsCurrentEvidence`:
  the booking step itself finds the policy satisfied and the stage open.
- `StageIsDurable`, `BookingIsDurable`: with saves that work, the file has caught up
  in stage and booking whenever a handler has returned. `PaidStageIsBooked`: until
  a crash has cut a call short, a paid stage has the status and the
  verification that reports need.
- `KeyMeansSubmitted`, `MarkedIsNeverResubmitted`, `LedgerIsKept`,
  `InFlightIsVisible`, `RunningHasARun`: keys stand for real submissions, a key ends
  an opportunity, and rows are RUNNING for exactly the runs in flight.
- `CancelledIsNotSubmitted`, `ResultIsOwn`: although checks stand only between
  stages and results go through one shared field, a run that follows another, in its
  own thread or in the next that gets the slot, obeys its cancellation and submits
  its own result. `SlotsReturn`: a slot comes back
  whichever way a run ends.
- `OneRunPerApproval`, `RunsAreFresh`, `FreshDecisionsStay` hold whatever fails.
  `DecisionIsFinal`, `RequestsAreKept` (run with a file that works) and
  `HistoryIsBounded` are checked where the guard and its prunings are beside the queue.
- `UnansweredIsListed`, `GuardApprovalIsReal`: the guard's own list misses no request
  that waits, and calls nothing approved that no human has approved in the queue,
  although each answer is written in two places at two times.
- `FileIsGated`: the file changes to the text of a patch that a human has approved in
  this process, once for each patch. `WaitingIsKept`: a patch that had to wait for its
  file stays on the list until it is tried.
- `StatusIsEarned`: whatever old row a writer puts back, a row is in progress only
  if an execution found no gate, delivered only if its output validated, paid only
  if its payment was proved.
- `StopIsPrompt`, `LastWordIsHeard`, `RunsEnd`: after Stop at most one model call and
  one handler more begin, every handler gets the last word, and every run ends.
- `RampIsEarned`, `WinsAreHalf`: the loop passes the human only on a platform that has
  paid for a gig that was sent; and with each payment verified once no record is ever
  better than one half.
- `DeadProviderIsLeftAlone`, `DailyCallsHold`, `BudgetHolds`: each bound is passed by
  no more than the callers that were past the check, through restarts and cooldowns.
- `EditIsOnItsWay`, `EditsLand`: the latest edit is in the file, in the hand of a save
  or marked for a timer that runs, and in the end it is in the file, unless its save
  failed or overlapped a save of the other thread.
- `LiveIsAlive`, `LiveGivesUp`: a Live session with nothing scheduled is one that an
  interrupted stop or a reply dropped after Auto-Step has jammed (see below): a
  persona has a worker on record from which nothing more will come. A worker the tab
  holds for the human never does that. And a session that never reaches its provider
  again does not go on for ever.

**Why the bounds are enough.** Handlers of two opportunities meet only in the file,
where they are separate entries, and in the evidence table, where they meet by id;
the theorems on payouts hold for any number of both, and for dropped saves. One crash
lets every recovered state be acted on. Three runs let one run follow the other
two of an opportunity (mark, refusal, retry), two crashes let a recovered row be lost
again. Two requests with a bound of one overflow the history with pending, fresh and
restored items. Two handlers let Stop fall between them, two runs let a late Stop
meet the next run. Four gigs pass each threshold of three. Two callers are enough
for one to be past a check while the other changes what was checked; the bounds are
stated with the number of callers. Two threads that call for one slot make it the
semaphore's doing, and not the instance's, that runs follow one another. Three edits let one be in the file, one in the
writer's hand and one be marked. In `dialogue_live` the budget of
repeated decisions is zero: within it, a retry does what a repeated text does, so
nothing is left out but the count. Two workers are one for each persona; a worker of a
former session takes the place of one of them. The session may have begun before
the first command, so three of them are enough for a message, Auto-Step and Live again,
or for Stop, Live and one more. `LiveIsAlive` was also checked, once each, with three workers
(1,184,893 states), with four commands (771,564), and with three personas, three
workers and two commands (575,326). Where
theorems exist they drop all of these bounds.

**Fairness.**

- `run_pairs`: `WF` of each thread's `Step`. Every step of a thread inside `run()` is
  enabled until the run is over, so this says only that calls of a stage return. A
  stage that hangs in the network would break it: the time limit of the code is
  tested between stages.
- `dialogue_live`: `WF` of `Progress`, the union of everything started or posted: Qt
  delivers events and a thread that runs ends. Nothing says which event comes first,
  that a provider answers, or that the operator does anything.
- `services`: `WF` of the coordinator's `Step` (a model call returns or raises) and of
  the two remaining steps of a Stop; `WF` of the two threads that write settings,
  since each has begun a plain file operation; `SF` of the drain timer's `Tick`: it is
  disabled while the interface thread saves, and a repeating timer is delivered
  between saves however often an operator makes them.

Nothing is assumed of starts, cancellations, commands or crashes.

**Deadlock** is checked where the system always has a step. It is switched off where
a behaviour may really stop: all requests decided and no restart left (approvals,
patches), the operator's commands used up and nothing scheduled (dialogue), the
counted runs, gigs, calls and edits used up (`services` and the two runs of its
modules).

### Disagreements found

Each of four runs ends in a counterexample to a promise the source makes.

| run | promise | what happens |
|---|---|---|
| `dialogue_silent` | `dialogue_tab.py:1950`: Live must never silently end | `_retire_worker` calls itself (`:2331`), so Stop raises while a worker runs; the next Live finds the cancelled worker still there, starts nothing and schedules nothing |
| `executions_begin` | `executor.py:8`: the first step makes NEW into EVALUATING | every row is added as EVALUATING, from which the table does not allow EVALUATING (`executor.py:229`): the execution is refused at its first step |
| `stages_requested` | `coordinator.py:20`: every stage publishes a request | the third and fourth stage go to a role the first two have gone to, and the bus takes the repeated edge for a circle (`comms.py:417`) |
| `cold_start` | `win_rate_guard.py:4`: too few attempts never decline a platform | a proposal refused by the cold-start ramp is tracked as a loss (`proposal.py:80`), and refusals alone reach the guard's samples |

Others met while modelling, which have no run of their own. The behaviour is in the
models unless the entry says otherwise.

*Lifecycle and evidence*

- A refused claim appends the stage `submitted` (`opportunity_lifecycle.py:413`)
  without asking the machine, so a failed opportunity can be paid, against `:73`.
- Tracking a paid opportunity again restarts it (`earning_pipeline.py:1234`), against
  `tests/dialogue/test_group4_medium.py:77`.
- `mark_failed` assigns the status after its save (`opportunity_lifecycle.py:548`); a
  restart recovers `active` with stage `failed`. A crash between the two saves
  of `_mark_paid` (`:700`, `:712`) leaves a paid stage without a booking.
- An eligible claim of amount zero is booked (`:419`) against the comment at `:434`.
- Reconciliation can lower L5 to L4 (`evidence_policy.py:204` against `:186`).
- Records without a reference share the id `""` (`evidence_factory.py:76`), so the
  store keeps one of them, against `evidence_store.py:3`.

*Loop and ledger*

- The process dies after the external call and before the key
  (`autonomous_loop.py:969`): the next run submits again, against
  `autonomous_run_store.py:14`, "never re-executed after a restart".
- The stage that keeps a success blocked reads `outcome_memory`, successes are
  written to `outcome_memory_v2` (`autonomous_loop.py:520`).
- Two concurrent runs of an opportunity can both submit (`:420`),
  one cancellation stops one of them (`:378`), they share the result field (`:834`)
  and the row (`:1211`). The properties about these are stated for runs that
  follow one another: one slot, which is what `OPERATIONS.md:43` sets
  (`MRBOT_AUTONOMY_MAX_CONCURRENT=1`), or one caller. `MarksAreFinal` and the others
  name this as `OneAtATime`.
- A run refused by the replay guard writes FAILED over the portfolio status
  (`:1268`), and a paid entry becomes IN_PROGRESS (`:1266`).
- `_sync_final_state` passes a keyword `mark_final_outcome` does not take (`:1243`);
  the TypeError is caught, so the call changes nothing.
- A negative answer to a submission that did arrive leaves no key, so it is repeated
  (`:939`).

*Approvals, guard, patches*

- After an unreadable start the next request is saved over the file, against
  `approval.py:502`.
- The record of a submission does not survive a restart (`main.py:1215`), so its
  approval, decided afterwards, sends nothing.
- A tool that fails is consumed although `main.py:1172` wants failures retried: the
  dispatcher turns the error into text (`dispatch.py:152`).
- A tool approved under an alias is not covered and is asked for again
  (`dispatch.py:63`).
- A patch approved in the approval panel or in the Safety tab is written by nobody.
  The patch table lists every pending item, so approving another kind of request
  there spends its approval.
- After a restart an approved patch is "unknown_patch". A revert whose backup cannot
  be read proposes an empty file. The monitor proposes a revert at each tick while the
  regression lasts. A crash between write and verify leaves an unverified text.
- `mark_in_use` has no caller in the program, so no patch waits yet. An exception
  inside `drain` loses the rest of the list (not in the model).

*Portfolio*

- A later status is lost under a row read before it; `StatusIsEarned` says only that a
  status in the row was earned once, and does not rule this out.
- AWAITING_APPROVAL never moves to READY; Research is always refused; the decision
  "failed" writes the row back as it was read; terminal rows are rewritten and removed
  rows inserted again by a writer that has read them before.
- The program builds the portfolio without a lifecycle tracker; `rescore_all`,
  `select_next` and `apply_next` have no caller in it (not modelled).

*Collaboration*

- No code sets the status DONE, so `_inflight` is never pruned, against the comment at
  `comms.py:285` (not in the model). Stop before a run is registered does nothing. A
  late Stop marks a finished run CANCELLED.
- Enter during a run replaces `self.worker` of the tab (not in the model).

*Ramp, failover*

- A perfect record has the rate 1/2, since attempt and payment are both counted, and
  the ramp asks for more: it opens only where a payment is verified twice. Verify
  credits a win each time it is pressed, against "exactly once" in `main.py`.
- `_upwork_client` is never set, so the loop has no client in the program.
- Half-open is meant as one trial (`circuit.py:70`) and gives `Threshold` of them. An
  empty reply is never a failure. A local provider that the rate limit refuses falls
  through to a paid one. Counters let calls pass when the database fails (not in the
  model), and the spend of a killed call is never logged.

*Settings*

- `provider_lifecycle_backend.py:658` says that the latest change always lands. A save
  on the interface thread (`_persist_settings`, or another part of the window with its
  own keys) that overlaps the writer can be undone by it, or undo it: `set_env_values`
  reads and replaces the whole file under no lock (`environment.py:137`). Edits that
  are still marked when the program ends are lost.

*Dialogue*

- `isRunning()` on a worker that Qt has deleted raises, so `respond` and `stop_live`
  stop working until the tab forgets it. `reset_dialogue` keeps the history while a
  worker runs. The guard against stale replies is skipped while Live runs. A deferred
  respond starts a turn after Stop. A queued human turn may be answered by
  another persona. Retries of an unreachable provider have no bound in Auto-Step. Live
  may overlap a worker started by hand, against "never stacks overlapping inference
  threads"; and the last reply of the personas makes the tab forget such a worker while
  it runs (`:1823`), so the next message starts one more and Stop leaves it running. Auto-Step leaves Live without
  `stop_live` (`:2237`): a reply of Live that comes then is dropped as stale before
  its worker is taken out of `_live_workers` (`:1811`), and if Live is pressed again
  before that thread has ended, Live finds the persona's worker still running and
  schedules nothing.

*Not modelled, seen while reading*

- Brain servers: several exits leave the start guard taken, against
  `provider_lifecycle_backend.py:537`; a second Start before the port is bound starts
  a second server; a Stop that races a start drops its handle.
- Paper trading: resting orders reserve nothing (`paper_trading.py:302`), so two of
  them can sell one position twice, or spend cash twice.
- Discovery scheduler: cooldown is asked for at selection only, so one tick may
  run many searches of one source although the first has failed.

## 4. Proofs

The theorems hold for every value of the constants that the named assumptions allow;
TLC evaluates the assumptions too. All eight modules are checked to the last leaf.
Every safety property of a passing run, and every refinement, is a theorem.

**`OpportunityLifecycleProofs`.** Two layers. First, every handler's outcome is
`Good`: well typed, it gives the status `paid` only to a state that had it or
where the policy and the stage allow it, its final state agrees with its last
save in stage and booking, and a paid stage it leaves is a booked one. Second, running
a good outcome, whether returned from, cut short or partly saved, keeps
`IInv == TypeOK /\ PaidIsProvable`. The invariant needs
the file as well as the memory, since a crash turns one into the other.
`TypeCorrect`, `PayoutsAreProvable`, `BookingsAreEarned` follow for dropped
saves and crashes alike; `StagesAreDurable` and `BookingsAreDurable` assume
`~SavesMayFail`; `PaidStagesAreBooked` needs neither assumption nor `IInv` beyond
types, since the property itself stops at the first crash. `PayoutsAreVerified` says
what the requirement table comes to: both chains of slots have one that only a
payment of level L3 or more fills (`PayoutNeedsProof`), so no booking rests on the
claim alone; and no record that is added makes a payout ineligible (`EvidenceAddsUp`).

**`AutonomousRunProofs`.** `RunTypeCorrect`; `KeysAreEarned` by the strengthening that
a thread at the mark has submitted (`KeyInv`). `RowsHaveRuns` assumes
`~LedgerMayFail` and any number of threads. `SlotInv` (the free slots and the runs in
progress add up to `Slots`) gives `SlotsBoundRuns` for any number of threads, and under
`OneAtATime`, which allows one slot or one thread, that a run in progress is alone
(`Alone`). The others assume `OneAtATime` and rest on `Alone`:
`MarksAreFinal` by `GuardInv` (a run past the guard has no key until it marks);
`RunsAreVisible` and the refinement `LedgerIsImplemented` by `LedgerInv`, which adds
that a run has its number from `_begin_run` on and that rows and runs agree, and
`~LedgerMayFail`; `CancellationIsObeyed` and `ResultsAreOwn` by `ObeyInv` (the
request stays in the set until the run that was told has reached a check) and the
link between the shared field and the one run. `NothingRunsAfterCommit` draws from the
refinement what a caller sees: a committed opportunity never runs again.
`SubmissionsAreBounded` states how often an opportunity is submitted at all: once, and
once more for each crash. Its invariant (`CountInv`) counts submissions against the
key, the run at the mark and the crashes, and it assumes `~LedgerMayFail` and
`~RepliesMayBeLost`. The assumptions are needed: without `OneAtATime` two runs share
the row, the request and the field, and a mark or a reply that is lost repeats a
submission without a crash.

**`QueueProofs`.** What an operation of the queue does to the items it does not name.
Every operation ends in one write, and the write in the bound, so the lemmas are about
the bound: it drops decided items that are not fresh, and, as no two decisions
have the same time, it leaves no more than allowed unless what may not be dropped
exceeds it. `ApprovalProofs` and `PatchProofs` rest on them.

**`ApprovalProofs`.** `IInv == TypeOK /\ MarksInv /\ OneRunPerApproval /\ CreditInv`.
`MarksInv` says what the two sets of ids mean: every decided item is `old` or
`fresh`, a fresh one is decided. `CreditInv` says that an approval of this process
that the ledger of its kind does not refuse has not been used; without it
`OneRunPerApproval` is not inductive. From it `ApprovalsTypeCorrect`,
`ApprovalsRunOnce`, `OnlyFreshRuns`, `DecisionsStay`, and with distinct times
`HistoryStaysBounded`, whatever fails. With `FileWorks`
(no failing write, no unreadable file) `SavedInv` adds that the file is the queue
and that a decided number is never decided again: `ItemsRunOnce`,
`DecisionsAreFinal`, `RequestsSurvive`.

**`PatchProofs`.** About the two records: what the guard has asked is pending or
freshly decided, hence never dropped (`AskedInv`), and the records differ only for the
request being raised and the one being answered (`RecordsInv`). About the lists:
a patch is on one list at most (`WhereInv`), once (`OnceInv`), and none of them waits
for an answer (`GrantInv`). Together they give `RequestsAreListed`,
`ApprovalsAreReal`, `WaitingPatchesStay`, and the refinement `PatchesAreGated`: each
step decides proposals, installs the text of one, or leaves the abstract state alone.
None of them assumes that the file works. `FinishedPatchesStayOut` draws from
`GatedFile` that a proposal which is over is never written.

**`LimitsProofs`.** For the ramp, a win is counted only with a payment of a gig that
was sent (`PaidInv`), and each gig that is submitted or paid has counted an attempt
of its own (`TallyInv`): `RampOpensOnPayments`, `WinsStayHalf`. For the limits, what
is counted and who is past the check add up to the bound: `DeadProvidersAreLeft`,
`DailyCapHolds`, `BudgetIsKept`, for any number of callers and providers.

**`CollaborationProofs`.** `StopTakesEffect`: nothing is late before the token is
cancelled; a late handler was past its check; after a late call the run reaches the
boundary of its stage and no further. `LastWordArrives`: the first `next - 1` handlers
have heard the update. `EditsAreOnTheirWay`: a dirty panel has its timer, a writer
that is behind leaves the panel dirty (`BehindInv`), and a save that has met no
writer finds the file as it read it (`SaveInv`). For the portfolio, what is shown, held or
planned is earned (`InFlightInv`); since checks are never taken back,
`StatusesAreEarned` follows for any overlap of writers.

**`DialogueProofs`.** A handler maps a tab to the outcomes it can leave, so there is
one lemma for each handler: from a `Sound` tab every outcome is `Fine`, which is
`Sound`, `Paced` and `Alive` (`LiveIsAlive`, of any tab). `Sound` says that a worker that has
ended was cancelled or has replied, that Live and Auto-Step exclude each other, and
that Live has not used up its failures; without the first, the deletion of a worker
could take away what a session waits for. `Paced` says that a Live session without
a worker of its personas has its next turn scheduled, unless the tab holds no worker or
one whose reply will come; without it, a turn for the human could find a deleted
worker in a session that waits for nothing else, and `Alive` would not be inductive.
It holds because the last reply of the personas takes any worker off the tab
(`dialogue_tab.py:1823`). Handlers that call another keep the
argument: they schedule, stop, or hand over. From it `LiveStaysAlive` and
`FailuresAreBounded`, and with what handlers do to the Live flag
`SessionsAreCommanded`, for any roster of two or more in its order, any number of
workers, timers and commands, and with or without a limit of exchanges: where it is
set, an accepted turn may end Live. The reply that is dropped after Auto-Step (see
*Dialogue*) is a way to jam that takes three commands; its proof obligation showed it
first.

**Only model-checked.** `SlotsReturn`, `RunsEnd`, `EditsLand` and `LiveGivesUp`, which
are liveness and out of the prover's reach (`SlotsBoundRuns` and `FailuresAreBounded`
are their safety sides where they have one), and the four counterexamples.

## 5. What is not modelled

- Amounts, prices, scores and times beyond what a guard reads; texts; prompts.
- Handlers of the tracker interleaved inside each other: `_transition` checks and
  appends without a lock (`opportunity_lifecycle.py:653`).
- The tracker without an evidence store: the pipeline, whose tracker everything else
  uses, builds it with one.
- The stage rows, retention and model metadata of the run store; a run whose
  opportunity has no id.
- Approvals of payments and gates, which the decision handler ignores;
  orders that are approved in advance.
- Patches to more than one file at a time, and everything before a proposal: the search
  for candidates, the sandbox.
- The delegation of the portfolio to a lifecycle tracker, its priority queue and its
  capacity, which the program does not use.
- Deduplication of the bus by id: no publisher uses an id twice.
- Tables of the failover that fail, and the token bucket, which is a choice. The
  adapters of the brains (`big_brain.py`, `small_brain.py`) use the limiter outside
  `llm()`; the properties about the daily cap speak of the calls made through `llm()`.
- A dialogue with fewer than two speakers, where the tab falls back to the classic pair
  for the next speaker. The length of the history (the limit of exchanges is a choice).
- Keys of the `.env` file that belong to others; starting, probing and stopping servers.
- Most of the interface: of its handlers only those that change modelled state.
- The components listed as `not_modelled` in `PROJECT.json`, each with its reason.
  They are input and output, texts, scores, sums, or tables that no decision
  modelled here reads; together with the layout of the windows they are by far the
  larger part of the source, so the map covers a small share of it.

## 6. Plan

What would add most, in this order:

1. `ServerProcesses`: start guard, probe, stop and handles of the local servers
   (`provider_lifecycle_backend.py` 500-650, 800-1000), with two starts and a stop that
   overlap. The three observations above are what to look for.
2. `PaperBook`: resting orders, matching and reservations (`paper_trading.py`).
   Property: nothing is sold that is not held.
3. Two tracker handlers inside each other, with `_transition` in two steps.
4. The run store's stage rows and retention; `DiscoveryScheduler`'s cooldown.
5. Proofs: the safety halves of `RunsEnd` and `EditsLand` (a variant that each step of
   the coordinator and of the writer lowers).
