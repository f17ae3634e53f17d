---------------------------- MODULE WorkPortfolio ----------------------------
(***************************************************************************)
(* One row of the opportunity portfolio (agents/earning/                   *)
(* opportunity_portfolio.py) and everyone who writes it: the loop, whose   *)
(* execute stage walks the row through the pipeline of the task executor   *)
(* (agents/earning/executor.py), the Opportunities tab, and the            *)
(* evaluation that projects an opportunity on the portfolio.               *)
(*                                                                         *)
(* Every write replaces the whole row with one the writer has read before, *)
(* and no lock covers the read and the write.  The program builds the      *)
(* portfolio without a lifecycle tracker, so a transition asks its own     *)
(* table only.                                                             *)
(***************************************************************************)
EXTENDS Sequences, FiniteSets

CONSTANT Created    \* statuses a row is added with

Statuses == {"NEW", "EVALUATING", "QUALIFIED", "RECOMMENDED", "AWAITING_APPROVAL",
             "READY", "IN_PROGRESS", "BLOCKED", "WAITING_EXTERNAL", "COMPLETED",
             "PAYMENT_PENDING", "PAID", "FAILED", "REJECTED", "EXPIRED", "ABANDONED"}

ASSUME CreatedAssumption == Created \subseteq {"NEW", "EVALUATING"}

Writers == {"loop", "tab", "evaluation"}
Decisions == {"proceed", "reject", "await_approval", "failed"}

VARIABLES
  row,     \* work_status, "none" while there is no row
  held,    \* the row a writer is about to write, "none" when it writes nothing
  plan,    \* transitions a writer has still to make
  progress,      \* where the loop is
  valid,   \* has the output of this execution passed the validator
  earned   \* observation: the checks the work has once passed

portfolioVars == <<row, held, plan, progress, valid, earned>>

\* VALID_WORK_TRANSITIONS
Allowed(status) ==
  CASE status = "NEW" -> {"EVALUATING", "ABANDONED", "EXPIRED", "QUALIFIED"}
    [] status = "EVALUATING" -> {"QUALIFIED", "BLOCKED", "ABANDONED", "EXPIRED",
                                 "FAILED", "REJECTED"}
    [] status = "QUALIFIED" -> {"RECOMMENDED", "AWAITING_APPROVAL", "READY",
                                "BLOCKED", "ABANDONED", "EXPIRED"}
    [] status = "RECOMMENDED" -> {"AWAITING_APPROVAL", "READY", "BLOCKED",
                                  "ABANDONED", "EXPIRED"}
    [] status = "AWAITING_APPROVAL" -> {"READY", "REJECTED", "BLOCKED",
                                        "ABANDONED", "EXPIRED"}
    [] status = "READY" -> {"IN_PROGRESS", "BLOCKED", "ABANDONED", "EXPIRED"}
    [] status = "IN_PROGRESS" -> {"COMPLETED", "BLOCKED", "WAITING_EXTERNAL",
                                  "FAILED", "ABANDONED"}
    [] status = "BLOCKED" -> {"READY", "IN_PROGRESS", "ABANDONED", "EXPIRED"}
    [] status = "WAITING_EXTERNAL" -> {"COMPLETED", "PAYMENT_PENDING", "IN_PROGRESS",
                                       "FAILED", "REJECTED", "BLOCKED"}
    [] status = "COMPLETED" -> {"PAYMENT_PENDING", "PAID", "BLOCKED",
                                "WAITING_EXTERNAL"}
    [] status = "PAYMENT_PENDING" -> {"PAID", "BLOCKED", "FAILED"}
    [] OTHER -> {}

Free(w) == held[w] = "none" /\ plan[w] = <<>>
Hold(w, status) == held' = [held EXCEPT ![w] = status]

-----------------------------------------------------------------------------
(* transition_work_status: read and validate, then write. *)

Refused(w) == row = "none" \/ Head(plan[w]) \notin Allowed(row)

Look(w) ==
  /\ held[w] = "none" /\ plan[w] # <<>>
  /\ IF Refused(w)
     THEN \* what the caller had still to do is off; the executor reports failure
          /\ plan' = [plan EXCEPT ![w] = <<>>]
          /\ progress' = IF w = "loop" THEN "failed" ELSE progress
          /\ UNCHANGED held
     ELSE /\ Hold(w, Head(plan[w]))
          /\ plan' = [plan EXCEPT ![w] = Tail(@)]
          /\ UNCHANGED progress
  /\ UNCHANGED <<row, valid, earned>>

\* add, update: the row is inserted or replaced, whatever is there by now.
Put(w) ==
  /\ held[w] # "none"
  /\ row' = held[w]
  /\ Hold(w, "none")
  /\ UNCHANGED <<plan, progress, valid, earned>>

-----------------------------------------------------------------------------
(* The loop. *)

SlipPassGates(feasible, gates, passes) ==
  IF ~feasible THEN <<"EVALUATING">>
  ELSE <<"EVALUATING", "QUALIFIED", "RECOMMENDED">>
       \o (IF gates THEN <<"AWAITING_APPROVAL">> ELSE <<>>)
       \o <<"READY", "IN_PROGRESS">>
       \o (IF passes THEN <<"COMPLETED", "WAITING_EXTERNAL", "PAYMENT_PENDING">>
           ELSE <<>>)
\* Steps 1 to 11 of the executor: it stops where the task is not feasible, where
\* a human has to pass a gate, and where the output does not validate.
Pipeline(feasible, gates, passes) ==
  IF ~feasible THEN <<"EVALUATING">>
  ELSE <<"EVALUATING", "QUALIFIED", "RECOMMENDED">>
       \o (IF gates THEN <<"AWAITING_APPROVAL">>
           ELSE <<"READY", "IN_PROGRESS">>
                \o (IF passes THEN <<"COMPLETED", "WAITING_EXTERNAL", "PAYMENT_PENDING">>
                    ELSE <<>>))

\* The execute stage starts when the row is there.
Execute ==
  /\ progress = "idle" /\ Free("loop") /\ row # "none"
  /\ \E feasible, gates, passes \in BOOLEAN :
       /\ plan' = [plan EXCEPT !["loop"] = Pipeline(feasible, gates, passes)]
       /\ valid' = (feasible /\ ~gates /\ passes)
       /\ earned' = earned \cup (IF feasible /\ ~gates THEN {"gates"} ELSE {})
                           \cup (IF feasible /\ ~gates /\ passes THEN {"validation"}
                                 ELSE {})
  /\ progress' = "execute"
  /\ UNCHANGED <<row, held>>

\* The executor returns before step 12.
Stop ==
  /\ progress = "execute" /\ Free("loop") /\ ~valid
  /\ progress' = "failed"
  /\ UNCHANGED <<row, held, plan, valid, earned>>

\* Step 14 writes PAID on the verdict of step 12 alone.
Learn(proof) == IF proof THEN <<"PAID">> ELSE <<>>

\* Steps 12 to 14: does the recorded evidence prove a payment.
Verify ==
  /\ progress = "execute" /\ Free("loop") /\ valid
  /\ \E proof \in BOOLEAN :
       /\ plan' = [plan EXCEPT !["loop"] = Learn(proof)]
       /\ earned' = earned \cup (IF proof THEN {"payment"} ELSE {})
  /\ progress' = "executed"
  /\ UNCHANGED <<row, held, valid>>

\* The rerank stage gives the row a new priority.
Rerank ==
  /\ progress = "executed" /\ Free("loop")
  /\ IF row = "none" THEN UNCHANGED held ELSE Hold("loop", row)
  /\ progress' = "reranked"
  /\ UNCHANGED <<row, plan, valid, earned>>

\* The status the final sync gives the row, without asking the table.
Synced(decision) ==
  CASE decision = "proceed" -> "IN_PROGRESS"
    [] decision = "reject" -> "FAILED"
    [] decision = "await_approval" -> "AWAITING_APPROVAL"
    [] decision = "failed" -> row

\* _finalize, from wherever the loop got to.
Finish(decision) ==
  /\ Free("loop")
  /\ CASE progress = "idle" -> decision # "proceed"
       [] progress = "failed" -> decision = "failed"
       [] progress = "executed" -> decision \in {"reject", "failed"}
       [] progress = "reranked" -> decision = "proceed"
       [] OTHER -> FALSE
  /\ IF row = "none" THEN UNCHANGED held ELSE Hold("loop", Synced(decision))
  /\ progress' = "idle" /\ valid' = FALSE
  /\ UNCHANGED <<row, plan, earned>>

-----------------------------------------------------------------------------
(* The tab and the evaluation. *)

Demand(w, targets) ==
  /\ Free(w) /\ row # "none"
  /\ plan' = [plan EXCEPT ![w] = targets]
  /\ UNCHANGED <<row, held, progress, valid, earned>>

Research == Demand("tab", <<"EVALUATING">>)
Apply ==
  Demand("tab", (IF row = "NEW" THEN <<"EVALUATING">> ELSE <<>>)
             \o (IF row \in {"NEW", "EVALUATING"} THEN <<"QUALIFIED">> ELSE <<>>)
             \o <<"AWAITING_APPROVAL">>)
Reject == Demand("tab", IF row = "NEW" THEN <<"ABANDONED">> ELSE <<"REJECTED">>)

Clear ==
  /\ Free("tab") /\ row # "none"
  /\ row' = "none"
  /\ UNCHANGED <<held, plan, progress, valid, earned>>

\* A scan adds what is not there; sync_to_portfolio keeps the status it finds.
Project(w) ==
  /\ Free(w) /\ w # "loop"
  /\ IF row = "none" THEN \E status \in Created : Hold(w, status)
     ELSE w = "evaluation" /\ Hold(w, row)
  /\ UNCHANGED <<row, plan, progress, valid, earned>>

-----------------------------------------------------------------------------

PortfolioInit == /\ row \in {"none"} \cup Created
        /\ held = [w \in Writers |-> "none"] /\ plan = [w \in Writers |-> <<>>]
        /\ progress = "idle" /\ valid = FALSE /\ earned = {}

PortfolioNext == \/ \E w \in Writers : Look(w) \/ Put(w) \/ Project(w)
        \/ Execute \/ Stop \/ Verify \/ Rerank
        \/ \E decision \in Decisions : Finish(decision)
        \/ Research \/ Apply \/ Reject \/ Clear

PortfolioSpec == PortfolioInit /\ [][PortfolioNext]_portfolioVars

-----------------------------------------------------------------------------
(* Properties. *)

PortfolioTypeOK ==
  /\ row \in Statuses \cup {"none"}
  /\ held \in [Writers -> Statuses \cup {"none"}]
  /\ plan \in [Writers -> Seq(Statuses)]
  /\ progress \in {"idle", "execute", "executed", "reranked", "failed"}
  /\ valid \in BOOLEAN /\ earned \subseteq {"gates", "validation", "payment"}

\* The checks a status stands for.
Delivered == {"COMPLETED", "WAITING_EXTERNAL", "PAYMENT_PENDING"}
Needs(status) ==
  CASE status \in {"READY", "IN_PROGRESS"} -> {"gates"}
    [] status \in Delivered -> {"gates", "validation"}
    [] status = "PAID" -> {"gates", "validation", "payment"}
    [] OTHER -> {}

\* Whatever writers overlap, and however old the row is that one of them puts
\* back, work is shown as under way only if an execution found no gate before a
\* human, as delivered only if its output validated, and as paid only if evidence
\* proved the payment (execute, _step12_verify, _sync_final_state).
StatusIsEarned == Needs(row) \subseteq earned

\* Where a row waits for its evaluation, the first transition of an execution is
\* one that the table allows (executor: step 1 inspects the requirements and makes
\* the row EVALUATING).
ExecutionsBegin ==
  progress = "execute" /\ row = "EVALUATING" /\ plan["loop"] # <<>>
    /\ Head(plan["loop"]) = "EVALUATING" => ~Refused("loop")
=============================================================================
