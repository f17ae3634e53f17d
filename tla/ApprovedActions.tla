------------------------------ MODULE ApprovedActions ------------------------------
(***************************************************************************)
(* What follows an approval: the decision handler of the main window       *)
(* (main.py, _on_approval_decided) re-reads the item from the queue and    *)
(* runs it as a tool, sends it as a live order through LiveTradingService, *)
(* or submits its record through PlatformSubmitter.  An item stays         *)
(* approved forever and more than one surface reports a decision, so each  *)
(* way of running it keeps a ledger, in memory, of what has run.           *)
(*                                                                         *)
(* Deliver(i) is a delivery of the decision on item i: the signal of the   *)
(* approval panel, the direct call of the Safety tab, or either again.     *)
(* The handler runs on the GUI thread, so a delivery is one action; a      *)
(* crash inside it is a Restart before or after it, because it writes      *)
(* nothing durable.  Requests come from any thread.                        *)
(*                                                                         *)
(* Left out: preapproved orders, which need no approval; approvals of      *)
(* kind payment and gate, which the handler ignores; and code patches.     *)
(***************************************************************************)
EXTENDS ApprovalQueue

CONSTANT Kinds    \* kinds of requests made

\* "aliased": an action whose tool the model named by an alias
AllKinds == {"action", "aliased", "order", "submission"}
ASSUME KindAssumption == Kinds \subseteq AllKinds

VARIABLES
  kind,       \* what an item asks for
  executed,   \* the main window's _executed_approval_ids
  consumed,   \* the live trading service's _executed_approval_ids
  record,     \* status of the submission record that waits for an item
  sent,       \* observation: times an item reached the outside
  approvals   \* observation: times a human approved an item

runVars == <<executed, consumed, record>>
seenVars == <<kind, sent, approvals>>
vars == <<queueVars, runVars, seenVars>>

Records == {"none", "pending", "approved", "submitted", "failed"}

-----------------------------------------------------------------------------

\* A request; for a submission, prepare_submission and request_approval.
Request(k) ==
  /\ Enqueue
  /\ kind' = [kind EXCEPT ![issued + 1] = k]
  /\ record' = IF k = "submission"
               THEN [record EXCEPT ![issued + 1] = "pending"] ELSE record
  /\ UNCHANGED <<executed, consumed, sent, approvals>>

\* A human decides.
Judge(i, verdict) ==
  /\ Decide(i, verdict)
  /\ approvals' = IF verdict = "approved"
                  THEN [approvals EXCEPT ![i] = @ + 1] ELSE approvals
  /\ UNCHANGED <<runVars, kind, sent>>

\* The guards of _on_approval_decided
Approved(i) == Found(i) /\ queue[i].status = "approved"

Reaches(i) == sent' = [sent EXCEPT ![i] = @ + 1]

\* _execute_approved_action: execute_tool runs the tool, or answers that it was
\* refused or failed; only an error outside the tool raises.
RunAction(i) ==
  /\ kind[i] = "action" /\ i \notin executed
  /\ \/ executed' = executed \cup {i} /\ (Reaches(i) \/ UNCHANGED sent)
     \/ UNCHANGED <<executed, sent>>
  /\ UNCHANGED <<consumed, record>>

\* The same for an alias: the approval names the alias and the call the tool, so
\* it does not cover the call, and execute_tool asks again, under the tool's name.
AskAgain(i) ==
  /\ kind[i] = "aliased" /\ i \notin executed
  /\ executed' = executed \cup {i}
  /\ Enqueue
  /\ kind' = [kind EXCEPT ![issued + 1] = "action"]
  /\ UNCHANGED <<consumed, record, sent>>

\* _execute_approved_live_order and execute_order: a gate refuses; or the
\* approval is consumed, and then the exchange is called, which may fail with
\* the order placed or not.
RunOrder(i) ==
  /\ kind[i] = "order" /\ i \notin executed /\ i \notin consumed
  /\ \/ UNCHANGED <<consumed, executed, sent>>
     \/ /\ consumed' = consumed \cup {i}
        /\ \/ Reaches(i) /\ executed' = executed \cup {i}
           \/ (Reaches(i) \/ UNCHANGED sent) /\ UNCHANGED executed
  /\ UNCHANGED record

SlipResubmitFailed(i) ==
  /\ kind[i] = "submission" /\ record[i] \notin {"none", "submitted"}
  /\ \E status \in {"submitted", "failed"} :
       record' = [record EXCEPT ![i] = status]
  /\ Reaches(i) \/ UNCHANGED sent
  /\ UNCHANGED <<executed, consumed>>
\* submit_if_approved and submit: the platform may be called and fail with the
\* submission made or not, or its adapter may not submit, or there is no adapter
\* and the package is left for the operator.
RunSubmission(i) ==
  /\ kind[i] = "submission" /\ record[i] \notin {"none", "submitted", "failed"}
  /\ \/ /\ \E status \in {"submitted", "failed"} :
             record' = [record EXCEPT ![i] = status]
        /\ Reaches(i) \/ UNCHANGED sent
     \/ record' = [record EXCEPT ![i] = "approved"] /\ UNCHANGED sent
  /\ UNCHANGED <<executed, consumed>>

Deliver(i) ==
  /\ Approved(i)
  /\ \/ /\ RunAction(i) \/ RunOrder(i) \/ RunSubmission(i)
        /\ UNCHANGED <<queueVars, kind>>
     \/ AskAgain(i)
  /\ UNCHANGED approvals

\* The ledgers and the records live as long as the process.
Reboot ==
  /\ Restart
  /\ executed' = {} /\ consumed' = {}
  /\ record' = [i \in Ids |-> "none"]
  /\ UNCHANGED seenVars

Init ==
  /\ QueueInit
  /\ kind = [i \in Ids |-> "action"]
  /\ executed = {} /\ consumed = {}
  /\ record = [i \in Ids |-> "none"]
  /\ sent = [i \in Ids |-> 0] /\ approvals = [i \in Ids |-> 0]

Next ==
  \/ \E k \in Kinds : Request(k)
  \/ \E i \in Ids : Deliver(i) \/ \E verdict \in Verdicts : Judge(i, verdict)
  \/ Reboot

Spec == Init /\ [][Next]_vars

-----------------------------------------------------------------------------
(* Properties. *)

\* The variables keep their types.
TypeOK ==
  /\ QueueTypeOK
  /\ kind \in [Ids -> AllKinds]
  /\ executed \subseteq Ids /\ consumed \subseteq Ids
  /\ record \in [Ids -> Records]
  /\ sent \in [Ids -> Nat] /\ approvals \in [Ids -> Nat]

\* Whatever reaches the outside was approved by a human in the process that runs
\* it: no restart makes an old approval run.
RunsAreFresh ==
  [][\A i \in Ids : sent'[i] # sent[i] => i \in fresh]_vars

\* An approval lets its item reach the outside once: not again for a decision
\* that is delivered again, a reply that was lost, a restart that forgets the
\* ledgers, or a decision that was never saved and had to be made again.
OneRunPerApproval == \A i \in Ids : sent[i] <= approvals[i]

\* While the file can be written, an item reaches the outside at most once, ever.
RunsOnce == \A i \in Ids : sent[i] <= 1
====================================================================================
