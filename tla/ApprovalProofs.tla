------------------------------ MODULE ApprovalProofs ------------------------------
(***************************************************************************)
(* Theorems of ApprovedActions, for any number of requests, any bound on   *)
(* the history and any number of restarts.                                 *)
(*                                                                         *)
(* One inductive invariant carries the theorems that hold whatever fails:  *)
(* what the two sets of ids say of the items (MarksInv, of QueueProofs),   *)
(* and what is left of an approval until its kind's ledger has it          *)
(* (CreditInv).  A second one, SavedInv, holds while the file can be       *)
(* written and read.                                                       *)
(***************************************************************************)
EXTENDS ApprovedActions, QueueProofs, TLAPS

\* The ledger of the item's kind refuses it.
Spent(i) ==
  \/ kind[i] \in {"action", "aliased"} /\ i \in executed
  \/ kind[i] = "order" /\ i \in executed \cup consumed
  \/ kind[i] = "submission" /\ record[i] \in {"none", "submitted", "failed"}

\* An approval of this process that no ledger has yet has not been used.
CreditInv ==
  \A i \in fresh :
    queue[i].status = "approved" /\ ~Spent(i) => sent[i] < approvals[i]

IInv == TypeOK /\ MarksInv /\ OneRunPerApproval /\ CreditInv

\* The file is the queue; nothing is approved twice, and a number that was
\* approved is not given, or decided, again.
SavedInv ==
  /\ file = queue
  /\ \A i \in Ids : /\ approvals[i] <= 1
                    /\ approvals[i] > 0 => /\ i <= issued
                                           /\ queue[i].status # "pending"

-----------------------------------------------------------------------------
(* The inductive invariant. *)

\* The invariant holds at the start.
LEMMA InitIInv == Init => IInv
<1> SUFFICES ASSUME Init PROVE IInv
  OBVIOUS
<1>1. /\ \A i \in Ids : Empty[i] = NoItem
      /\ Empty \in Queues
  BY StatusesDiffer DEF Empty, Queues
<1>2. Held(Empty) = {} /\ Decided(Empty) = {}
  BY <1>1, StatusesDiffer DEF Held, Decided
<1>3. TypeOK
  BY <1>1, QueueAssumption
  DEF Init, QueueInit, TypeOK, QueueTypeOK, AllKinds, Records
<1>4. MarksInv
  BY <1>2 DEF Init, QueueInit, MarksInv
<1>5. OneRunPerApproval
  BY DEF Init, OneRunPerApproval
<1>6. CreditInv
  BY DEF Init, QueueInit, CreditInv
<1> QED
  BY <1>3, <1>4, <1>5, <1>6 DEF IInv

\* The types of what is not the queue, and what a Credit says of an item.
LEMMA Facts ==
  ASSUME IInv
  PROVE  /\ QueueTypeOK /\ MarksInv /\ OneRunPerApproval /\ CreditInv
         /\ kind \in [Ids -> AllKinds] /\ record \in [Ids -> Records]
         /\ executed \subseteq Ids /\ consumed \subseteq Ids
         /\ sent \in [Ids -> Nat] /\ approvals \in [Ids -> Nat]
         /\ issued \in 0..MaxItems
BY DEF IInv, TypeOK, QueueTypeOK

LEMMA RequestStep ==
  ASSUME IInv, NEW k \in Kinds, Request(k)
  PROVE  IInv'
<1> DEFINE n == issued + 1
<1>1. /\ n \in Ids
      /\ \A i \in Ids \ {n} : queue'[i] \in {queue[i], NoItem}
      /\ queue'[n].status = "pending"
      /\ fresh' \subseteq fresh
  BY EnqueueKeeps, Facts DEF Request
<1>2. /\ executed' = executed /\ consumed' = consumed
      /\ sent' = sent /\ approvals' = approvals
      /\ kind' = [kind EXCEPT ![n] = k]
      /\ record' \in {record, [record EXCEPT ![n] = "pending"]}
  BY DEF Request
<1>3. QueueTypeOK' /\ MarksInv'
  BY EnqueueMarks, Facts DEF Request
<1>4. k \in AllKinds /\ "pending" \in Records
  BY KindAssumption DEF Records
<1>5. TypeOK'
  <2>1. kind' \in [Ids -> AllKinds]
    BY <1>1, <1>2, <1>4, Facts
  <2>2. record' \in [Ids -> Records]
    BY <1>1, <1>2, <1>4, Facts
  <2> QED
    BY <1>2, <1>3, <2>1, <2>2, Facts DEF TypeOK
<1>6. OneRunPerApproval'
  BY <1>2, Facts DEF OneRunPerApproval
<1>7. CreditInv'
  <2> SUFFICES ASSUME NEW i \in fresh', queue'[i].status = "approved", ~Spent(i)'
               PROVE  sent'[i] < approvals'[i]
    BY DEF CreditInv
  <2>1. i \in fresh /\ i \in Ids /\ i # n
    BY <1>1, Facts DEF QueueTypeOK, Held
  <2>2. queue[i].status = "approved"
    BY <1>1, <2>1, StatusesDiffer
  <2>3. kind'[i] = kind[i] /\ record'[i] = record[i]
    BY <1>2, <2>1, Facts
  <2>4. ~Spent(i)
    BY <1>2, <2>3 DEF Spent
  <2> QED
    BY <1>2, <2>1, <2>2, <2>4, Facts DEF CreditInv
<1> QED
  BY <1>3, <1>5, <1>6, <1>7 DEF IInv

LEMMA JudgeStep ==
  ASSUME IInv, NEW d \in Ids, NEW verdict \in Verdicts, Judge(d, verdict)
  PROVE  IInv'
<1>1. /\ \A i \in Ids \ {d} : queue'[i] \in {queue[i], NoItem}
      /\ queue'[d].status = verdict
      /\ fresh' \subseteq fresh \cup {d}
  BY DecideKeeps, Facts DEF Judge
<1>2. /\ executed' = executed /\ consumed' = consumed /\ record' = record
      /\ kind' = kind /\ sent' = sent
      /\ verdict = "approved" => approvals' = [approvals EXCEPT ![d] = @ + 1]
      /\ verdict # "approved" => approvals' = approvals
  BY DEF Judge, runVars
<1>3. QueueTypeOK' /\ MarksInv'
  BY DecideMarks, Facts DEF Judge
<1>4. /\ approvals' \in [Ids -> Nat]
      /\ \A i \in Ids : approvals[i] <= approvals'[i]
      /\ verdict = "approved" => approvals'[d] = approvals[d] + 1
  BY <1>2, Facts
<1>5. TypeOK'
  BY <1>2, <1>3, <1>4, Facts DEF TypeOK
<1>6. OneRunPerApproval'
  BY <1>2, <1>4, Facts DEF OneRunPerApproval
<1>7. CreditInv'
  <2> SUFFICES ASSUME NEW i \in fresh', queue'[i].status = "approved", ~Spent(i)'
               PROVE  sent'[i] < approvals'[i]
    BY DEF CreditInv
  <2>1. CASE i = d
    BY <1>1, <1>2, <1>4, <2>1, Facts DEF OneRunPerApproval
  <2>2. CASE i # d
    <3>1. i \in fresh /\ i \in Ids
      BY <1>1, <2>2, Facts DEF QueueTypeOK, Held
    <3>2. queue[i].status = "approved"
      BY <1>1, <2>2, <3>1, StatusesDiffer
    <3>3. ~Spent(i)
      BY <1>2 DEF Spent
    <3>4. sent[i] < approvals[i]
      BY <3>1, <3>2, <3>3, Facts DEF CreditInv
    <3> QED
      BY <1>2, <1>4, <3>1, <3>4, Facts
  <2> QED
    BY <2>1, <2>2
<1> QED
  BY <1>3, <1>5, <1>6, <1>7 DEF IInv

\* What a delivery does to an item that is not the one delivered: nothing; and to
\* the one delivered: it is sent at most once, and if it is, it is spent.
LEMMA RunSpends ==
  ASSUME IInv, NEW d \in Ids, RunAction(d) \/ RunOrder(d) \/ RunSubmission(d),
         kind' = kind
  PROVE  /\ ~Spent(d)
         /\ executed' \subseteq Ids /\ consumed' \subseteq Ids
         /\ record' \in [Ids -> Records]
         /\ \A i \in Ids \ {d} : Spent(i)' = Spent(i)
         /\ \/ sent' = sent
            \/ sent' = [sent EXCEPT ![d] = @ + 1] /\ Spent(d)'
<1>1. CASE RunAction(d)
  BY <1>1, Facts DEF RunAction, Reaches, Spent, AllKinds
<1>2. CASE RunOrder(d)
  BY <1>2, Facts DEF RunOrder, Reaches, Spent, AllKinds
<1>3. CASE RunSubmission(d)
  BY <1>3, Facts DEF RunSubmission, Reaches, Spent, AllKinds, Records
<1> QED
  BY <1>1, <1>2, <1>3

LEMMA RunStep ==
  ASSUME IInv, NEW d \in Ids, Approved(d),
         RunAction(d) \/ RunOrder(d) \/ RunSubmission(d),
         UNCHANGED <<queueVars, kind, approvals>>
  PROVE  IInv' /\ d \in fresh
<1>1. /\ queue' = queue /\ file' = file /\ old' = old /\ fresh' = fresh
      /\ issued' = issued /\ now' = now /\ restarts' = restarts
      /\ kind' = kind /\ approvals' = approvals
  BY DEF queueVars
<1>2. /\ ~Spent(d)
      /\ executed' \subseteq Ids /\ consumed' \subseteq Ids
      /\ record' \in [Ids -> Records]
      /\ \A i \in Ids \ {d} : Spent(i)' = Spent(i)
      /\ \/ sent' = sent
         \/ sent' = [sent EXCEPT ![d] = @ + 1] /\ Spent(d)'
  BY <1>1, RunSpends
<1>3. d \in fresh /\ queue[d].status = "approved"
  BY Facts, StatusesDiffer DEF Approved, Found, MarksInv, Decided
<1>4. sent[d] < approvals[d]
  BY <1>2, <1>3, Facts DEF CreditInv
<1>5. /\ sent' \in [Ids -> Nat]
      /\ \A i \in Ids \ {d} : sent'[i] = sent[i]
      /\ sent'[d] <= approvals[d]
      /\ sent'[d] = sent[d] \/ Spent(d)'
  BY <1>2, <1>4, Facts
<1>6. QueueTypeOK' /\ MarksInv'
  BY <1>1, Facts DEF QueueTypeOK, MarksInv, Held, Decided
<1>7. TypeOK'
  BY <1>1, <1>2, <1>5, <1>6, Facts DEF TypeOK
<1>8. OneRunPerApproval'
  BY <1>1, <1>5, Facts DEF OneRunPerApproval
<1>9. CreditInv'
  <2> SUFFICES ASSUME NEW i \in fresh', queue'[i].status = "approved", ~Spent(i)'
               PROVE  sent'[i] < approvals'[i]
    BY DEF CreditInv
  <2>1. i \in Ids
    BY <1>1, Facts DEF QueueTypeOK, Held
  <2>2. CASE i = d
    BY <1>1, <1>4, <1>5, <2>2
  <2>3. CASE i # d
    <3>1. sent[i] < approvals[i]
      BY <1>1, <1>2, <2>1, <2>3, Facts DEF CreditInv
    <3> QED
      BY <1>1, <1>5, <2>1, <2>3, <3>1
  <2> QED
    BY <2>2, <2>3
<1> QED
  BY <1>3, <1>6, <1>7, <1>8, <1>9 DEF IInv

LEMMA AskAgainStep ==
  ASSUME IInv, NEW d \in Ids, AskAgain(d), approvals' = approvals
  PROVE  IInv'
<1> DEFINE n == issued + 1
<1>1. /\ n \in Ids
      /\ \A i \in Ids \ {n} : queue'[i] \in {queue[i], NoItem}
      /\ queue'[n].status = "pending"
      /\ fresh' \subseteq fresh
  BY EnqueueKeeps, Facts DEF AskAgain
<1>2. /\ executed' = executed \cup {d} /\ consumed' = consumed
      /\ record' = record /\ sent' = sent /\ approvals' = approvals
      /\ kind' = [kind EXCEPT ![n] = "action"]
  BY DEF AskAgain
<1>3. QueueTypeOK' /\ MarksInv'
  BY EnqueueMarks, Facts DEF AskAgain
<1>4. kind' \in [Ids -> AllKinds]
  BY <1>1, <1>2, Facts DEF AllKinds
<1>5. TypeOK'
  BY <1>2, <1>3, <1>4, Facts DEF TypeOK
<1>6. OneRunPerApproval'
  BY <1>2, Facts DEF OneRunPerApproval
<1>7. CreditInv'
  <2> SUFFICES ASSUME NEW i \in fresh', queue'[i].status = "approved", ~Spent(i)'
               PROVE  sent'[i] < approvals'[i]
    BY DEF CreditInv
  <2>1. i \in fresh /\ i \in Ids /\ i # n
    BY <1>1, Facts DEF QueueTypeOK, Held
  <2>2. queue[i].status = "approved"
    BY <1>1, <2>1, StatusesDiffer
  <2>3. kind'[i] = kind[i]
    BY <1>2, <2>1, Facts
  <2>4. ~Spent(i)
    BY <1>2, <2>3 DEF Spent
  <2> QED
    BY <1>2, <2>1, <2>2, <2>4, Facts DEF CreditInv
<1> QED
  BY <1>3, <1>5, <1>6, <1>7 DEF IInv

LEMMA RebootStep ==
  ASSUME IInv, Reboot
  PROVE  IInv'
<1>1. QueueTypeOK' /\ MarksInv' /\ fresh' = {}
  BY RestartMarks, Facts DEF Reboot, Restart
<1>2. /\ executed' = {} /\ consumed' = {} /\ record' = [i \in Ids |-> "none"]
      /\ kind' = kind /\ sent' = sent /\ approvals' = approvals
  BY DEF Reboot, seenVars
<1>3. TypeOK'
  BY <1>1, <1>2, Facts DEF TypeOK, Records
<1>4. OneRunPerApproval' /\ CreditInv'
  BY <1>1, <1>2, Facts DEF OneRunPerApproval, CreditInv
<1> QED
  BY <1>1, <1>3, <1>4 DEF IInv

\* Every step keeps the invariant.
LEMMA NextIInv == IInv /\ [Next]_vars => IInv'
<1> SUFFICES ASSUME IInv, [Next]_vars PROVE IInv'
  OBVIOUS
<1>1. ASSUME NEW k \in Kinds, Request(k) PROVE IInv'
  BY <1>1, RequestStep
<1>2. ASSUME NEW i \in Ids, NEW verdict \in Verdicts, Judge(i, verdict) PROVE IInv'
  BY <1>2, JudgeStep
<1>3. ASSUME NEW i \in Ids, Deliver(i) PROVE IInv'
  <2>1. CASE AskAgain(i)
    BY <1>3, <2>1, AskAgainStep DEF Deliver
  <2>2. CASE ~AskAgain(i)
    BY <1>3, <2>2, RunStep DEF Deliver, queueVars
  <2> QED
    BY <2>1, <2>2
<1>4. CASE Reboot
  BY <1>4, RebootStep
<1>5. CASE UNCHANGED vars
  BY <1>5 DEF vars, queueVars, runVars, seenVars, IInv, TypeOK, QueueTypeOK,
              MarksInv, OneRunPerApproval, CreditInv, Spent, Held, Decided
<1> QED
  BY <1>1, <1>2, <1>3, <1>4, <1>5 DEF Next

LEMMA Invariance == Spec => []IInv
BY InitIInv, NextIInv, PTL DEF Spec

-----------------------------------------------------------------------------
(* What holds whatever fails. *)

\* The variables of the queue and of the handlers keep their types.
THEOREM ApprovalsTypeCorrect == Spec => []TypeOK
<1>1. IInv => TypeOK
  BY DEF IInv
<1> QED
  BY <1>1, Invariance, PTL

\* An approval lets its item reach the outside once (main.py's and the trading
\* service's sets of executed ids, and the status of a submission's record).
THEOREM ApprovalsRunOnce == Spec => []OneRunPerApproval
<1>1. IInv => OneRunPerApproval
  BY DEF IInv
<1> QED
  BY <1>1, Invariance, PTL

\* What reaches the outside was decided in the process that runs it (find_by_id).
THEOREM OnlyFreshRuns == Spec => RunsAreFresh
<1>1. ASSUME IInv, [Next]_vars
      PROVE  [\A i \in Ids : sent'[i] # sent[i] => i \in fresh]_vars
  <2> SUFFICES ASSUME Next PROVE \A i \in Ids : sent'[i] # sent[i] => i \in fresh
    BY <1>1
  <2>1. ASSUME NEW k \in Kinds, Request(k) PROVE sent' = sent
    BY <2>1 DEF Request
  <2>2. ASSUME NEW i \in Ids, NEW verdict \in Verdicts, Judge(i, verdict)
        PROVE  sent' = sent
    BY <2>2 DEF Judge
  <2>3. ASSUME NEW d \in Ids, Deliver(d)
        PROVE  \A i \in Ids : sent'[i] # sent[i] => i \in fresh
    <3>1. CASE AskAgain(d)
      BY <3>1 DEF AskAgain
    <3>2. CASE ~AskAgain(d)
      <4>1. d \in fresh
        BY <1>1, <2>3, <3>2, RunStep DEF Deliver, queueVars
      <4>2. kind' = kind /\ (RunAction(d) \/ RunOrder(d) \/ RunSubmission(d))
        BY <2>3, <3>2 DEF Deliver
      <4>3. sent' \in {sent, [sent EXCEPT ![d] = @ + 1]}
        BY <1>1, <4>2, RunSpends
      <4> QED
        BY <1>1, <4>1, <4>3, Facts
    <3> QED
      BY <3>1, <3>2
  <2>4. CASE Reboot
    BY <2>4 DEF Reboot, seenVars
  <2> QED
    BY <2>1, <2>2, <2>3, <2>4 DEF Next
<1> QED
  BY <1>1, Invariance, PTL DEF Spec, RunsAreFresh

\* A step of the handlers is, for the queue, one of its operations or no step.
LEMMA QueueSteps ==
  ASSUME [Next]_vars
  PROVE  \/ Enqueue \/ Restart \/ UNCHANGED queueVars
         \/ \E i \in Ids, verdict \in Verdicts : Decide(i, verdict)
BY DEF Next, vars, Request, Judge, Deliver, AskAgain, Reboot

\* A decision stays as long as its process lives, whatever is asked after it and
\* even if no write succeeds (_maybe_persist).
THEOREM DecisionsStay == Spec => FreshDecisionsStay
<1>1. ASSUME IInv, [Next]_vars
      PROVE  [restarts' = restarts =>
                \A i \in fresh : queue'[i] = queue[i]]_queueVars
  <2> SUFFICES ASSUME restarts' = restarts, NEW i \in fresh,
                      Enqueue \/ Restart
                        \/ \E d \in Ids, verdict \in Verdicts : Decide(d, verdict)
               PROVE  queue'[i] = queue[i]
    BY <1>1, QueueSteps
  <2>1. i \in Ids /\ i \in 1..issued /\ issued \in Nat
    BY <1>1, Facts DEF QueueTypeOK, MarksInv, Held
  <2>2. CASE Enqueue
    BY <1>1, <2>1, <2>2, EnqueueKeeps, Facts
  <2>3. ASSUME NEW d \in Ids, NEW verdict \in Verdicts, Decide(d, verdict)
        PROVE  queue'[i] = queue[i]
    <3>1. i # d
      BY <1>1, <2>3, DecideKeeps, Facts
    <3> QED
      BY <1>1, <2>1, <2>3, <3>1, DecideKeeps, Facts
  <2>4. ~Restart
    BY <1>1, Facts DEF Restart, QueueTypeOK
  <2> QED
    BY <2>2, <2>3, <2>4
<1> QED
  BY <1>1, Invariance, PTL DEF Spec, FreshDecisionsStay

LEMMA TimesInvariance == Spec => [](IInv /\ TimesInv(queue) /\ TimesInv(file))
<1>1. Init => TimesInv(queue) /\ TimesInv(file)
  BY StatusesDiffer DEF Init, QueueInit, TimesInv, Decided, Empty
<1>2. ASSUME IInv, TimesInv(queue), TimesInv(file), [Next]_vars
      PROVE  TimesInv(queue)' /\ TimesInv(file)'
  BY <1>2, Facts, QueueSteps, TimesStay
<1> QED
  BY <1>1, <1>2, InitIInv, NextIInv, PTL DEF Spec

\* What a saved change leaves in the queue is within its bound, or nothing of it
\* may go (_maybe_persist).
THEOREM HistoryStaysBounded == Spec => HistoryIsBounded
<1>1. ASSUME IInv, TimesInv(queue), [Next]_vars
      PROVE  [file' # file =>
                \/ Cardinality(Held(queue')) <= Retained
                \/ Held(queue') = Live(queue', fresh')]_queueVars
  BY <1>1, Facts, QueueSteps, SavedIsTight DEF Tight
<1> QED
  BY <1>1, TimesInvariance, PTL DEF Spec, HistoryIsBounded

-----------------------------------------------------------------------------
(* What holds while the file can be written and read. *)

FileWorks == ~SavesMayFail /\ ~LoadMayFail

LEMMA InitSavedInv == Init => SavedInv
BY DEF Init, QueueInit, SavedInv

LEMMA NextSavedInv ==
  ASSUME FileWorks, IInv, SavedInv, [Next]_vars
  PROVE  SavedInv'
<1>1. \A i \in Ids : i \in Nat
  BY DEF Ids
<1>2. \A i \in Ids : queue[i].status = "pending" => i <= issued
  BY Facts, StatusesDiffer DEF MarksInv, Held
<1>3. ASSUME Enqueue, approvals' = approvals PROVE SavedInv'
  <2>1. /\ issued + 1 \in Ids /\ issued' = issued + 1 /\ file' = queue'
        /\ \A i \in Ids \ {issued + 1} : queue'[i] \in {queue[i], NoItem}
    BY <1>3, EnqueueKeeps, Facts DEF FileWorks
  <2>2. ASSUME NEW i \in Ids, approvals[i] > 0
        PROVE  i <= issued + 1 /\ queue'[i].status # "pending"
    <3>1. i <= issued /\ queue[i].status # "pending"
      BY <2>2 DEF SavedInv
    <3>2. i # issued + 1
      BY <1>1, <3>1, Facts
    <3> QED
      BY <1>1, <2>1, <3>1, <3>2, StatusesDiffer, Facts
  <2> QED
    BY <1>3, <2>1, <2>2 DEF SavedInv
<1>4. ASSUME NEW k \in Kinds, Request(k) PROVE SavedInv'
  BY <1>3, <1>4 DEF Request
<1>5. ASSUME NEW d \in Ids, NEW verdict \in Verdicts, Judge(d, verdict)
      PROVE  SavedInv'
  <2>1. /\ queue[d].status = "pending" /\ queue'[d].status = verdict
        /\ issued' = issued /\ file' = queue'
        /\ \A i \in Ids \ {d} : queue'[i] \in {queue[i], NoItem}
    BY <1>5, DecideKeeps, Facts DEF Judge, FileWorks
  <2>2. approvals[d] = 0
    BY <2>1, Facts DEF SavedInv
  <2>3. approvals' \in {approvals, [approvals EXCEPT ![d] = @ + 1]}
    BY <1>5 DEF Judge
  <2>4. \A i \in Ids \ {d} : approvals'[i] = approvals[i]
    BY <2>3, Facts
  <2>5. approvals'[d] <= 1
    BY <2>2, <2>3, Facts
  <2>6. queue'[d].status # "pending" /\ d <= issued
    BY <1>2, <2>1, StatusesDiffer
  <2>7. \A i \in Ids : queue[i].status # "pending" =>
                        i # d /\ queue'[i].status # "pending"
    BY <2>1, StatusesDiffer
  <2> QED
    BY <2>1, <2>4, <2>5, <2>6, <2>7 DEF SavedInv
<1>6. ASSUME NEW d \in Ids, Deliver(d) PROVE SavedInv'
  <2>1. CASE AskAgain(d)
    BY <1>3, <1>6, <2>1 DEF Deliver, AskAgain
  <2>2. CASE ~AskAgain(d)
    BY <1>6, <2>2 DEF Deliver, queueVars, SavedInv
  <2> QED
    BY <2>1, <2>2
<1>7. CASE Reboot
  BY <1>7 DEF Reboot, Restart, Load, FileWorks, seenVars, SavedInv
<1>8. CASE UNCHANGED vars
  BY <1>8 DEF vars, queueVars, seenVars, SavedInv
<1> QED
  BY <1>4, <1>5, <1>6, <1>7, <1>8 DEF Next

LEMMA SavedInvariance == ASSUME FileWorks PROVE Spec => [](IInv /\ SavedInv)
<1>1. Init => IInv /\ SavedInv
  BY InitIInv, InitSavedInv
<1>2. IInv /\ SavedInv /\ [Next]_vars => (IInv /\ SavedInv)'
  BY NextIInv, NextSavedInv
<1> QED
  BY <1>1, <1>2, PTL DEF Spec

\* An item reaches the outside at most once, ever.
THEOREM ItemsRunOnce == ASSUME FileWorks PROVE Spec => []RunsOnce
<1>1. IInv /\ SavedInv => RunsOnce
  <2> SUFFICES ASSUME IInv, SavedInv, NEW i \in Ids PROVE sent[i] <= 1
    BY DEF RunsOnce
  <2>1. sent[i] <= approvals[i] /\ approvals[i] <= 1
    BY DEF IInv, OneRunPerApproval, SavedInv
  <2> QED
    BY <2>1, Facts
<1> QED
  BY <1>1, SavedInvariance, PTL

\* A decision is never taken back or changed, and no request that waits is lost,
\* by a second click, the bound of the history or a restart.
LEMMA SavedStep ==
  ASSUME FileWorks, IInv, SavedInv, [Next]_vars, NEW i \in Ids
  PROVE  /\ i \in Decided(queue) => queue'[i] \in {queue[i], NoItem}
         /\ queue[i].status = "pending" => i \in Held(queue')
<1>1. /\ i \in Held(queue) => i # issued + 1
      /\ i \in Decided(queue) => i \in Held(queue) /\ queue[i].status # "pending"
      /\ queue[i].status = "pending" => i \in Held(queue)
  BY Facts, StatusesDiffer DEF MarksInv, Held, Decided
<1>2. CASE Enqueue
  BY <1>1, <1>2, EnqueueKeeps, Facts, StatusesDiffer DEF Held
<1>3. ASSUME NEW d \in Ids, NEW verdict \in Verdicts, Decide(d, verdict)
      PROVE  /\ i \in Decided(queue) => queue'[i] \in {queue[i], NoItem}
             /\ queue[i].status = "pending" => i \in Held(queue')
  BY <1>1, <1>3, DecideKeeps, Facts, StatusesDiffer DEF Held
<1>4. CASE Restart
  <2>1. queue' = queue
    BY <1>4 DEF Restart, Load, FileWorks, SavedInv
  <2> QED
    BY <1>1, <2>1
<1>5. CASE UNCHANGED queueVars
  BY <1>1, <1>5 DEF queueVars
<1> QED
  BY <1>2, <1>3, <1>4, <1>5, QueueSteps

\* A decision is never taken back or changed (decide, under the lock, and _load).
THEOREM DecisionsAreFinal == ASSUME FileWorks PROVE Spec => DecisionIsFinal
<1>1. IInv /\ SavedInv /\ [Next]_vars =>
        [\A i \in Decided(queue) : queue'[i] \in {queue[i], NoItem}]_queueVars
  BY SavedStep DEF Decided
<1> QED
  BY <1>1, SavedInvariance, PTL DEF Spec, DecisionIsFinal

\* No request that waits is lost, by the bound of the history or by a restart.
THEOREM RequestsSurvive == ASSUME FileWorks PROVE Spec => RequestsAreKept
<1>1. IInv /\ SavedInv /\ [Next]_vars =>
        [\A i \in Ids : queue[i].status = "pending"
                        => i \in Held(queue')]_queueVars
  BY SavedStep
<1> QED
  BY <1>1, SavedInvariance, PTL DEF Spec, RequestsAreKept
===================================================================================
