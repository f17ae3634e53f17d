----------------------------- MODULE SafetyGuard -----------------------------
(***************************************************************************)
(* The human-approval layer of the safety guard (agents/safety/guard.py):  *)
(* a second record of the requests it has raised, beside the shared queue. *)
(* The layer's lock is not held while the queue is called, so a check on a *)
(* worker thread, an answer and the poll of the Safety tab on the          *)
(* interface thread, and decisions in the approval panel interleave.       *)
(***************************************************************************)
EXTENDS ApprovalQueue

CONSTANT OwnedMax   \* owned_max

ASSUME GuardAssumption == OwnedMax \in Nat

VARIABLES
  owned,      \* status of a record of _owned, "none" where there is none
  raising,    \* the request that is in the queue and not yet in _owned, or 0
  answering,  \* the answer being written: its request, or 0, and its status
  asked       \* observation: what the layer has asked in this process

guardVars == <<owned, raising, answering, asked>>
NoAnswer == [id |-> 0, status |-> "none"]
Statuses == {"pending", "approved", "rejected"}
Known(o) == {i \in Ids : o[i] # "none"}

-----------------------------------------------------------------------------

SlipPruneOldest(o) ==
  [i \in Ids |-> IF Cardinality({j \in Known(o) : j >= i}) > OwnedMax
                 THEN "none" ELSE o[i]]
\* _prune_owned_locked: beyond the bound the oldest decided records go.
Pruned(o) ==
  LET stale == {i \in Known(o) : o[i] # "pending"}
      excess == Cardinality(Known(o)) - OwnedMax
  IN  [i \in Ids |-> IF i \in stale /\ Cardinality({j \in stale : j < i}) < excess
                     THEN "none" ELSE o[i]]

\* check: the request is put in the queue ...
Raise ==
  /\ raising = 0
  /\ Enqueue
  /\ raising' = issued + 1
  /\ asked' = asked \cup {issued + 1}
  /\ UNCHANGED <<owned, answering>>

\* ... and recorded, whatever has become of it since.
Own ==
  /\ raising # 0
  /\ owned' = Pruned([owned EXCEPT ![raising] = "pending"])
  /\ raising' = 0
  /\ UNCHANGED <<queueVars, answering, asked>>

\* approve, reject: the record changes first ...
Answer(i, status) ==
  /\ answering = NoAnswer /\ owned[i] = "pending"
  /\ owned' = [owned EXCEPT ![i] = status]
  /\ answering' = [id |-> i, status |-> status]
  /\ UNCHANGED <<queueVars, raising, asked>>

SlipKeepAnswer(i) == owned
\* A record goes back to pending when the queue does not take the decision.
RolledBack(i) == IF owned[i] = answering.status
                 THEN [owned EXCEPT ![i] = "pending"] ELSE owned

\* ... and then the queue, if it still waits for an answer.
RecordAnswer ==
  LET i == answering.id
  IN  /\ i # 0
      /\ \/ /\ Found(i)
            /\ Decide(i, IF answering.status = "approved" THEN "approved" ELSE "denied")
            /\ UNCHANGED owned
         \/ /\ ~(Found(i) /\ queue[i].status = "pending")
            /\ owned' = RolledBack(i)
            /\ UNCHANGED queueVars
      /\ answering' = NoAnswer
      /\ UNCHANGED <<raising, asked>>

\* get_pending mirrors what was decided elsewhere.
Poll ==
  /\ owned' = Pruned([i \in Ids |->
                IF owned[i] = "pending" /\ i \in Decided(queue)
                THEN IF queue[i].status = "approved" THEN "approved" ELSE "rejected"
                ELSE owned[i]])
  /\ UNCHANGED <<queueVars, raising, answering, asked>>

GuardInit ==
  /\ owned = [i \in Ids |-> "none"] /\ raising = 0 /\ answering = NoAnswer
  /\ asked = {}

GuardNext ==
  \/ Raise \/ Own \/ RecordAnswer \/ Poll
  \/ \E i \in Ids, status \in {"approved", "rejected"} : Answer(i, status)

\* The records live as long as the process.
GuardForgets ==
  /\ owned' = [i \in Ids |-> "none"] /\ raising' = 0 /\ answering' = NoAnswer
  /\ asked' = {}

-----------------------------------------------------------------------------
(* Properties. *)

GuardTypeOK ==
  /\ owned \in [Ids -> Statuses \cup {"none"}]
  /\ raising \in Ids \cup {0}
  /\ answering \in [id : Ids, status : {"approved", "rejected"}] \cup {NoAnswer}
  /\ asked \in SUBSET Ids

\* A request of the guard that waits in the queue is on the guard's own list of
\* what waits too, or is being put there or answered right now: neither pruning,
\* nor the poll, nor an answer that is taken back drops it.
UnansweredIsListed ==
  \A i \in asked : queue[i].status = "pending" =>
    owned[i] = "pending" \/ i \in {raising, answering.id}

\* What the guard calls approved, a human has approved in the queue: not when
\* another surface was faster, and not when a decision is kept from elsewhere.
GuardApprovalIsReal ==
  \A i \in Ids : owned[i] = "approved" /\ i # answering.id =>
    queue[i].status = "approved"
=============================================================================
