------------------------------ MODULE ApprovalQueue ------------------------------
(***************************************************************************)
(* HumanApprovalQueue (agents/safety/approval.py): the one record of what  *)
(* a human has been asked and has decided, in memory and in a JSON file    *)
(* that is rewritten in full, and replaced atomically, on every change.    *)
(*                                                                         *)
(* Every operation holds the class lock, so an operation is one action.    *)
(* Request ids count up in the order of the requests; `at` is decided_at.  *)
(* Left out: the content of a request, notifications, and clear_all, which *)
(* only tests call.  Definitions whose name starts with Slip are           *)
(* deliberate mistakes, most of them of kinds the source says were once    *)
(* made; no action uses them.                                              *)
(***************************************************************************)
EXTENDS Naturals, FiniteSets

CONSTANTS
  MaxItems,      \* bound on the requests of one behaviour
  Retained,      \* _MAX_RETAINED_ITEMS
  SavesMayFail,  \* may a write of the file fail
  LoadMayFail,   \* may the file be unreadable at a start
  MaxRestarts    \* bound on crashes and restarts

ASSUME QueueAssumption ==
  /\ {MaxItems, Retained, MaxRestarts} \subseteq Nat
  /\ {SavesMayFail, LoadMayFail} \subseteq BOOLEAN

VARIABLES
  queue,     \* _items
  file,      \* the JSON file
  old,       \* _restored_decided
  fresh,     \* _decided_in_process
  issued,    \* requests made so far
  now,       \* time of the latest decision
  restarts   \* restarts so far

queueVars == <<queue, file, old, fresh, issued, now, restarts>>

-----------------------------------------------------------------------------

Ids == 1..MaxItems
Verdicts == {"approved", "denied", "deferred"}
Item == [status : Verdicts \cup {"pending", "none"}, at : Nat]
NoItem == [status |-> "none", at |-> 0]
Queues == [Ids -> Item]
Empty == [i \in Ids |-> NoItem]

Held(q) == {i \in Ids : q[i].status # "none"}
Decided(q) == {i \in Ids : q[i].status \in Verdicts}

\* What is never evicted: unanswered requests, and decisions of this process.
Live(q, here) == {i \in Held(q) : q[i].status = "pending" \/ i \in here}

SlipKeepLatest(q, here) ==
  [i \in Ids |-> IF Cardinality({j \in Held(q) : j > i}) < Retained
                 THEN q[i] ELSE NoItem]
SlipOneTooMany(q, here) ==
  LET live == Live(q, here)
      Newer(i) == {j \in Held(q) \ live : q[j].at > q[i].at}
  IN  [i \in Ids |-> IF i \in live
                        \/ Cardinality(Newer(i)) + Cardinality(live) <= Retained
                     THEN q[i] ELSE NoItem]
\* The bound of _maybe_persist: beyond it the oldest decisions of earlier
\* processes go, as many as the live items leave no slot for.
Bounded(q, here) ==
  LET live == Live(q, here)
      Newer(i) == {j \in Held(q) \ live : q[j].at > q[i].at}
  IN  IF Cardinality(Held(q)) <= Retained THEN q
      ELSE [i \in Ids |-> IF \/ i \in live
                             \/ Cardinality(Newer(i)) + Cardinality(live) < Retained
                          THEN q[i] ELSE NoItem]

SlipStaleMarks(q, here) ==
  /\ \/ queue' = Bounded(q, here) /\ file' = queue'
     \/ SavesMayFail /\ queue' \in {q, Bounded(q, here)} /\ UNCHANGED file
  /\ old' = old
  /\ fresh' = here
\* _maybe_persist, called with the items and decisions as the caller has changed
\* them.  A failure before the eviction or after it is only logged.
Persist(q, here) ==
  /\ \/ queue' = Bounded(q, here) /\ file' = queue'
     \/ SavesMayFail /\ queue' \in {q, Bounded(q, here)} /\ UNCHANGED file
  /\ old' = old \cap Held(queue')
  /\ fresh' = here \cap Held(queue')

Enqueue ==
  /\ issued < MaxItems
  /\ issued' = issued + 1
  /\ Persist([queue EXCEPT ![issued + 1] = [status |-> "pending", at |-> 0]],
             fresh)
  /\ UNCHANGED <<now, restarts>>

\* decide: only a pending item, checked under the lock
Decide(i, verdict) ==
  /\ queue[i].status = "pending"
  /\ now' = now + 1
  /\ Persist([queue EXCEPT ![i] = [status |-> verdict, at |-> now + 1]],
             fresh \cup {i})
  /\ UNCHANGED <<issued, restarts>>

SlipFindAny(i) == i \in Held(queue)
\* find_by_id refuses decisions restored from an earlier process.
Found(i) == i \in Held(queue) \ old

SlipLoadByEnqueue(items) ==
  [i \in Ids |-> IF i \in Held(items) THEN [status |-> "pending", at |-> 0]
                 ELSE NoItem]
Load(items) == items

\* The process ends, by a crash or not, and the next one loads the file; a file
\* that can not be read leaves the queue empty.
Restart ==
  /\ restarts < MaxRestarts
  /\ restarts' = restarts + 1
  /\ \/ queue' = Load(file)
     \/ LoadMayFail /\ queue' = Empty
  /\ old' = Decided(queue')
  /\ fresh' = {}
  /\ UNCHANGED <<file, issued, now>>

QueueInit ==
  /\ queue = Empty /\ file = Empty
  /\ old = {} /\ fresh = {}
  /\ issued = 0 /\ now = 0 /\ restarts = 0

QueueNext ==
  \/ Enqueue
  \/ \E i \in Ids, verdict \in Verdicts : Decide(i, verdict)
  \/ Restart

QueueSpec == QueueInit /\ [][QueueNext]_queueVars

-----------------------------------------------------------------------------
(* Properties. *)

\* The variables keep their types, and both sets of ids describe held items.
QueueTypeOK ==
  /\ queue \in Queues /\ file \in Queues
  /\ old \subseteq Held(queue) /\ fresh \subseteq Held(queue)
  /\ issued \in 0..MaxItems /\ now \in Nat /\ restarts \in 0..MaxRestarts

\* A decision is never taken back or changed, by a second click, an eviction or
\* a restart; its item can only leave the history.
DecisionIsFinal ==
  [][\A i \in Decided(queue) : queue'[i] \in {queue[i], NoItem}]_queueVars

\* A request nobody has answered is never lost, whatever the bound and however
\* often the process restarts, while the file can be written and read.
RequestsAreKept ==
  [][\A i \in Ids : queue[i].status = "pending" => i \in Held(queue')]_queueVars

\* A decision stays in the queue for as long as its process lives, however many
\* requests come after it and even if no write of the file succeeds.
FreshDecisionsStay ==
  [][restarts' = restarts => \A i \in fresh : queue'[i] = queue[i]]_queueVars

\* After a change that was saved, the queue is longer than its bound only if
\* nothing that may be evicted is left.
HistoryIsBounded ==
  [][file' # file =>
       \/ Cardinality(Held(queue')) <= Retained
       \/ Held(queue') = Live(queue', fresh')]_queueVars
==================================================================================
