------------------------------ MODULE PatchProofs ------------------------------
(***************************************************************************)
(* Proofs about CodePatches and the SafetyGuard beside it, for any number  *)
(* of requests, any bounds and any failure of the file.                    *)
(*                                                                         *)
(* GuardInv is about the two records of a request.  What the guard has     *)
(* asked in this process is pending in the queue or freshly decided, so    *)
(* the bound of the queue never drops it; and the record of the guard may  *)
(* differ from the queue only for the request it is raising and the one    *)
(* whose answer it is writing.                                             *)
(*                                                                         *)
(* WhereInv, OnceInv and GrantInv are about the lists of approved patches: *)
(* whichever handler runs, a patch is on one of them at most, once, and    *)
(* none waits for an answer.                                               *)
(***************************************************************************)
EXTENDS CodePatches, QueueProofs, TLAPS

AskedInv ==
  /\ asked \subseteq 1 .. issued
  /\ \A i \in asked : queue[i].status = "pending" \/ i \in fresh

RecordsInv ==
  /\ \A i \in Ids : owned[i] # "none" => i \in asked
  /\ raising # 0 => raising \in asked /\ owned[raising] = "none"
  /\ answering.id # 0 => /\ answering.id \in asked /\ answering.id # raising
                         /\ owned[answering.id] \in {answering.status, "none"}

OldInv == old \subseteq Decided(queue)

GuardInv ==
  /\ AskedInv /\ RecordsInv /\ OldInv /\ UnansweredIsListed /\ GuardApprovalIsReal

QueueInv == QueueTypeOK /\ MarksInv

-----------------------------------------------------------------------------
(* The guard. *)

\* A decided item is not pending, and an empty one is neither.
LEMMA ItemFacts ==
  /\ \A i \in Decided(queue) : i \in Ids /\ queue[i].status # "pending"
                               /\ queue[i].status # "none" /\ queue[i].status \in Verdicts
  /\ \A i \in Held(queue) : i \in Ids
  /\ NoItem.status = "none"
  BY DEF Decided, Held, Verdicts, NoItem

\* What a request, of the guard or not, leaves of the guard's.
LEMMA EnqueueAsked ==
  ASSUME QueueInv, AskedInv, OldInv, Enqueue
  PROVE  /\ issued + 1 \in Ids /\ issued' = issued + 1 /\ issued + 1 \notin asked
         /\ queue'[issued + 1].status = "pending"
         /\ \A i \in asked : /\ i \in Ids /\ queue'[i] = queue[i] /\ i \in 1 .. issued'
                             /\ i \in fresh => i \in fresh'
         /\ OldInv' /\ QueueInv'
<1> DEFINE n == issued + 1
<1>1. /\ n \in Ids /\ issued' = n /\ issued \in Nat
      /\ \A i \in Ids \ {n} : queue'[i] \in {queue[i], NoItem}
      /\ \A i \in Ids \ {n} :
           queue[i].status = "pending" \/ i \in fresh => queue'[i] = queue[i]
      /\ queue'[n].status = "pending"
      /\ old' = old \cap Held(queue') /\ fresh' = fresh \cap Held(queue')
  BY EnqueueKeeps DEF QueueInv, QueueTypeOK
<1>2. QueueInv'
  BY EnqueueMarks DEF QueueInv
<1>3. n \notin asked
  BY <1>1 DEF AskedInv
<1>4. ASSUME NEW i \in asked
      PROVE  /\ i \in Ids /\ queue'[i] = queue[i] /\ i \in 1 .. issued'
             /\ i \in fresh => i \in fresh'
  <2>1. i \in 1 .. issued /\ i \in 1 .. issued' /\ i \in Ids /\ i # n
    BY <1>1, <1>3, QueueAssumption DEF AskedInv, Ids
  <2>2. queue'[i] = queue[i]
    BY <1>1, <2>1 DEF AskedInv
  <2>3. i \in fresh => i \in Held(queue')
    BY <2>1, <2>2, ItemFacts DEF QueueInv, MarksInv, Held
  <2> QED
    BY <1>1, <2>1, <2>2, <2>3
<1>5. OldInv'
  <2>1. ASSUME NEW i \in old' PROVE i \in Decided(queue')
    <3>1. i \in Decided(queue) /\ i \in Held(queue') /\ i \in Held(queue)
      BY <1>1, <2>1 DEF OldInv, QueueInv, QueueTypeOK
    <3>2. i # n /\ i \in Ids
      BY <1>1, <3>1, ItemFacts DEF QueueInv, MarksInv
    <3>3. queue'[i] = queue[i]
      BY <1>1, <3>1, <3>2, ItemFacts DEF Held
    <3> QED
      BY <3>1, <3>2, <3>3 DEF Decided
  <2> QED
    BY <2>1 DEF OldInv
<1> QED
  BY <1>1, <1>2, <1>3, <1>4, <1>5

\* What a decision leaves.
LEMMA DecideAsked ==
  ASSUME QueueInv, AskedInv, OldInv,
         NEW d \in Ids, NEW verdict \in Verdicts, Decide(d, verdict)
  PROVE  /\ issued' = issued /\ queue[d].status = "pending"
         /\ queue'[d].status = verdict /\ verdict # "pending" /\ d \in fresh'
         /\ \A i \in asked \ {d} : /\ i \in Ids /\ queue'[i] = queue[i]
                                   /\ i \in fresh => i \in fresh'
         /\ OldInv' /\ QueueInv'
<1>1. /\ queue[d].status = "pending" /\ issued' = issued /\ issued \in 0 .. MaxItems
      /\ \A i \in Ids \ {d} : queue'[i] \in {queue[i], NoItem}
      /\ \A i \in Ids \ {d} :
           queue[i].status = "pending" \/ i \in fresh => queue'[i] = queue[i]
      /\ queue'[d].status = verdict
      /\ old' = old \cap Held(queue')
      /\ fresh' = (fresh \cup {d}) \cap Held(queue')
  BY DecideKeeps DEF QueueInv, QueueTypeOK
<1>2. QueueInv'
  BY DecideMarks DEF QueueInv
<1>3. verdict # "pending" /\ verdict # "none"
  BY DEF Verdicts
<1>4. d \in fresh'
  BY <1>1, <1>3 DEF Held
<1>5. ASSUME NEW i \in asked \ {d}
      PROVE  i \in Ids /\ queue'[i] = queue[i] /\ (i \in fresh => i \in fresh')
  <2>1. i \in Ids
    BY <1>1, QueueAssumption DEF AskedInv, Ids
  <2>2. queue'[i] = queue[i]
    BY <1>1, <2>1 DEF AskedInv
  <2>3. i \in fresh => i \in Held(queue')
    BY <2>1, <2>2, ItemFacts DEF QueueInv, MarksInv, Held
  <2> QED
    BY <1>1, <2>1, <2>2, <2>3
<1>6. OldInv'
  <2>1. ASSUME NEW i \in old' PROVE i \in Decided(queue')
    <3>1. i \in Decided(queue) /\ i \in Held(queue') /\ i # d /\ i \in Ids
      BY <1>1, <2>1, ItemFacts DEF OldInv
    <3>2. queue'[i] = queue[i]
      BY <1>1, <3>1, ItemFacts DEF Held
    <3> QED
      BY <3>1, <3>2 DEF Decided
  <2> QED
    BY <2>1 DEF OldInv
<1> QED
  BY <1>1, <1>2, <1>3, <1>4, <1>5, <1>6

\* Pruning drops records, and none that waits.
LEMMA PrunedKeeps ==
  ASSUME NEW o \in [Ids -> Statuses \cup {"none"}]
  PROVE  /\ Pruned(o) \in [Ids -> Statuses \cup {"none"}]
         /\ \A i \in Ids : /\ Pruned(o)[i] \in {o[i], "none"}
                           /\ o[i] = "pending" => Pruned(o)[i] = "pending"
<1> DEFINE stale == {i \in Known(o) : o[i] # "pending"}
           goes(i) == /\ i \in stale
                      /\ Cardinality({j \in stale : j < i})
                           < Cardinality(Known(o)) - OwnedMax
<1>1. Pruned(o) = [i \in Ids |-> IF goes(i) THEN "none" ELSE o[i]]
  BY DEF Pruned
<1>2. \A i : goes(i) => o[i] # "pending"
  OBVIOUS
<1> HIDE DEF goes
<1> QED
  BY <1>1, <1>2 DEF Statuses

GInv == QueueInv /\ GuardTypeOK /\ GuardInv

LEMMA NotAnId == 0 \notin Ids
  BY DEF Ids

\* A request that the guard has no part in.
LEMMA EnqueueStep ==
  ASSUME GInv, Enqueue, UNCHANGED guardVars
  PROVE  GInv'
<1> USE DEF guardVars
<1>1. /\ issued' = issued + 1 /\ issued + 1 \notin asked
      /\ \A i \in asked : /\ i \in Ids /\ queue'[i] = queue[i] /\ i \in 1 .. issued'
                          /\ i \in fresh => i \in fresh'
      /\ OldInv' /\ QueueInv'
  BY EnqueueAsked DEF GInv, GuardInv
<1>2. AskedInv'
  BY <1>1 DEF AskedInv, GInv, GuardInv
<1>3. RecordsInv'
  BY DEF RecordsInv, GInv, GuardInv
<1>4. UnansweredIsListed'
  BY <1>1 DEF UnansweredIsListed, GInv, GuardInv
<1>5. GuardApprovalIsReal'
  BY <1>1 DEF GuardApprovalIsReal, RecordsInv, GInv, GuardInv
<1> QED
  BY <1>1, <1>2, <1>3, <1>4, <1>5 DEF GInv, GuardInv, GuardTypeOK

\* One of the guard: it is raised before it is recorded.
LEMMA RaiseStep ==
  ASSUME GInv, Raise
  PROVE  GInv'
<1> DEFINE n == issued + 1
<1>1. /\ issued' = n /\ n \notin asked /\ n \in Ids /\ issued \in Nat
      /\ queue'[n].status = "pending"
      /\ \A i \in asked : /\ i \in Ids /\ queue'[i] = queue[i] /\ i \in 1 .. issued'
                          /\ i \in fresh => i \in fresh'
      /\ OldInv' /\ QueueInv'
  BY EnqueueAsked DEF GInv, GuardInv, Raise, QueueInv, QueueTypeOK
<1>2. /\ raising = 0 /\ raising' = n /\ asked' = asked \cup {n}
      /\ owned' = owned /\ answering' = answering
  BY DEF Raise
<1>3. AskedInv'
  <2>1. asked' \subseteq 1 .. issued'
    <3>1. n \in 1 .. n
      BY <1>1
    <3> QED
      BY <1>1, <1>2, <3>1
  <2>2. \A i \in asked : queue'[i].status = "pending" \/ i \in fresh'
    BY <1>1 DEF AskedInv, GInv, GuardInv
  <2> QED
    BY <1>1, <1>2, <2>1, <2>2 DEF AskedInv
<1>4. RecordsInv'
  BY <1>1, <1>2 DEF RecordsInv, GInv, GuardInv
<1>5. UnansweredIsListed'
  BY <1>1, <1>2 DEF UnansweredIsListed, GInv, GuardInv
<1>6. GuardApprovalIsReal'
  BY <1>1, <1>2 DEF GuardApprovalIsReal, RecordsInv, GInv, GuardInv
<1>7. GuardTypeOK'
  <2>1. asked' \in SUBSET Ids
    BY <1>1, <1>2 DEF GuardTypeOK, GInv
  <2> QED
    BY <1>1, <1>2, <2>1 DEF GuardTypeOK, GInv
<1> QED
  BY <1>1, <1>3, <1>4, <1>5, <1>6, <1>7 DEF GInv, GuardInv

\* Any decision that is not the guard's.
LEMMA DecideStep ==
  ASSUME GInv, NEW d \in Ids, NEW verdict \in Verdicts, Decide(d, verdict),
         UNCHANGED guardVars
  PROVE  GInv'
<1> USE DEF guardVars
<1>1. /\ issued' = issued /\ queue[d].status = "pending"
      /\ queue'[d].status = verdict /\ verdict # "pending" /\ d \in fresh'
      /\ \A i \in asked \ {d} : /\ i \in Ids /\ queue'[i] = queue[i]
                                /\ i \in fresh => i \in fresh'
      /\ OldInv' /\ QueueInv'
  BY DecideAsked DEF GInv, GuardInv
<1>2. AskedInv'
  BY <1>1 DEF AskedInv, GInv, GuardInv
<1>3. RecordsInv'
  BY DEF RecordsInv, GInv, GuardInv
<1>4. UnansweredIsListed'
  BY <1>1 DEF UnansweredIsListed, GInv, GuardInv
<1>5. GuardApprovalIsReal'
  <2> SUFFICES ASSUME NEW i \in Ids, owned[i] = "approved", i # answering.id
               PROVE  queue'[i].status = "approved"
    BY DEF GuardApprovalIsReal
  <2>1. i \in asked /\ queue[i].status = "approved"
    BY DEF GuardApprovalIsReal, RecordsInv, GInv, GuardInv
  <2> QED
    BY <1>1, <2>1
<1> QED
  BY <1>1, <1>2, <1>3, <1>4, <1>5 DEF GInv, GuardInv, GuardTypeOK

\* Where only the guard's records change.
LEMMA RecordsStep ==
  ASSUME GInv, UNCHANGED <<queueVars, asked>>,
         GuardTypeOK', RecordsInv', UnansweredIsListed', GuardApprovalIsReal'
  PROVE  GInv'
<1>1. QueueInv' /\ AskedInv' /\ OldInv'
  BY DEF queueVars, GInv, GuardInv, QueueInv, QueueTypeOK, MarksInv, AskedInv, OldInv,
         Held, Decided
<1> QED
  BY <1>1 DEF GInv, GuardInv

\* The new record stays through the pruning that follows.
LEMMA OwnStep ==
  ASSUME GInv, Own
  PROVE  GInv'
<1> DEFINE o == [owned EXCEPT ![raising] = "pending"]
<1>1. /\ raising \in Ids /\ raising \in asked /\ raising # answering.id
      /\ owned \in [Ids -> Statuses \cup {"none"}]
  BY DEF Own, GInv, GuardInv, GuardTypeOK, RecordsInv
<1>2. /\ o \in [Ids -> Statuses \cup {"none"}] /\ o[raising] = "pending"
      /\ \A i \in Ids \ {raising} : o[i] = owned[i]
  BY <1>1 DEF Statuses
<1>3. owned' = Pruned(o) /\ raising' = 0
      /\ queue' = queue /\ answering' = answering /\ asked' = asked
      /\ UNCHANGED queueVars
  BY DEF Own, queueVars
<1> HIDE DEF o
<1>4. /\ owned' \in [Ids -> Statuses \cup {"none"}]
      /\ \A i \in Ids : /\ owned'[i] \in {o[i], "none"}
                        /\ o[i] = "pending" => owned'[i] = "pending"
  BY <1>2, <1>3, PrunedKeeps
<1>5. GuardTypeOK'
  BY <1>3, <1>4 DEF GuardTypeOK, GInv
<1>6. RecordsInv'
  <2>1. \A i \in Ids : owned'[i] # "none" => i \in asked'
    BY <1>1, <1>2, <1>3, <1>4 DEF GInv, GuardInv, RecordsInv
  <2>2. answering.id # 0 => answering.id \in Ids
    BY DEF GInv, GuardTypeOK, NoAnswer
  <2>3. answering.id # 0 => owned'[answering.id] \in {answering.status, "none"}
    BY <1>1, <1>2, <1>4, <2>2 DEF GInv, GuardInv, RecordsInv
  <2> QED
    BY <1>3, <2>1, <2>2, <2>3 DEF GInv, GuardInv, RecordsInv
<1>7. UnansweredIsListed'
  <2>1. asked \subseteq Ids
    BY DEF GInv, GuardTypeOK
  <2> QED
    BY <1>1, <1>2, <1>3, <1>4, <2>1 DEF GInv, GuardInv, UnansweredIsListed
<1>8. GuardApprovalIsReal'
  BY <1>1, <1>2, <1>3, <1>4 DEF GInv, GuardInv, GuardApprovalIsReal
<1> QED
  BY <1>3, <1>5, <1>6, <1>7, <1>8, RecordsStep

\* An answer that the queue has not got is marked as such.
LEMMA AnswerStep ==
  ASSUME GInv, NEW i \in Ids, NEW status \in {"approved", "rejected"}, Answer(i, status)
  PROVE  GInv'
<1>1. /\ owned[i] = "pending" /\ answering = NoAnswer
      /\ owned \in [Ids -> Statuses \cup {"none"}] /\ i # 0
      /\ i \in asked /\ asked \subseteq Ids
  BY NotAnId DEF Answer, GInv, GuardInv, GuardTypeOK, RecordsInv
<1>2. /\ owned' = [owned EXCEPT ![i] = status]
      /\ answering' = [id |-> i, status |-> status]
      /\ UNCHANGED <<queueVars, raising, asked>> /\ queue' = queue
  BY DEF Answer, queueVars
<1>3. answering'.id = i /\ answering'.status = status /\ answering.id = 0
  BY <1>1, <1>2 DEF NoAnswer
<1>4. /\ owned' \in [Ids -> Statuses \cup {"none"}] /\ owned'[i] = status
      /\ \A j \in Ids \ {i} : owned'[j] = owned[j]
  BY <1>1, <1>2 DEF Statuses
<1>5. GuardTypeOK'
  <2>1. answering' \in [id : Ids, status : {"approved", "rejected"}]
    BY <1>2
  <2> QED
    BY <1>2, <1>4, <2>1 DEF GuardTypeOK, GInv
<1>6. RecordsInv'
  BY <1>1, <1>2, <1>3, <1>4 DEF GInv, GuardInv, RecordsInv
<1>7. UnansweredIsListed'
  <2> SUFFICES ASSUME NEW j \in asked, queue[j].status = "pending"
               PROVE  owned'[j] = "pending" \/ j \in {raising', answering'.id}
    BY <1>2 DEF UnansweredIsListed
  <2>1. owned[j] = "pending" \/ j \in {raising, answering.id}
    BY DEF GInv, GuardInv, UnansweredIsListed
  <2>2. j \in Ids /\ j # answering.id
    BY <1>1, <1>3, NotAnId
  <2> QED
    BY <1>2, <1>3, <1>4, <2>1, <2>2
<1>8. GuardApprovalIsReal'
  BY <1>1, <1>2, <1>3, <1>4, NotAnId DEF GInv, GuardInv, GuardApprovalIsReal
<1> QED
  BY <1>2, <1>5, <1>6, <1>7, <1>8, RecordsStep

\* The queue takes the answer, or the record goes back to pending.
LEMMA RecordAnswerStep ==
  ASSUME GInv, RecordAnswer
  PROVE  GInv'
<1> DEFINE i == answering.id
<1>1. /\ i \in Ids /\ i \in asked /\ i # raising /\ i # 0
      /\ answering.status \in {"approved", "rejected"}
      /\ owned[i] \in {answering.status, "none"}
      /\ owned \in [Ids -> Statuses \cup {"none"}] /\ asked \subseteq Ids
  BY DEF RecordAnswer, GInv, GuardInv, GuardTypeOK, RecordsInv, NoAnswer
<1>2. /\ answering' = NoAnswer /\ raising' = raising /\ asked' = asked
      /\ answering'.id = 0
  BY DEF RecordAnswer, NoAnswer
<1>3. ASSUME Decide(i, IF answering.status = "approved" THEN "approved" ELSE "denied"),
             UNCHANGED owned
      PROVE  GInv'
  <2>1. PICK verdict \in Verdicts :
          verdict = IF answering.status = "approved" THEN "approved" ELSE "denied"
    BY DEF Verdicts
  <2>2. /\ issued' = issued /\ queue[i].status = "pending"
        /\ queue'[i].status = verdict /\ verdict # "pending" /\ i \in fresh'
        /\ \A j \in asked \ {i} : /\ j \in Ids /\ queue'[j] = queue[j]
                                  /\ j \in fresh => j \in fresh'
        /\ OldInv' /\ QueueInv'
    BY <1>1, <1>3, <2>1, DecideAsked DEF GInv, GuardInv
  <2>3. AskedInv'
    BY <1>2, <2>2 DEF AskedInv, GInv, GuardInv
  <2>4. RecordsInv'
    BY <1>2, <1>3 DEF RecordsInv, GInv, GuardInv
  <2>5. UnansweredIsListed'
    BY <1>2, <1>3, <2>2 DEF UnansweredIsListed, GInv, GuardInv
  <2>6. GuardApprovalIsReal'
    <3> SUFFICES ASSUME NEW j \in Ids, owned[j] = "approved"
                 PROVE  queue'[j].status = "approved"
      BY <1>3 DEF GuardApprovalIsReal
    <3>1. CASE j = i
      BY <1>1, <2>1, <2>2, <3>1
    <3>2. CASE j # i
      BY <2>2, <3>2 DEF GuardApprovalIsReal, RecordsInv, GInv, GuardInv
    <3> QED
      BY <3>1, <3>2
  <2>7. GuardTypeOK'
    BY <1>2, <1>3 DEF GuardTypeOK, GInv
  <2> QED
    BY <2>2, <2>3, <2>4, <2>5, <2>6, <2>7 DEF GInv, GuardInv
<1>4. ASSUME ~(Found(i) /\ queue[i].status = "pending"), owned' = RolledBack(i),
             UNCHANGED queueVars
      PROVE  GInv'
  <2>1. queue[i].status # "pending"
    BY <1>1, <1>4, ItemFacts DEF Found, Held, OldInv, GInv, GuardInv
  <2>2. queue' = queue
    BY <1>4 DEF queueVars
  <2>3. /\ owned' \in [Ids -> Statuses \cup {"none"}] /\ owned'[i] \in {"pending", "none"}
        /\ owned[i] = "none" => owned'[i] = "none"
        /\ \A j \in Ids \ {i} : owned'[j] = owned[j]
    BY <1>1, <1>4 DEF RolledBack, Statuses
  <2>4. GuardTypeOK'
    BY <1>2, <2>3 DEF GuardTypeOK, GInv
  <2>5. RecordsInv'
    BY <1>1, <1>2, <2>3 DEF RecordsInv, GInv, GuardInv, GuardTypeOK
  <2>6. UnansweredIsListed'
    BY <1>1, <1>2, <2>1, <2>2, <2>3 DEF UnansweredIsListed, GInv, GuardInv
  <2>7. GuardApprovalIsReal'
    BY <1>1, <1>2, <2>2, <2>3 DEF GuardApprovalIsReal, GInv, GuardInv
  <2> QED
    BY <1>2, <1>4, <2>4, <2>5, <2>6, <2>7, RecordsStep
<1> QED
  BY <1>3, <1>4 DEF RecordAnswer

\* What was decided elsewhere is mirrored as it was decided.
LEMMA PollStep ==
  ASSUME GInv, Poll
  PROVE  GInv'
<1> DEFINE o == [i \in Ids |->
                  IF owned[i] = "pending" /\ i \in Decided(queue)
                  THEN IF queue[i].status = "approved" THEN "approved" ELSE "rejected"
                  ELSE owned[i]]
<1>1. owned \in [Ids -> Statuses \cup {"none"}] /\ asked \subseteq Ids
  BY DEF GInv, GuardTypeOK
<1>2. /\ o \in [Ids -> Statuses \cup {"none"}]
      /\ \A i \in Ids : /\ owned[i] # "pending" => o[i] = owned[i]
                        /\ i \notin Decided(queue) => o[i] = owned[i]
                        /\ o[i] = "approved" => owned[i] = "approved"
                                                \/ queue[i].status = "approved"
  BY <1>1 DEF Statuses
<1>3. owned' = Pruned(o) /\ queue' = queue
      /\ UNCHANGED <<queueVars, raising, answering, asked>>
  BY DEF Poll, queueVars
<1> HIDE DEF o
<1>4. /\ owned' \in [Ids -> Statuses \cup {"none"}]
      /\ \A i \in Ids : /\ owned'[i] \in {o[i], "none"}
                        /\ o[i] = "pending" => owned'[i] = "pending"
  BY <1>2, <1>3, PrunedKeeps
<1>5. GuardTypeOK'
  BY <1>3, <1>4 DEF GuardTypeOK, GInv
<1>6. RecordsInv'
  <2>1. \A i \in Ids : owned[i] = "none" => owned'[i] = "none"
    BY <1>2, <1>4
  <2>2. answering.id # 0 => answering.id \in Ids
                            /\ answering.status \in {"approved", "rejected"}
    BY DEF GInv, GuardTypeOK, NoAnswer
  <2>3. answering.id # 0 => owned'[answering.id] \in {answering.status, "none"}
    BY <1>2, <1>4, <2>2 DEF GInv, GuardInv, RecordsInv
  <2>4. raising # 0 => raising \in Ids
    BY DEF GInv, GuardTypeOK
  <2> QED
    BY <1>3, <2>1, <2>3, <2>4 DEF GInv, GuardInv, RecordsInv
<1>7. UnansweredIsListed'
  BY <1>1, <1>2, <1>3, <1>4, ItemFacts DEF GInv, GuardInv, UnansweredIsListed
<1>8. GuardApprovalIsReal'
  BY <1>2, <1>3, <1>4 DEF GInv, GuardInv, GuardApprovalIsReal
<1> QED
  BY <1>3, <1>5, <1>6, <1>7, <1>8, RecordsStep

\* A new process has asked nothing yet.
LEMMA RestartStep ==
  ASSUME GInv, Restart, GuardForgets
  PROVE  GInv'
<1>1. QueueInv' /\ old' = Decided(queue')
  BY RestartMarks DEF QueueInv, GInv, Restart
<1>2. /\ owned' = [i \in Ids |-> "none"] /\ raising' = 0 /\ answering' = NoAnswer
      /\ asked' = {}
  BY DEF GuardForgets
<1>3. GuardTypeOK'
  BY <1>2 DEF GuardTypeOK
<1>4. AskedInv' /\ OldInv' /\ UnansweredIsListed' /\ GuardApprovalIsReal'
  BY <1>1, <1>2 DEF AskedInv, OldInv, UnansweredIsListed, GuardApprovalIsReal
<1>5. RecordsInv'
  BY <1>2 DEF RecordsInv, NoAnswer
<1> QED
  BY <1>1, <1>3, <1>4, <1>5 DEF GInv, GuardInv

-----------------------------------------------------------------------------
(* Lists without repetition. *)

Once(s) == \A j, k \in 1 .. Len(s) : s[j] = s[k] => j = k

LEMMA NoElements == Elements(<<>>) = {} /\ Once(<<>>) /\ <<>> \in Seq(Ids)
  BY DEF Elements, Once

LEMMA OneElement ==
  ASSUME NEW i \in Ids
  PROVE  Elements(<<i>>) = {i} /\ Once(<<i>>) /\ <<i>> \in Seq(Ids) /\ <<i>> # <<>>
         /\ Head(<<i>>) = i /\ Tail(<<i>>) = <<>>
  BY DEF Elements, Once

\* A list is its head and its tail, which are disjoint when nothing repeats.
LEMMA HeadAndTail ==
  ASSUME NEW s \in Seq(Ids), s # <<>>
  PROVE  /\ Head(s) \in Ids /\ Tail(s) \in Seq(Ids)
         /\ Elements(s) = {Head(s)} \cup Elements(Tail(s))
         /\ Once(s) => Once(Tail(s)) /\ Head(s) \notin Elements(Tail(s))
<1>1. /\ Len(s) \in Nat /\ Len(s) >= 1 /\ Head(s) = s[1] /\ Head(s) \in Ids
      /\ Tail(s) \in Seq(Ids) /\ Len(Tail(s)) = Len(s) - 1
      /\ \A k \in 1 .. Len(Tail(s)) : Tail(s)[k] = s[k + 1]
  OBVIOUS
<1>2. \A k \in 1 .. Len(s) : s[k] \in {Head(s)} \cup Elements(Tail(s))
  <2> SUFFICES ASSUME NEW k \in 1 .. Len(s), k # 1
               PROVE  s[k] \in Elements(Tail(s))
    BY <1>1
  <2>1. k - 1 \in 1 .. Len(Tail(s)) /\ (k - 1) + 1 = k
    BY <1>1
  <2>2. Tail(s)[k - 1] = s[k]
    BY <1>1, <2>1
  <2> QED
    BY <2>1, <2>2 DEF Elements
<1>3. Elements(Tail(s)) \subseteq Elements(s) /\ Head(s) \in Elements(s)
  <2>1. \A k \in 1 .. Len(Tail(s)) : k + 1 \in 1 .. Len(s)
    BY <1>1
  <2>2. 1 \in 1 .. Len(s)
    BY <1>1
  <2> QED
    BY <1>1, <2>1, <2>2 DEF Elements
<1>4. ASSUME Once(s) PROVE Once(Tail(s)) /\ Head(s) \notin Elements(Tail(s))
  <2>1. \A k \in 1 .. Len(Tail(s)) : k + 1 \in 1 .. Len(s) /\ k + 1 # 1
    BY <1>1
  <2>2. 1 \in 1 .. Len(s)
    BY <1>1
  <2>3. Once(Tail(s))
    BY <1>1, <1>4, <2>1 DEF Once
  <2>4. Head(s) \notin Elements(Tail(s))
    BY <1>1, <1>4, <2>1, <2>2 DEF Once, Elements
  <2> QED
    BY <2>3, <2>4
<1> QED
  BY <1>1, <1>2, <1>3, <1>4 DEF Elements

LEMMA AppendElements ==
  ASSUME NEW s \in Seq(Ids), NEW i \in Ids
  PROVE  /\ Append(s, i) \in Seq(Ids) /\ Append(s, i) # <<>>
         /\ Elements(Append(s, i)) = Elements(s) \cup {i}
         /\ Once(s) /\ i \notin Elements(s) => Once(Append(s, i))
<1> DEFINE t == Append(s, i)
<1>1. /\ Len(s) \in Nat /\ t \in Seq(Ids) /\ Len(t) = Len(s) + 1 /\ t # <<>>
      /\ t[Len(s) + 1] = i /\ \A k \in 1 .. Len(s) : t[k] = s[k]
  OBVIOUS
<1> HIDE DEF t
<1>2. \A k \in 1 .. Len(t) : k \in 1 .. Len(s) \/ k = Len(s) + 1
  BY <1>1
<1>3. \A k \in 1 .. Len(s) : k \in 1 .. Len(t)
  BY <1>1
<1>4. Len(s) + 1 \in 1 .. Len(t)
  BY <1>1
<1>5. Elements(t) = Elements(s) \cup {i}
  BY <1>1, <1>2, <1>3, <1>4 DEF Elements
<1>6. ASSUME Once(s), i \notin Elements(s) PROVE Once(t)
  BY <1>1, <1>2, <1>6 DEF Once, Elements
<1> QED
  BY <1>1, <1>5, <1>6 DEF t

LEMMA ElementsAreIds ==
  ASSUME NEW s \in Seq(Ids)
  PROVE  Elements(s) \subseteq Ids
  BY DEF Elements

-----------------------------------------------------------------------------
(* The lists of the patch service. *)

Handlers == {"idle", "approve", "drain", "tick", "check"}
Busy == {"approve", "drain", "tick"}

PatchTypes ==
  /\ content \in Contents /\ patch \in [Ids -> Texts \cup {NoText}]
  /\ ledger \in [Ids -> [status : {"none", "verified", "regressed"},
                         backup : Contents \cup {NoRecord.backup}]]
  /\ inUse \in BOOLEAN
  /\ waiting \in Seq(Ids) /\ todo \in Seq(Ids) /\ still \in Seq(Ids)
  /\ handler \in Handlers

\* What the running handler has in its hands.
WhereInv ==
  /\ handler = "idle" => todo = <<>>
  /\ handler \in {"idle", "approve", "check"} => still = <<>>
  /\ handler = "approve" => Tail(todo) = <<>>
  /\ handler \in Busy => todo # <<>>
  /\ handler \in {"drain", "tick"} => waiting = <<>>

\* A patch is on one list at most, and once.
OnceInv ==
  /\ Once(waiting) /\ Once(still)
  /\ handler # "check" => /\ Once(todo)
                          /\ Elements(todo) \cap Elements(waiting) = {}
                          /\ Elements(todo) \cap Elements(still) = {}

\* What is on a list is a patch whose request has been answered.
GrantInv ==
  /\ \A i \in Granted : /\ i \in Ids /\ patch[i] # NoText /\ i \in 1 .. issued
                        /\ queue[i].status # "pending"
  /\ \A i \in Ids : i > issued => patch[i] = NoText

ListTypes == waiting \in Seq(Ids) /\ todo \in Seq(Ids) /\ still \in Seq(Ids)
             /\ handler \in Handlers
Lists == ListTypes /\ WhereInv /\ OnceInv

\* What is left to do, put aside or waiting is on a list afterwards.
LEMMA ContinueLists ==
  ASSUME Lists, handler \in Busy,
         NEW rest \in Seq(Ids), NEW nowStill \in Seq(Ids), Continue(rest, nowStill),
         Once(rest), Once(nowStill), Elements(rest) \cap Elements(nowStill) = {},
         handler = "approve" => rest = <<>> /\ nowStill = <<>>
  PROVE  /\ Lists'
         /\ Granted' = Elements(waiting) \cup Elements(rest) \cup Elements(nowStill)
<1> USE DEF Lists, ListTypes, Handlers, Busy
<1>1. CASE handler = "approve" /\ waiting = <<>>
  <2>1. /\ todo' = <<>> /\ handler' = "idle" /\ waiting' = <<>> /\ still' = <<>>
        /\ rest = <<>> /\ nowStill = <<>>
    BY <1>1 DEF Continue, WaitingAfter
  <2>2. Lists'
    BY <2>1, NoElements DEF WhereInv, OnceInv
  <2>3. Granted' = {}
    BY <2>1, NoElements DEF Granted
  <2> QED
    BY <1>1, <2>1, <2>2, <2>3, NoElements
<1>2. CASE handler = "approve" /\ waiting # <<>>
  <2>1. /\ todo' = waiting /\ handler' = "drain" /\ waiting' = <<>> /\ still' = <<>>
        /\ rest = <<>> /\ nowStill = <<>>
    BY <1>2 DEF Continue, WaitingAfter
  <2>2. Lists'
    BY <1>2, <2>1, NoElements DEF WhereInv, OnceInv
  <2>3. Granted' = Elements(waiting)
    BY <2>1, NoElements DEF Granted
  <2> QED
    BY <2>1, <2>2, <2>3, NoElements
<1>3. CASE handler \in {"drain", "tick"} /\ rest = <<>>
  <2>1. /\ todo' = <<>> /\ handler' \in {"idle", "check"} /\ waiting' = nowStill
        /\ still' = <<>> /\ waiting = <<>>
    BY <1>3 DEF Continue, WaitingAfter, WhereInv
  <2>2. Lists'
    BY <2>1, NoElements DEF WhereInv, OnceInv
  <2>3. Granted' = Elements(nowStill)
    BY <2>1, NoElements DEF Granted
  <2> QED
    BY <1>3, <2>1, <2>2, <2>3, NoElements
<1>4. CASE handler \in {"drain", "tick"} /\ rest # <<>>
  <2>1. /\ todo' = rest /\ handler' = handler /\ waiting' = waiting
        /\ still' = nowStill /\ waiting = <<>>
    BY <1>4 DEF Continue, WaitingAfter, WhereInv
  <2>2. Lists'
    BY <1>4, <2>1, NoElements DEF WhereInv, OnceInv
  <2>3. Granted' = Elements(rest) \cup Elements(nowStill)
    BY <1>4, <2>1, NoElements DEF Granted
  <2> QED
    BY <2>1, <2>2, <2>3, NoElements
<1> QED
  BY <1>1, <1>2, <1>3, <1>4

\* The step of a handler takes its patch off the lists when it is tried, and puts
\* it back on one when the file is in use.
LEMMA ApplyLists ==
  ASSUME Lists, ApplyNext
  PROVE  /\ Lists' /\ Head(todo) \in Granted /\ Head(todo) \in Ids
         /\ inUse => Granted' = Granted
         /\ ~inUse => Granted' = Granted \ {Head(todo)}
<1> DEFINE i == Head(todo)
           rest == Tail(todo)
<1>1. handler \in Busy /\ todo # <<>> /\ handler # "check"
  BY DEF ApplyNext, Busy
<1>2. /\ i \in Ids /\ rest \in Seq(Ids) /\ Elements(todo) = {i} \cup Elements(rest)
      /\ Once(rest) /\ i \notin Elements(rest)
  BY <1>1, HeadAndTail DEF Lists, ListTypes, OnceInv
<1>3. /\ waiting \in Seq(Ids) /\ still \in Seq(Ids) /\ Once(waiting) /\ Once(still)
      /\ Elements(todo) \cap Elements(waiting) = {}
      /\ Elements(todo) \cap Elements(still) = {}
      /\ handler = "approve" => rest = <<>> /\ still = <<>>
  BY <1>1 DEF Lists, ListTypes, OnceInv, WhereInv
<1>4. Granted = Elements(waiting) \cup Elements(still) \cup Elements(todo)
  BY <1>1 DEF Granted
<1>5. CASE ~inUse
  <2>1. Continue(rest, still)
    BY <1>5 DEF ApplyNext
  <2>2. Lists' /\ Granted' = Elements(waiting) \cup Elements(rest) \cup Elements(still)
    <3>1. Elements(rest) \cap Elements(still) = {}
      BY <1>2, <1>3
    <3> HIDE DEF rest
    <3> QED
      BY <1>1, <1>2, <1>3, <2>1, <3>1, ContinueLists
  <2>3. Granted' = Granted \ {i}
    BY <1>2, <1>3, <1>4, <2>2
  <2> QED
    BY <1>2, <1>4, <1>5, <2>2, <2>3
<1>6. CASE inUse /\ handler # "approve"
  <2> DEFINE nowStill == Append(still, i)
  <2>1. Continue(rest, nowStill)
    BY <1>6 DEF ApplyNext
  <2>2. /\ nowStill \in Seq(Ids) /\ Elements(nowStill) = Elements(still) \cup {i}
        /\ Once(nowStill)
    BY <1>2, <1>3, AppendElements
  <2>3. Elements(rest) \cap Elements(nowStill) = {}
    BY <1>2, <1>3, <2>2
  <2> HIDE DEF nowStill, rest
  <2>4. Lists'
        /\ Granted' = Elements(waiting) \cup Elements(rest) \cup Elements(nowStill)
    BY <1>1, <1>2, <1>6, <2>1, <2>2, <2>3, ContinueLists
  <2>5. Granted' = Granted
    BY <1>2, <1>4, <2>2, <2>4
  <2> QED
    BY <1>2, <1>4, <1>6, <2>4, <2>5
<1>7. CASE inUse /\ handler = "approve"
  <2>1. /\ waiting' = Append(waiting, i) /\ handler' = "idle" /\ todo' = <<>>
        /\ still' = still /\ still = <<>> /\ rest = <<>>
    BY <1>3, <1>7 DEF ApplyNext
  <2>2. /\ waiting' \in Seq(Ids) /\ Elements(waiting') = Elements(waiting) \cup {i}
        /\ Once(waiting')
    BY <1>2, <1>3, <2>1, AppendElements
  <2>3. Lists'
    BY <2>1, <2>2, NoElements
       DEF Lists, ListTypes, WhereInv, OnceInv, Handlers, Busy
  <2>4. Granted' = Elements(waiting')
    BY <2>1, NoElements DEF Granted
  <2>5. Granted' = Granted
    BY <1>2, <1>4, <2>1, <2>2, <2>4, NoElements
  <2> QED
    BY <1>2, <1>4, <1>7, <2>3, <2>5
<1> QED
  BY <1>5, <1>6, <1>7

-----------------------------------------------------------------------------
(* The file. *)

PInv == GInv /\ PatchTypes /\ WhereInv /\ OnceInv /\ GrantInv

LEMMA StageIs ==
  /\ \A i \in Ids : Stage[i] = IF i > issued THEN "none"
                               ELSE IF patch[i] = NoText THEN "over"
                               ELSE IF i \in Granted THEN "granted"
                               ELSE IF queue[i].status = "pending" THEN "open"
                               ELSE "over"
  /\ \A i \in Ids : Stage'[i] = IF i > issued' THEN "none"
                                ELSE IF patch'[i] = NoText THEN "over"
                                ELSE IF i \in Granted' THEN "granted"
                                ELSE IF queue'[i].status = "pending" THEN "open"
                                ELSE "over"
  BY DEF Stage

\* A step of a human or a request, as the file sees it.
LEMMA DecidedStep ==
  ASSUME content' = content,
         \A i \in Ids : Stage[i] = "none" => Stage'[i] \in {"none", "open", "over"},
         \A i \in Ids : Stage[i] = "open" => Stage'[i] \in {"open", "granted", "over"},
         \A i \in Ids : Stage[i] = "granted" => Stage'[i] \in {"granted", "over"},
         \A i \in Ids : Stage[i] = "over" => Stage'[i] = "over",
         \A i \in Ids : Stage[i] # "none" /\ Stage'[i] # "over" => patch'[i] = patch[i]
  PROVE  Gate!Next
<1>1. \A i \in Ids : Stage[i] \in {"none", "open", "granted", "over"}
  BY StageIs
<1>2. \A i \in Ids :
        Stage'[i] \in CASE Stage[i] = "none" -> {"none", "open", "over"}
                        [] Stage[i] = "open" -> {"open", "granted", "over"}
                        [] Stage[i] = "granted" -> {"granted", "over"}
                        [] Stage[i] = "over" -> {"over"}
  BY <1>1
<1> QED
  BY <1>2 DEF Gate!Next, Gate!Decided

\* A request is open, or over from the start when it is not about the file.
LEMMA RequestGate ==
  ASSUME PInv, Enqueue, NEW t \in Texts \cup {NoText},
         patch' = patch \/ patch' = [patch EXCEPT ![issued + 1] = t],
         content' = content, Granted' = Granted
  PROVE  GrantInv' /\ Gate!Next /\ patch' \in [Ids -> Texts \cup {NoText}]
<1> DEFINE n == issued + 1
<1>1. /\ n \in Ids /\ issued' = n /\ issued \in Nat
      /\ \A i \in Ids \ {n} : queue'[i] \in {queue[i], NoItem}
      /\ \A i \in Ids \ {n} : queue[i].status = "pending" => queue'[i] = queue[i]
      /\ queue'[n].status = "pending"
  BY EnqueueKeeps DEF PInv, GInv, QueueInv, QueueTypeOK
<1>2. /\ patch' \in [Ids -> Texts \cup {NoText}]
      /\ \A i \in Ids \ {n} : patch'[i] = patch[i]
  BY <1>1 DEF PInv, PatchTypes
<1>3. /\ \A i \in Ids : i \in Nat
      /\ \A i \in Ids \ {n} : queue[i].status # "pending" => queue'[i].status # "pending"
  BY <1>1, ItemFacts DEF Ids
<1>4. n \notin Granted
  BY <1>1 DEF PInv, GrantInv
<1>5. GrantInv'
  <2>1. ASSUME NEW i \in Granted
        PROVE  i \in Ids /\ patch'[i] # NoText /\ i \in 1 .. issued'
               /\ queue'[i].status # "pending"
    BY <1>1, <1>2, <1>3, <1>4 DEF PInv, GrantInv
  <2>2. ASSUME NEW i \in Ids, i > issued' PROVE patch'[i] = NoText
    <3>1. i > issued /\ i # n
      BY <1>1, <1>3, <2>2
    <3> QED
      BY <1>2, <3>1 DEF PInv, GrantInv
  <2> QED
    BY <2>1, <2>2 DEF GrantInv
<1>6. \A i \in Ids \ {n} : i > issued' <=> i > issued
  BY <1>1, <1>3
<1>7. \A i \in Ids \ {n} : Stage[i] = "none" => Stage'[i] = "none"
  BY <1>6, StageIs
<1>8. \A i \in Ids \ {n} : Stage[i] # "none" => Stage'[i] = Stage[i]
  BY <1>1, <1>2, <1>3, <1>6, StageIs
<1>9. Stage[n] = "none" /\ Stage'[n] \in {"open", "over"}
  BY <1>1, <1>3, <1>4, StageIs
<1>10. Gate!Next
  BY <1>2, <1>7, <1>8, <1>9, DecidedStep
<1> QED
  BY <1>2, <1>5, <1>10

\* A decision ends a proposal, or grants it.
LEMMA DecisionGate ==
  ASSUME PInv, NEW d \in Ids, NEW verdict \in Verdicts, Decide(d, verdict),
         patch' = patch, content' = content,
         Granted' = Granted \/ (Granted' = Granted \cup {d} /\ patch[d] # NoText)
  PROVE  GrantInv' /\ Gate!Next
<1>1. /\ queue[d].status = "pending" /\ issued' = issued /\ issued \in Nat
      /\ \A i \in Ids \ {d} : queue'[i] \in {queue[i], NoItem}
      /\ \A i \in Ids \ {d} : queue[i].status = "pending" => queue'[i] = queue[i]
      /\ queue'[d].status = verdict
  BY DecideKeeps DEF PInv, GInv, QueueInv, QueueTypeOK
<1>2. verdict # "pending"
  BY DEF Verdicts
<1>3. \A i \in Ids : queue[i].status # "pending" => queue'[i].status # "pending"
  BY <1>1, <1>2, ItemFacts
<1>4. d \in 1 .. issued /\ ~(d > issued) /\ d \notin Granted
  <2>1. d \in Held(queue)
    BY <1>1 DEF Held
  <2> QED
    BY <1>1, <2>1 DEF PInv, GInv, QueueInv, MarksInv, GrantInv
<1>5. GrantInv'
  <2>1. ASSUME NEW i \in Granted'
        PROVE  i \in Ids /\ patch'[i] # NoText /\ i \in 1 .. issued'
               /\ queue'[i].status # "pending"
    <3>1. CASE i = d
      BY <1>1, <1>2, <1>4, <2>1, <3>1
    <3>2. CASE i # d
      BY <1>1, <1>3, <2>1, <3>2 DEF PInv, GrantInv
    <3> QED
      BY <3>1, <3>2
  <2> QED
    BY <1>1, <2>1 DEF PInv, GrantInv
<1>6. \A i \in Ids \ {d} : Stage'[i] = Stage[i]
  BY <1>1, <1>3, StageIs
<1>7. /\ Stage[d] \in {"open", "over"}
      /\ Stage[d] = "open" => Stage'[d] \in {"granted", "over"}
      /\ Stage[d] = "over" => Stage'[d] = "over"
  BY <1>1, <1>2, <1>4, StageIs
<1>8. Gate!Next
  BY <1>6, <1>7, DecidedStep
<1> QED
  BY <1>5, <1>8

\* Where no request, answer, patch or list changes.
LEMMA OtherGate ==
  ASSUME PInv, queue' = queue, issued' = issued, patch' = patch, Granted' = Granted
  PROVE  GrantInv' /\ Stage' = Stage
<1>1. GrantInv'
  BY DEF PInv, GrantInv
<1>2. Stage' = Stage
  BY DEF Stage
<1> QED
  BY <1>1, <1>2

\* What a step does for the file and for the patches on a list.
Good ==
  /\ PInv'
  /\ Gate!Next \/ UNCHANGED <<content, patch, Stage>>
  /\ \A i \in Granted : i \notin Granted' =>
       \/ todo # <<>> /\ i = Head(todo) /\ ~inUse
       \/ restarts' # restarts

\* No handler moves.
LEMMA ListsStay ==
  ASSUME PInv, UNCHANGED <<waiting, handler, todo, still>>
  PROVE  /\ Granted' = Granted /\ WhereInv' /\ OnceInv'
         /\ waiting' \in Seq(Ids) /\ todo' \in Seq(Ids) /\ still' \in Seq(Ids)
         /\ handler' \in Handlers
  BY DEF PInv, PatchTypes, WhereInv, OnceInv, Granted

LEMMA TypesOf ==
  ASSUME PInv
  PROVE  /\ content \in Contents /\ patch \in [Ids -> Texts \cup {NoText}]
         /\ ledger \in [Ids -> [status : {"none", "verified", "regressed"},
                                backup : Contents \cup {NoRecord.backup}]]
         /\ inUse \in BOOLEAN
         /\ waiting \in Seq(Ids) /\ todo \in Seq(Ids) /\ still \in Seq(Ids)
         /\ handler \in Handlers /\ issued \in Nat /\ GInv
         /\ WhereInv /\ OnceInv /\ GrantInv /\ Lists
  BY DEF PInv, PatchTypes, GInv, QueueInv, QueueTypeOK, Lists, ListTypes

LEMMA GuardSteps ==
  ASSUME PInv, GuardNext, UNCHANGED patchVars
  PROVE  Good
<1>1. /\ content' = content /\ patch' = patch /\ ledger' = ledger /\ inUse' = inUse
      /\ UNCHANGED <<waiting, handler, todo, still>>
  BY DEF patchVars
<1>2. Granted' = Granted /\ WhereInv' /\ OnceInv' /\ PatchTypes'
  BY <1>1, ListsStay, TypesOf DEF PatchTypes
<1>3. ASSUME GInv', GrantInv', Gate!Next \/ UNCHANGED <<content, patch, Stage>>
      PROVE  Good
  BY <1>2, <1>3 DEF Good, PInv
<1>4. CASE Raise
  <2>1. GInv'
    BY <1>4, RaiseStep DEF PInv
  <2>2. GrantInv' /\ Gate!Next
    BY <1>1, <1>2, <1>4, RequestGate DEF Raise
  <2> QED
    BY <1>3, <2>1, <2>2
<1>5. ASSUME UNCHANGED queueVars, GInv' PROVE Good
  BY <1>1, <1>2, <1>3, <1>5, OtherGate DEF queueVars
<1>6. CASE Own
  BY <1>5, <1>6, OwnStep DEF PInv, Own
<1>7. CASE RecordAnswer
  <2>1. GInv'
    BY <1>7, RecordAnswerStep DEF PInv
  <2>2. CASE UNCHANGED queueVars
    BY <1>5, <2>1, <2>2
  <2>3. CASE ~UNCHANGED queueVars
    <3>1. PICK verdict \in Verdicts :
            verdict = IF answering.status = "approved" THEN "approved" ELSE "denied"
      BY DEF Verdicts
    <3>2. Decide(answering.id, verdict)
      BY <1>7, <2>3, <3>1 DEF RecordAnswer
    <3>3. answering.id \in Ids
      BY <1>7 DEF RecordAnswer, PInv, GInv, GuardTypeOK, NoAnswer
    <3>4. GrantInv' /\ Gate!Next
      BY <1>1, <1>2, <3>2, <3>3, DecisionGate
    <3> QED
      BY <1>3, <2>1, <3>4
  <2> QED
    BY <2>2, <2>3
<1>8. CASE Poll
  BY <1>5, <1>8, PollStep DEF PInv, Poll
<1>9. ASSUME NEW i \in Ids, NEW status \in {"approved", "rejected"}, Answer(i, status)
      PROVE  Good
  BY <1>5, <1>9, AnswerStep DEF PInv, Answer
<1> QED
  BY <1>4, <1>6, <1>7, <1>8, <1>9 DEF GuardNext

LEMMA ProposeStep ==
  ASSUME PInv, NEW t \in Texts, Propose(t)
  PROVE  Good
<1>1. /\ content' = content /\ ledger' = ledger /\ inUse' = inUse
      /\ patch' = [patch EXCEPT ![issued + 1] = t]
      /\ UNCHANGED <<waiting, handler, todo, still>> /\ Enqueue /\ UNCHANGED guardVars
  BY DEF Propose, Register
<1>2. Granted' = Granted /\ WhereInv' /\ OnceInv'
      /\ waiting' \in Seq(Ids) /\ todo' \in Seq(Ids) /\ still' \in Seq(Ids)
      /\ handler' \in Handlers
  BY <1>1, ListsStay
<1>3. GInv'
  BY <1>1, EnqueueStep DEF PInv
<1>4. GrantInv' /\ Gate!Next /\ patch' \in [Ids -> Texts \cup {NoText}]
  BY <1>1, <1>2, RequestGate
<1>5. PatchTypes'
  BY <1>1, <1>2, <1>4, TypesOf DEF PatchTypes
<1> QED
  BY <1>2, <1>3, <1>4, <1>5 DEF Good, PInv

LEMMA JudgeStep ==
  ASSUME PInv, NEW d \in Ids, NEW verdict \in Verdicts, Judge(d, verdict)
  PROVE  Good
<1>1. /\ content' = content /\ patch' = patch /\ ledger' = ledger /\ inUse' = inUse
      /\ UNCHANGED <<waiting, handler, todo, still>>
      /\ Decide(d, verdict) /\ UNCHANGED guardVars
  BY DEF Judge, patchVars
<1>2. Granted' = Granted /\ WhereInv' /\ OnceInv' /\ PatchTypes'
  BY <1>1, ListsStay, TypesOf DEF PatchTypes
<1>3. GInv'
  BY <1>1, DecideStep DEF PInv
<1>4. GrantInv' /\ Gate!Next
  BY <1>1, <1>2, DecisionGate
<1> QED
  BY <1>2, <1>3, <1>4 DEF Good, PInv

\* Approving from the table: what is approved is the one thing in hand.
LEMMA ApproveStep ==
  ASSUME PInv, NEW d \in Ids, ApproveAndApply(d)
  PROVE  Good
<1>1. /\ content' = content /\ patch' = patch /\ ledger' = ledger /\ inUse' = inUse
      /\ waiting' = waiting /\ still' = still /\ handler = "idle"
      /\ Decide(d, "approved") /\ UNCHANGED guardVars /\ "approved" \in Verdicts
  BY DEF ApproveAndApply, Verdicts
<1>2. GInv'
  BY <1>1, DecideStep DEF PInv
<1>3. todo = <<>> /\ still = <<>>
  BY <1>1 DEF PInv, WhereInv
<1>4. CASE patch[d] = NoText
  <2>1. UNCHANGED <<waiting, handler, todo, still>>
    BY <1>1, <1>4 DEF ApproveAndApply
  <2>2. Granted' = Granted /\ WhereInv' /\ OnceInv' /\ PatchTypes'
    BY <1>1, <2>1, ListsStay, TypesOf DEF PatchTypes
  <2>3. GrantInv' /\ Gate!Next
    BY <1>1, <2>2, DecisionGate
  <2> QED
    BY <1>2, <2>2, <2>3 DEF Good, PInv
<1>5. CASE patch[d] # NoText
  <2>1. handler' = "approve" /\ todo' = <<d>>
    BY <1>1, <1>5 DEF ApproveAndApply
  <2>2. Granted' = Granted \cup {d}
    BY <1>1, <1>3, <2>1, NoElements, OneElement DEF Granted
  <2>3. GrantInv' /\ Gate!Next
    BY <1>1, <1>5, <2>2, DecisionGate
  <2>4. d \notin Elements(waiting)
    <3>1. queue[d].status = "pending" /\ Elements(waiting) \subseteq Granted
      BY <1>1 DEF Decide, Granted
    <3> QED
      BY <3>1 DEF PInv, GrantInv
  <2>5. WhereInv'
    BY <1>1, <1>3, <2>1, OneElement DEF WhereInv, Busy
  <2>6. OnceInv'
    BY <1>1, <1>3, <2>1, <2>4, OneElement, NoElements DEF OnceInv, PInv
  <2>7. PatchTypes'
    BY <1>1, <2>1, OneElement, TypesOf DEF PatchTypes, Handlers
  <2> QED
    BY <1>2, <2>2, <2>3, <2>5, <2>6, <2>7 DEF Good, PInv
<1> QED
  BY <1>4, <1>5

\* Where the queue and the guard stand still.
LEMMA QuietStep ==
  ASSUME PInv, UNCHANGED <<queueVars, guardVars>>
  PROVE  GInv' /\ queue' = queue /\ issued' = issued
<1>1. /\ UNCHANGED <<queue, file, old, fresh, issued, now, restarts>>
      /\ UNCHANGED <<owned, raising, answering, asked>>
  BY DEF queueVars, guardVars
<1>2. QueueInv'
  BY <1>1 DEF PInv, GInv, QueueInv, QueueTypeOK, MarksInv, Held, Decided
<1>3. GuardTypeOK'
  BY <1>1 DEF PInv, GInv, GuardTypeOK
<1>4. AskedInv' /\ RecordsInv' /\ OldInv'
  BY <1>1 DEF PInv, GInv, GuardInv, AskedInv, RecordsInv, OldInv, Decided
<1>5. UnansweredIsListed' /\ GuardApprovalIsReal'
  BY <1>1 DEF PInv, GInv, GuardInv, UnansweredIsListed, GuardApprovalIsReal
<1> QED
  BY <1>1, <1>2, <1>3, <1>4, <1>5 DEF GInv, GuardInv

\* Trying a patch writes the text that was granted, or nothing, and ends it.
LEMMA ApplyStep ==
  ASSUME PInv, ApplyNext
  PROVE  Good
<1> DEFINE i == Head(todo)
<1>1. /\ Lists' /\ i \in Granted /\ i \in Ids
      /\ inUse => Granted' = Granted
      /\ ~inUse => Granted' = Granted \ {i}
  BY ApplyLists, TypesOf
<1>2. /\ GInv' /\ queue' = queue /\ issued' = issued /\ patch' = patch /\ inUse' = inUse
      /\ todo # <<>>
  BY QuietStep DEF ApplyNext
<1>3. /\ patch[i] # NoText /\ patch[i] \in Texts /\ ~(i > issued)
      /\ queue[i].status # "pending" /\ issued \in Nat
  BY <1>1, TypesOf DEF GrantInv
<1>4. GrantInv'
  BY <1>1, <1>2 DEF GrantInv, PInv
<1>5. /\ ~inUse => Install(i)
      /\ inUse => UNCHANGED <<content, ledger>>
  BY DEF ApplyNext
<1>6. PatchTypes'
  <2>1. content' \in Contents
    BY <1>1, <1>3, <1>5, TypesOf DEF Install, Contents
  <2>2. ledger' \in [Ids -> [status : {"none", "verified", "regressed"},
                             backup : Contents \cup {NoRecord.backup}]]
    <3>1. PICK entry : entry = [status |-> "verified", backup |-> content]
      OBVIOUS
    <3>2. entry \in [status : {"none", "verified", "regressed"},
                     backup : Contents \cup {NoRecord.backup}]
      BY <3>1, TypesOf
    <3>3. ledger' \in {ledger, [ledger EXCEPT ![i] = entry]}
      BY <1>5, <3>1, TypesOf DEF Install
    <3> QED
      BY <3>2, <3>3, TypesOf
  <2> QED
    BY <1>1, <1>2, <2>1, <2>2, TypesOf DEF PatchTypes, Lists, ListTypes
<1>7. CASE inUse
  <2>1. Stage' = Stage
    BY <1>1, <1>2, <1>7, OtherGate
  <2> QED
    BY <1>1, <1>2, <1>4, <1>5, <1>6, <1>7, <2>1 DEF Good, PInv, Lists
<1>8. CASE ~inUse
  <2>1. Stage[i] = "granted" /\ Stage'[i] = "over"
    BY <1>1, <1>2, <1>3, <1>8, StageIs
  <2>2. \A j \in Ids \ {i} : Stage'[j] = Stage[j]
    BY <1>1, <1>2, <1>8, StageIs
  <2>3. CASE content' = content
    <3>1. Gate!Next
      BY <1>2, <2>1, <2>2, <2>3, DecidedStep
    <3> QED
      BY <1>1, <1>2, <1>4, <1>6, <1>8, <3>1 DEF Good, PInv, Lists
  <2>4. CASE content' # content
    <3>1. content' = [text |-> patch[i], by |-> i]
      BY <1>5, <1>8, <2>4 DEF Install
    <3>2. Gate!Install(i)
      BY <1>2, <2>1, <2>2, <3>1 DEF Gate!Install
    <3>3. Gate!Next
      BY <1>1, <3>2 DEF Gate!Next
    <3> QED
      BY <1>1, <1>2, <1>4, <1>6, <1>8, <3>3 DEF Good, PInv, Lists
  <2> QED
    BY <2>3, <2>4
<1> QED
  BY <1>7, <1>8

\* The tick takes the whole list in hand.
LEMMA TickStep ==
  ASSUME PInv, Tick
  PROVE  Good
<1>1. /\ GInv' /\ queue' = queue /\ issued' = issued
      /\ UNCHANGED <<content, patch, ledger, inUse, still>>
      /\ handler = "idle" /\ todo = <<>> /\ still = <<>>
      /\ handler' = IF waiting = <<>> THEN "check" ELSE "tick"
      /\ todo' = waiting /\ waiting' = <<>>
  BY QuietStep DEF Tick, PInv, WhereInv
<1>2. Granted' = Granted
  BY <1>1, NoElements DEF Granted
<1>3. WhereInv' /\ OnceInv'
  BY <1>1, NoElements DEF PInv, WhereInv, OnceInv, Busy
<1>4. PatchTypes'
  BY <1>1, NoElements, TypesOf DEF PatchTypes, Handlers
<1>5. GrantInv' /\ Stage' = Stage
  BY <1>1, <1>2, OtherGate
<1> QED
  BY <1>1, <1>2, <1>3, <1>4, <1>5 DEF Good, PInv

\* The check looks at what was applied, and asks where it has regressed.
LEMMA CheckStep ==
  ASSUME PInv, NEW i \in Ids, Check(i)
  PROVE  Good
<1>1. /\ handler = "check" /\ UNCHANGED <<content, inUse, waiting, handler, still>>
      /\ todo' = Append(todo, i) /\ UNCHANGED guardVars
  BY DEF Check
<1>2. Granted' = Granted /\ WhereInv' /\ OnceInv'
  BY <1>1 DEF PInv, WhereInv, OnceInv, Granted, Busy
<1>3. todo' \in Seq(Ids)
  BY <1>1, AppendElements, TypesOf
<1>4. ledger' \in [Ids -> [status : {"none", "verified", "regressed"},
                           backup : Contents \cup {NoRecord.backup}]]
  <2>1. PICK to \in {"verified", "regressed"} : ledger' = [ledger EXCEPT ![i].status = to]
    BY DEF Check
  <2> QED
    BY <2>1, TypesOf
<1>5. CASE content.text \in Broken
  <2>1. Register(ledger[i].backup.text)
    BY <1>5 DEF Check
  <2>2. PICK t \in Texts \cup {NoText} : t = ledger[i].backup.text
    BY TypesOf DEF Contents, NoRecord
  <2>3. Enqueue /\ patch' = [patch EXCEPT ![issued + 1] = t]
    BY <2>1, <2>2 DEF Register
  <2>4. GInv'
    BY <1>1, <2>3, EnqueueStep DEF PInv
  <2>5. GrantInv' /\ Gate!Next /\ patch' \in [Ids -> Texts \cup {NoText}]
    BY <1>1, <1>2, <2>3, RequestGate
  <2> QED
    BY <1>1, <1>2, <1>3, <1>4, <2>4, <2>5, TypesOf DEF Good, PInv, PatchTypes
<1>6. CASE content.text \notin Broken
  <2>1. UNCHANGED <<queueVars, guardVars>> /\ patch' = patch
    BY <1>1, <1>6 DEF Check
  <2>2. GInv' /\ queue' = queue /\ issued' = issued
    BY <2>1, QuietStep
  <2>3. GrantInv' /\ Stage' = Stage
    BY <1>2, <2>1, <2>2, OtherGate
  <2> QED
    BY <1>1, <1>2, <1>3, <1>4, <2>1, <2>2, <2>3, TypesOf DEF Good, PInv, PatchTypes
<1> QED
  BY <1>5, <1>6

\* The check ends; the use of the file changes; others write it.
LEMMA PlainStep ==
  ASSUME PInv, Checked \/ MarkUse \/ \E t \in Texts : Edit(t)
  PROVE  Good
<1>1. GInv' /\ queue' = queue /\ issued' = issued
      /\ patch' = patch /\ ledger' = ledger /\ waiting' = waiting /\ still' = still
  BY QuietStep DEF Checked, MarkUse, Edit
<1>2. CASE Checked
  <2>1. /\ handler = "check" /\ handler' = "idle" /\ todo' = <<>>
        /\ content' = content /\ inUse' = inUse /\ still = <<>>
    BY <1>2 DEF Checked, PInv, WhereInv
  <2>2. Granted' = Granted
    BY <1>1, <2>1, NoElements DEF Granted
  <2>3. WhereInv' /\ OnceInv' /\ PatchTypes'
    BY <1>1, <2>1, NoElements, TypesOf
       DEF WhereInv, OnceInv, PatchTypes, Busy, Handlers
  <2>4. GrantInv' /\ Stage' = Stage
    BY <1>1, <2>2, OtherGate
  <2> QED
    BY <1>1, <2>1, <2>2, <2>3, <2>4 DEF Good, PInv
<1>3. CASE MarkUse \/ \E t \in Texts : Edit(t)
  <2>1. UNCHANGED <<waiting, handler, todo, still>>
    BY <1>1, <1>3 DEF MarkUse, Edit
  <2>2. Granted' = Granted /\ WhereInv' /\ OnceInv'
        /\ waiting' \in Seq(Ids) /\ todo' \in Seq(Ids) /\ still' \in Seq(Ids)
        /\ handler' \in Handlers
    BY <2>1, ListsStay
  <2>3. GrantInv' /\ Stage' = Stage
    BY <1>1, <2>2, OtherGate
  <2>4. inUse' \in BOOLEAN
    BY <1>3, TypesOf DEF MarkUse, Edit
  <2>5. /\ content' \in Contents
        /\ content' = content \/ Gate!Next
    <3>1. CASE MarkUse
      BY <3>1, TypesOf DEF MarkUse
    <3>2. CASE \E t \in Texts : Edit(t)
      <4>1. PICK t \in Texts : content' = [text |-> t, by |-> 0]
        BY <3>2 DEF Edit
      <4>2. content' \in Contents
        BY <4>1 DEF Contents
      <4>3. Gate!Next
        BY <1>1, <2>3, <4>1 DEF Gate!Next, Gate!Write
      <4> QED
        BY <4>2, <4>3
    <3> QED
      BY <1>3, <3>1, <3>2
  <2>6. PatchTypes'
    BY <1>1, <2>2, <2>4, <2>5, TypesOf DEF PatchTypes
  <2> QED
    BY <1>1, <2>2, <2>3, <2>5, <2>6 DEF Good, PInv
<1> QED
  BY <1>2, <1>3

\* The process forgets every patch; a write that it was at has been granted.
LEMMA RebootStep ==
  ASSUME PInv, Reboot
  PROVE  Good
<1>1. /\ Restart /\ GuardForgets
      /\ patch' = [i \in Ids |-> NoText] /\ ledger' = [i \in Ids |-> NoRecord]
      /\ inUse' = FALSE /\ waiting' = <<>> /\ handler' = "idle"
      /\ todo' = <<>> /\ still' = <<>>
      /\ issued' = issued /\ restarts' # restarts
  BY DEF Reboot, Forget, Restart, PInv, GInv, QueueInv, QueueTypeOK
<1>2. GInv'
  BY <1>1, RestartStep DEF PInv
<1>3. Granted' = {}
  BY <1>1, NoElements DEF Granted
<1>4. WhereInv' /\ OnceInv' /\ GrantInv'
  BY <1>1, <1>3, NoElements DEF WhereInv, OnceInv, GrantInv, Busy
<1>5. /\ \A i \in Ids : i > issued => /\ Stage[i] = "none" /\ Stage'[i] = "none"
                                      /\ patch'[i] = patch[i]
      /\ \A i \in Ids : ~(i > issued) => Stage[i] # "none" /\ Stage'[i] = "over"
  BY <1>1, StageIs DEF PInv, GrantInv
<1>6. ledger' \in [Ids -> [status : {"none", "verified", "regressed"},
                           backup : Contents \cup {NoRecord.backup}]]
  BY <1>1 DEF NoRecord
<1>7. ASSUME content' \in Contents, Gate!Next PROVE Good
  <2>1. PatchTypes'
    BY <1>1, <1>6, <1>7, NoElements DEF PatchTypes, Handlers
  <2> QED
    BY <1>1, <1>2, <1>4, <1>7, <2>1 DEF Good, PInv
<1>8. CASE content' = content
  <2>1. Gate!Next
    BY <1>5, <1>8, DecidedStep
  <2> QED
    BY <1>7, <1>8, <2>1, TypesOf
<1>9. CASE content' # content
  <2> DEFINE i == Head(todo)
  <2>1. handler \in Busy /\ todo # <<>> /\ content' = [text |-> patch[i], by |-> i]
    BY <1>9 DEF Reboot, Busy
  <2>2. i \in Ids /\ i \in Elements(todo)
    BY <2>1, HeadAndTail, TypesOf
  <2>3. i \in Granted
    BY <2>1, <2>2 DEF Granted, Busy
  <2>4. patch[i] \in Texts /\ ~(i > issued) /\ Stage[i] = "granted"
    <3>1. patch[i] # NoText /\ i \in 1 .. issued
      BY <2>3, TypesOf DEF GrantInv
    <3>2. patch[i] \in Texts /\ ~(i > issued)
      BY <2>2, <3>1, TypesOf
    <3> QED
      BY <2>2, <2>3, <3>1, <3>2, StageIs
  <2>5. content' \in Contents
    BY <2>1, <2>2, <2>4 DEF Contents
  <2>6. Gate!Install(i)
    BY <1>5, <2>1, <2>2, <2>4 DEF Gate!Install
  <2>7. Gate!Next
    BY <2>2, <2>6 DEF Gate!Next
  <2> QED
    BY <1>7, <2>5, <2>7
<1> QED
  BY <1>8, <1>9

LEMMA StutterStep ==
  ASSUME PInv, UNCHANGED vars
  PROVE  Good
<1>1. /\ UNCHANGED <<queueVars, guardVars>> /\ UNCHANGED <<content, patch, ledger, inUse>>
      /\ UNCHANGED <<waiting, handler, todo, still>>
  BY DEF vars, patchVars
<1>2. GInv' /\ queue' = queue /\ issued' = issued
  BY <1>1, QuietStep
<1>3. Granted' = Granted /\ WhereInv' /\ OnceInv' /\ PatchTypes'
  BY <1>1, ListsStay, TypesOf DEF PatchTypes
<1>4. GrantInv' /\ Stage' = Stage
  BY <1>1, <1>2, <1>3, OtherGate
<1> QED
  BY <1>1, <1>2, <1>3, <1>4 DEF Good, PInv

LEMMA EveryStep ==
  ASSUME PInv, [Next]_vars
  PROVE  Good
<1>1. \A t \in Texts : Propose(t) => Good
  BY ProposeStep
<1>2. \A i \in Ids : /\ ApproveAndApply(i) \/ Check(i) => Good
                     /\ \A verdict \in Verdicts : Judge(i, verdict) => Good
  BY ApproveStep, CheckStep, JudgeStep
<1> QED
  BY <1>1, <1>2, GuardSteps, ApplyStep, TickStep, PlainStep, RebootStep, StutterStep
     DEF Next

LEMMA InitPInv == Init => PInv /\ Gate!Init
<1> SUFFICES ASSUME Init PROVE PInv /\ Gate!Init
  OBVIOUS
<1>1. /\ queue = Empty /\ file = Empty /\ old = {} /\ fresh = {}
      /\ issued = 0 /\ now = 0 /\ restarts = 0
  BY DEF Init, QueueInit
<1>2. Empty \in Queues /\ Held(Empty) = {} /\ Decided(Empty) = {}
  BY StatusesDiffer DEF Empty, Queues, Held, Decided
<1>3. QueueInv
  BY <1>1, <1>2, QueueAssumption DEF QueueInv, QueueTypeOK, MarksInv
<1>4. /\ owned = [i \in Ids |-> "none"] /\ raising = 0 /\ answering = NoAnswer /\ asked = {}
  BY DEF Init, GuardInit
<1>5. GuardTypeOK /\ UnansweredIsListed /\ GuardApprovalIsReal
  BY <1>4 DEF GuardTypeOK, UnansweredIsListed, GuardApprovalIsReal
<1>6. AskedInv /\ RecordsInv /\ OldInv
  BY <1>1, <1>4 DEF AskedInv, RecordsInv, OldInv, NoAnswer
<1>7. /\ content \in [text : Texts \ Broken, by : {0}] /\ patch = [i \in Ids |-> NoText]
      /\ ledger = [i \in Ids |-> NoRecord] /\ inUse = FALSE /\ waiting = <<>>
      /\ handler = "idle" /\ todo = <<>> /\ still = <<>>
  BY DEF Init
<1>8. Granted = {}
  BY <1>7, NoElements DEF Granted
<1>9. PatchTypes
  <2>1. content \in Contents
    BY <1>7 DEF Contents
  <2>2. ledger \in [Ids -> [status : {"none", "verified", "regressed"},
                            backup : Contents \cup {NoRecord.backup}]]
    BY <1>7 DEF NoRecord
  <2> QED
    BY <1>7, <2>1, <2>2, NoElements DEF PatchTypes, Handlers
<1>10. WhereInv /\ OnceInv /\ GrantInv
  BY <1>7, <1>8, NoElements DEF WhereInv, OnceInv, GrantInv, Busy
<1>11. Gate!Init
  <2>1. Stage = [i \in Ids |-> "none"]
    <3>1. \A i \in Ids : i > issued
      BY <1>1 DEF Ids
    <3> QED
      BY <3>1 DEF Stage
  <2> QED
    BY <1>7, <2>1 DEF Gate!Init
<1> QED
  BY <1>3, <1>5, <1>6, <1>9, <1>10, <1>11 DEF PInv, GInv, GuardInv

LEMMA PatchInvariance == Spec => []PInv
<1>1. PInv /\ [Next]_vars => PInv'
  BY EveryStep DEF Good
<1> QED
  BY <1>1, InitPInv, PTL DEF Spec

\* The queue, the guard and the patch service keep their types.
THEOREM PatchTypeCorrect == Spec => []TypeOK
<1>1. PInv => TypeOK
  BY DEF PInv, GInv, QueueInv, PatchTypes, TypeOK, Handlers
<1> QED
  BY <1>1, PatchInvariance, PTL

\* What a human has still to answer for the guard is on the guard's list.
THEOREM RequestsAreListed == Spec => []UnansweredIsListed
<1>1. PInv => UnansweredIsListed
  BY DEF PInv, GInv, GuardInv
<1> QED
  BY <1>1, PatchInvariance, PTL

\* The guard calls approved only what is approved in the queue.
THEOREM ApprovalsAreReal == Spec => []GuardApprovalIsReal
<1>1. PInv => GuardApprovalIsReal
  BY DEF PInv, GInv, GuardInv
<1> QED
  BY <1>1, PatchInvariance, PTL

\* An approved patch stays on a list until it is tried or the process ends.
THEOREM WaitingPatchesStay == Spec => WaitingIsKept
<1>1. PInv /\ [Next]_vars =>
        [\A i \in Granted : i \notin Granted' =>
           \/ todo # <<>> /\ i = Head(todo) /\ ~inUse
           \/ restarts' # restarts]_vars
  BY EveryStep DEF Good
<1> QED
  BY <1>1, PatchInvariance, PTL DEF Spec, WaitingIsKept

\* The patch service implements GatedFile: a file gets the text of a proposal that
\* is granted and not yet over, in every interleaving and over every crash.
THEOREM PatchesAreGated == Spec => FileIsGated
<1>1. PInv /\ [Next]_vars => [Gate!Next]_(Gate!vars)
  BY EveryStep DEF Good, Gate!vars
<1>2. Init => Gate!Init
  BY InitPInv
<1> QED
  BY <1>1, <1>2, PatchInvariance, PTL DEF Spec, FileIsGated, Gate!Spec

\* What GatedFile comes to: once a proposal has been refused, tried or forgotten,
\* no later decision, drain, tick or restart writes its text to the file.
THEOREM FinishedPatchesStayOut ==
  Spec => [][\A i \in Ids : Stage[i] = "over" =>
               /\ Stage'[i] = "over"
               /\ content'.by = i => content' = content]_vars
<1>. DEFINE Out(i) == Stage[i] = "over" => /\ Stage'[i] = "over"
                                           /\ content'.by = i => content' = content
<1>1. ASSUME [Gate!Next]_(Gate!vars), 0 \notin Ids, NEW i \in Ids
      PROVE  Out(i)
  <2>1. CASE Gate!Write \/ UNCHANGED Gate!vars
    BY <1>1, <2>1 DEF Gate!Write, Gate!vars
  <2>2. CASE Gate!Decided
    BY <2>2 DEF Gate!Decided
  <2>3. ASSUME NEW j \in Ids, Gate!Install(j)
        PROVE  Out(i)
    <3>1. Stage[i] = "over" => i # j
      BY <2>3 DEF Gate!Install
    <3>2. content'.by = j /\ (i # j => Stage'[i] \in {Stage[i], "over"})
      BY <2>3 DEF Gate!Install
    <3> QED
      BY <3>1, <3>2
  <2> QED
    BY <1>1, <2>1, <2>2, <2>3 DEF Gate!Next
<1>2. 0 \notin Ids
  BY DEF Ids
<1>3. [Gate!Next]_(Gate!vars) => [\A i \in Ids : Out(i)]_vars
  BY <1>1, <1>2
<1> QED
  BY <1>3, PatchesAreGated, PTL DEF FileIsGated, Gate!Spec
=============================================================================
