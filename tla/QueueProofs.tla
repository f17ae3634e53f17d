------------------------------ MODULE QueueProofs ------------------------------
(***************************************************************************)
(* Lemmas about the operations of ApprovalQueue, for any number of         *)
(* requests, any bound on the history and any failure of the file, for the *)
(* proofs about what is built on the queue.  Every operation ends in one   *)
(* write, so what it does to the other items is what the bound does.       *)
(***************************************************************************)
EXTENDS ApprovalQueue, FiniteSetTheorems, WellFoundedInduction, TLAPS

\* Only requests that were made are held, every decision this process made is in
\* fresh, and every other one in old.
MarksInv ==
  /\ Held(queue) \subseteq 1..issued /\ Held(file) \subseteq 1..issued
  /\ fresh \subseteq Decided(queue)
  /\ Decided(queue) \subseteq old \cup fresh

\* No two decisions have the same time, so the bound has an order to go by.
TimesInv(q) ==
  \A i \in Decided(q) : /\ q[i].at <= now
                        /\ \A j \in Decided(q) : q[i].at = q[j].at => i = j

-----------------------------------------------------------------------------

LEMMA StatusesDiffer ==
  /\ "none" \notin Verdicts /\ "pending" \notin Verdicts /\ "approved" \in Verdicts
  /\ NoItem \in Item /\ NoItem.status = "none"
BY DEF Verdicts, NoItem, Item

\* The bound keeps items as they are or drops them, and drops no live one.
LEMMA BoundKeepsLive ==
  ASSUME NEW q \in Queues, NEW here
  PROVE  /\ Bounded(q, here) \in Queues
         /\ \A i \in Ids : Bounded(q, here)[i] \in {q[i], NoItem}
         /\ \A i \in Live(q, here) : Bounded(q, here)[i] = q[i]
<1> DEFINE keeps(i) ==
             \/ i \in Live(q, here)
             \/ Cardinality({j \in Held(q) \ Live(q, here) : q[j].at > q[i].at})
                  + Cardinality(Live(q, here)) < Retained
           kept == [i \in Ids |-> IF keeps(i) THEN q[i] ELSE NoItem]
<1>1. Bounded(q, here) \in {q, kept}
  BY DEF Bounded
<1>2. \A i \in Ids : kept[i] = IF keeps(i) THEN q[i] ELSE NoItem
  OBVIOUS
<1>3. \A i \in Live(q, here) : i \in Ids /\ keeps(i)
  BY DEF Live, Held
<1>4. \A i \in Ids : q[i] \in Item
  BY DEF Queues
<1> HIDE DEF keeps
<1>5. kept \in Queues
  BY <1>4, StatusesDiffer DEF Queues
<1> QED
  BY <1>1, <1>2, <1>3, <1>5

\* What a change of the queue leaves behind, whether or not it was saved.
LEMMA PersistKeeps ==
  ASSUME NEW q \in Queues, NEW here, file \in Queues, Persist(q, here)
  PROVE  /\ queue' \in Queues /\ file' \in {file, queue'}
         /\ ~SavesMayFail => file' = queue'
         /\ \A i \in Ids : queue'[i] \in {q[i], NoItem}
         /\ \A i \in Live(q, here) : queue'[i] = q[i]
         /\ old' = old \cap Held(queue')
         /\ fresh' = here \cap Held(queue')
<1>1. queue' \in {q, Bounded(q, here)} /\ file' \in {file, queue'}
  BY DEF Persist
<1>2. ~SavesMayFail => file' = queue'
  BY DEF Persist
<1>3. old' = old \cap Held(queue') /\ fresh' = here \cap Held(queue')
  BY DEF Persist
<1>4. \A i \in Live(q, here) : i \in Ids
  BY DEF Live, Held
<1> QED
  BY <1>1, <1>2, <1>3, <1>4, BoundKeepsLive

\* A request: every other item stays or is dropped, the new one is pending.
LEMMA EnqueueKeeps ==
  ASSUME QueueTypeOK, MarksInv, Enqueue
  PROVE  /\ issued + 1 \in Ids /\ issued' = issued + 1 /\ issued' \in 0..MaxItems
         /\ now' = now /\ restarts' = restarts
         /\ queue' \in Queues /\ file' \in {file, queue'}
         /\ ~SavesMayFail => file' = queue'
         /\ \A i \in Ids \ {issued + 1} : queue'[i] \in {queue[i], NoItem}
         /\ \A i \in Ids \ {issued + 1} :
              queue[i].status = "pending" \/ i \in fresh => queue'[i] = queue[i]
         /\ queue'[issued + 1].status = "pending"
         /\ old' = old \cap Held(queue') /\ fresh' = fresh \cap Held(queue')
<1> DEFINE new == [status |-> "pending", at |-> 0]
           q == [queue EXCEPT ![issued + 1] = new]
<1>1. /\ queue \in Queues /\ file \in Queues /\ issued \in 0..MaxItems
      /\ fresh \subseteq Held(queue)
  BY DEF QueueTypeOK
<1>2. /\ issued + 1 \in Ids /\ issued' = issued + 1 /\ issued' \in 0..MaxItems
      /\ now' = now /\ restarts' = restarts
  BY <1>1, QueueAssumption DEF Enqueue, Ids
<1>3. Persist(q, fresh)
  BY DEF Enqueue
<1>4. new \in Item /\ new.status = "pending"
  BY DEF Item
<1> HIDE DEF new
<1>5. q \in Queues
  BY <1>1, <1>4 DEF Queues
<1>6. /\ \A i \in Ids \ {issued + 1} : q[i] = queue[i]
      /\ q[issued + 1] = new
  BY <1>1, <1>2 DEF Queues
<1>7. \A i \in Ids : q[i].status = "pending" => i \in Live(q, fresh)
  BY DEF Live, Held
<1>8. \A i \in Ids \ {issued + 1} : i \in fresh => i \in Live(q, fresh)
  BY <1>1, <1>6 DEF Live, Held
<1> HIDE DEF q
<1>9. /\ queue' \in Queues /\ file' \in {file, queue'}
      /\ ~SavesMayFail => file' = queue'
      /\ \A i \in Ids : queue'[i] \in {q[i], NoItem}
      /\ \A i \in Live(q, fresh) : queue'[i] = q[i]
      /\ old' = old \cap Held(queue') /\ fresh' = fresh \cap Held(queue')
  BY <1>1, <1>3, <1>5, PersistKeeps
<1> QED
  BY <1>2, <1>4, <1>6, <1>7, <1>8, <1>9

\* A decision: the item decided gets its status and stays, as every live one.
LEMMA DecideKeeps ==
  ASSUME QueueTypeOK, MarksInv, NEW d \in Ids, NEW verdict \in Verdicts, Decide(d, verdict)
  PROVE  /\ queue[d].status = "pending" /\ d \notin fresh
         /\ issued' = issued /\ now' \in Nat /\ restarts' = restarts
         /\ queue' \in Queues /\ file' \in {file, queue'}
         /\ ~SavesMayFail => file' = queue'
         /\ \A i \in Ids \ {d} : queue'[i] \in {queue[i], NoItem}
         /\ \A i \in Ids \ {d} :
              queue[i].status = "pending" \/ i \in fresh => queue'[i] = queue[i]
         /\ queue'[d].status = verdict
         /\ old' = old \cap Held(queue')
         /\ fresh' = (fresh \cup {d}) \cap Held(queue')
<1> DEFINE new == [status |-> verdict, at |-> now + 1]
           here == fresh \cup {d}
           q == [queue EXCEPT ![d] = new]
<1>1. /\ queue \in Queues /\ file \in Queues /\ now \in Nat
      /\ fresh \subseteq Held(queue) /\ fresh \subseteq Decided(queue)
  BY DEF QueueTypeOK, MarksInv
<1>2. /\ queue[d].status = "pending" /\ issued' = issued
      /\ now' = now + 1 /\ restarts' = restarts
  BY DEF Decide
<1>3. Persist(q, here)
  BY DEF Decide
<1>4. d \notin fresh
  BY <1>1, <1>2, StatusesDiffer DEF Decided
<1>5. new \in Item /\ new.status = verdict
  BY <1>1 DEF Item
<1> HIDE DEF new
<1>6. q \in Queues
  BY <1>1, <1>5 DEF Queues
<1>7. /\ \A i \in Ids \ {d} : q[i] = queue[i]
      /\ q[d] = new
  BY <1>1 DEF Queues
<1>8. \A i \in Ids : q[i].status = "pending" => i \in Live(q, here)
  BY DEF Live, Held
<1>9. \A i \in here : i \in Live(q, here)
  BY <1>1, <1>5, <1>7, StatusesDiffer DEF Live, Held
<1> HIDE DEF q
<1>10. /\ queue' \in Queues /\ file' \in {file, queue'}
       /\ ~SavesMayFail => file' = queue'
       /\ \A i \in Ids : queue'[i] \in {q[i], NoItem}
       /\ \A i \in Live(q, here) : queue'[i] = q[i]
       /\ old' = old \cap Held(queue') /\ fresh' = here \cap Held(queue')
  BY <1>1, <1>3, <1>6, PersistKeeps
<1>11. queue'[d].status = verdict
  BY <1>5, <1>7, <1>9, <1>10
<1>12. \A i \in Ids \ {d} :
         queue[i].status = "pending" \/ i \in fresh => queue'[i] = queue[i]
  BY <1>7, <1>8, <1>9, <1>10
<1>13. now' \in Nat
  BY <1>1, <1>2
<1> QED
  BY <1>2, <1>4, <1>7, <1>10, <1>11, <1>12, <1>13

\* The part of the invariant that is about the queue, for a request.
LEMMA EnqueueMarks ==
  ASSUME QueueTypeOK, MarksInv, Enqueue
  PROVE  QueueTypeOK' /\ MarksInv'
<1> DEFINE n == issued + 1
<1>1. /\ queue \in Queues /\ file \in Queues /\ old \subseteq Held(queue)
      /\ now \in Nat /\ restarts \in 0..MaxRestarts /\ issued \in 0..MaxItems
      /\ Held(queue) \subseteq 1..issued /\ Held(file) \subseteq 1..issued
      /\ fresh \subseteq Decided(queue) /\ Decided(queue) \subseteq old \cup fresh
  BY DEF QueueTypeOK, MarksInv
<1>2. /\ n \in Ids /\ issued' = n /\ issued' \in 0..MaxItems
      /\ now' = now /\ restarts' = restarts
      /\ queue' \in Queues /\ file' \in {file, queue'}
      /\ \A i \in Ids \ {n} : queue'[i] \in {queue[i], NoItem}
      /\ \A i \in Ids \ {n} : i \in fresh => queue'[i] = queue[i]
      /\ queue'[n].status = "pending"
      /\ old' = old \cap Held(queue') /\ fresh' = fresh \cap Held(queue')
  BY EnqueueKeeps
<1>3. n \notin fresh
  BY <1>1 DEF Decided, Held, Verdicts
<1>4. QueueTypeOK'
  BY <1>1, <1>2 DEF QueueTypeOK
<1>5. Held(queue') \subseteq 1..n /\ Held(file') \subseteq 1..n
  <2>1. \A i \in Held(queue') : i \in Held(queue) \/ i = n
    BY <1>2, StatusesDiffer DEF Held
  <2>2. Held(queue') \subseteq 1..n
    BY <1>1, <2>1
  <2> QED
    BY <1>1, <1>2, <2>2
<1>6. \A i \in Decided(queue') : i \in Decided(queue)
  BY <1>2, StatusesDiffer DEF Decided
<1>7. fresh' \subseteq Decided(queue')
  BY <1>1, <1>2, <1>3 DEF Decided
<1>8. Decided(queue') \subseteq Held(queue')
  BY StatusesDiffer DEF Decided, Held
<1>9. Decided(queue') \subseteq old' \cup fresh'
  BY <1>1, <1>2, <1>6, <1>8
<1> QED
  BY <1>2, <1>4, <1>5, <1>7, <1>9 DEF MarksInv

\* The same for a decision.
LEMMA DecideMarks ==
  ASSUME QueueTypeOK, MarksInv, NEW d \in Ids, NEW verdict \in Verdicts, Decide(d, verdict)
  PROVE  QueueTypeOK' /\ MarksInv'
<1>1. /\ queue \in Queues /\ file \in Queues /\ old \subseteq Held(queue)
      /\ restarts \in 0..MaxRestarts /\ issued \in 0..MaxItems
      /\ Held(queue) \subseteq 1..issued /\ Held(file) \subseteq 1..issued
      /\ fresh \subseteq Decided(queue) /\ Decided(queue) \subseteq old \cup fresh
  BY DEF QueueTypeOK, MarksInv
<1>2. /\ queue[d].status = "pending"
      /\ issued' = issued /\ now' \in Nat /\ restarts' = restarts
      /\ queue' \in Queues /\ file' \in {file, queue'}
      /\ \A i \in Ids \ {d} : queue'[i] \in {queue[i], NoItem}
      /\ \A i \in Ids \ {d} : i \in fresh => queue'[i] = queue[i]
      /\ queue'[d].status = verdict
      /\ old' = old \cap Held(queue')
      /\ fresh' = (fresh \cup {d}) \cap Held(queue')
  BY DecideKeeps
<1>3. QueueTypeOK'
  BY <1>1, <1>2 DEF QueueTypeOK
<1>4. Held(queue') \subseteq 1..issued' /\ Held(file') \subseteq 1..issued'
  <2>1. \A i \in Held(queue') : i \in Held(queue)
    BY <1>2, StatusesDiffer DEF Held
  <2> QED
    BY <1>1, <1>2, <2>1
<1>5. \A i \in Decided(queue') : i \in Decided(queue) \/ i = d
  BY <1>2, StatusesDiffer DEF Decided
<1>6. fresh' \subseteq Decided(queue')
  <2>1. \A i \in fresh : i \in Ids /\ queue[i].status \in Verdicts
    BY <1>1 DEF Decided
  <2> QED
    BY <1>2, <2>1 DEF Decided
<1>7. Decided(queue') \subseteq Held(queue')
  BY StatusesDiffer DEF Decided, Held
<1>8. Decided(queue') \subseteq old' \cup fresh'
  BY <1>1, <1>2, <1>5, <1>7
<1> QED
  BY <1>3, <1>4, <1>6, <1>8 DEF MarksInv

\* The same for a restart, after which every decision is an old one.
LEMMA RestartMarks ==
  ASSUME QueueTypeOK, MarksInv, Restart
  PROVE  QueueTypeOK' /\ MarksInv'
<1>1. Empty \in Queues /\ Held(Empty) = {}
  BY StatusesDiffer DEF Empty, Queues, Held
<1>2. queue' \in {file, Empty} /\ file' = file /\ issued' = issued /\ now' = now
      /\ old' = Decided(queue') /\ fresh' = {} /\ restarts' = restarts + 1
      /\ restarts < MaxRestarts
  BY DEF Restart, Load
<1>3. Decided(queue') \subseteq Held(queue')
  BY StatusesDiffer DEF Decided, Held
<1>4. /\ file \in Queues /\ issued \in 0..MaxItems /\ now \in Nat
      /\ restarts \in 0..MaxRestarts /\ Held(file) \subseteq 1..issued
  BY DEF QueueTypeOK, MarksInv
<1>5. restarts' \in 0..MaxRestarts
  BY <1>2, <1>4, QueueAssumption
<1>6. QueueTypeOK'
  BY <1>1, <1>2, <1>3, <1>4, <1>5 DEF QueueTypeOK
<1>7. Held(queue') \subseteq 1..issued' /\ Held(file') \subseteq 1..issued'
  BY <1>1, <1>2, <1>4
<1> QED
  BY <1>2, <1>6, <1>7 DEF MarksInv

-----------------------------------------------------------------------------
(* How much the bound leaves. *)

LEMMA Smallest ==
  ASSUME NEW T \in SUBSET Nat, T # {}
  PROVE  \E x \in T : \A y \in T : x <= y
<1>1. PICK x \in T : \A y \in T : <<y, x>> \notin OpToRel(<, Nat)
  BY NatLessThanWellFounded, WFMin
<1>2. ASSUME NEW y \in T PROVE ~(y < x)
  <2>1. <<y, x>> \in Nat \X Nat /\ <<y, x>> \notin OpToRel(<, Nat)
    BY <1>1
  <2> QED
    BY <2>1 DEF OpToRel
<1> QED
  BY <1>2

LEMMA HeldIsFinite ==
  ASSUME NEW q, NEW here
  PROVE  IsFiniteSet(Held(q)) /\ IsFiniteSet(Live(q, here))
<1>1. IsFiniteSet(Ids)
  BY FS_Interval, QueueAssumption DEF Ids
<1>2. Held(q) \subseteq Ids /\ Live(q, here) \subseteq Ids
  BY DEF Held, Live
<1> QED
  BY <1>1, <1>2, FS_Subset

\* Of what may go, the oldest that stays has all others that stay among the newer
\* ones, so there are as many as the live items leave slots for.
LEMMA BoundIsTight ==
  ASSUME NEW q \in Queues, NEW here,
         \A i, j \in Held(q) \ Live(q, here) : q[i].at = q[j].at => i = j
  PROVE  \/ Cardinality(Held(Bounded(q, here))) <= Retained
         \/ Held(Bounded(q, here)) = Live(q, here)
<1> DEFINE live == Live(q, here)
           Newer(i) == {j \in Held(q) \ live : q[j].at > q[i].at}
           K == {i \in Held(q) \ live : Cardinality(Newer(i)) + Cardinality(live) < Retained}
           b == Bounded(q, here)
<1>1. /\ IsFiniteSet(Held(q)) /\ IsFiniteSet(live) /\ live \subseteq Held(q)
      /\ \A i \in Held(q) : i \in Ids /\ q[i].at \in Nat
  BY HeldIsFinite DEF Live, Held, Queues, Item
<1>2. CASE Cardinality(Held(q)) <= Retained
  BY <1>2 DEF Bounded
<1>3. CASE ~(Cardinality(Held(q)) <= Retained)
  <2>1. Held(b) = live \cup K
    <3>1. b = [i \in Ids |-> IF \/ i \in live
                                \/ Cardinality(Newer(i)) + Cardinality(live) < Retained
                             THEN q[i] ELSE NoItem]
      BY <1>3 DEF Bounded
    <3>2. \A i \in Ids : i \in Held(b) <=>
                           /\ i \in Held(q)
                           /\ \/ i \in live
                              \/ Cardinality(Newer(i)) + Cardinality(live) < Retained
      <4> HIDE DEF Newer, live
      <4> QED
        BY <3>1, StatusesDiffer DEF Held
    <3>3. Held(b) \subseteq Ids
      BY DEF Held
    <3> HIDE DEF b, Newer, live
    <3> QED
      BY <1>1, <3>2, <3>3
  <2>2. CASE K = {}
    BY <2>1, <2>2
  <2>3. CASE K # {}
    <3>1. IsFiniteSet(K)
      BY <1>1, FS_Subset
    <3>2. PICK i \in K : \A j \in K : q[i].at <= q[j].at
      <4> DEFINE T == {q[j].at : j \in K}
      <4>1. T \in SUBSET Nat /\ T # {}
        BY <1>1, <2>3
      <4> HIDE DEF K
      <4>2. PICK x \in T : \A y \in T : x <= y
        BY <4>1, Smallest
      <4> QED
        BY <4>2
    <3>3. i \in Held(q) \ live
          /\ Cardinality(Newer(i)) + Cardinality(live) < Retained
      OBVIOUS
    <3>4. K \ {i} \subseteq Newer(i)
      <4> SUFFICES ASSUME NEW j \in K \ {i} PROVE j \in Newer(i)
        OBVIOUS
      <4>1. j \in Held(q) \ live /\ q[j].at \in Nat /\ q[i].at \in Nat
        BY <1>1
      <4>2. q[i].at # q[j].at /\ q[i].at <= q[j].at
        BY <3>2, <3>3, <4>1
      <4> QED
        BY <4>1, <4>2
    <3>5. IsFiniteSet(Newer(i))
      BY <1>1, FS_Subset
    <3> HIDE DEF K, Newer, live
    <3>6. Cardinality(K \ {i}) <= Cardinality(Newer(i))
          /\ Cardinality(K \ {i}) = Cardinality(K) - 1
      BY <3>1, <3>4, <3>5, FS_Subset, FS_RemoveElement
    <3>7. Cardinality(live \cup K)
            = Cardinality(live) + Cardinality(K) - Cardinality(live \cap K)
      BY <1>1, <3>1, FS_Union
    <3>8. /\ Cardinality(live) \in Nat /\ Cardinality(K) \in Nat
          /\ Cardinality(Newer(i)) \in Nat /\ Cardinality(live \cap K) \in Nat
      BY <1>1, <3>1, <3>5, FS_CardinalityType, FS_Intersection
    <3>9. Retained \in Nat
      BY QueueAssumption
    <3>10. Cardinality(live \cup K) <= Retained
      BY <3>3, <3>6, <3>7, <3>8, <3>9
    <3> QED
      BY <2>1, <3>10
  <2> QED
    BY <2>2, <2>3
<1> QED
  BY <1>2, <1>3

Tight == \/ Cardinality(Held(queue')) <= Retained
         \/ Held(queue') = Live(queue', fresh')

LEMMA PersistIsTight ==
  ASSUME NEW q \in Queues, NEW here, Persist(q, here), file' # file,
         \A i, j \in Held(q) \ Live(q, here) : q[i].at = q[j].at => i = j
  PROVE  Tight
<1>1. queue' = Bounded(q, here) /\ fresh' = here \cap Held(queue')
  BY DEF Persist
<1>2. \A i \in Live(q, here) : queue'[i] = q[i]
  BY <1>1, BoundKeepsLive
<1>3. ASSUME Held(queue') = Live(q, here)
      PROVE  Held(queue') = Live(queue', fresh')
  BY <1>1, <1>2, <1>3 DEF Live
<1> QED
  BY <1>1, <1>3, BoundIsTight DEF Tight

\* Times of decisions stay distinct, in the queue and in its file.
LEMMA TimesStay ==
  ASSUME QueueTypeOK, MarksInv, TimesInv(queue), TimesInv(file),
         \/ Enqueue \/ Restart \/ UNCHANGED queueVars
         \/ \E d \in Ids, verdict \in Verdicts : Decide(d, verdict)
  PROVE  TimesInv(queue)' /\ TimesInv(file)'
<1>1. /\ now \in Nat /\ queue \in Queues /\ file \in Queues
      /\ \A i \in Ids : queue[i].at \in Nat /\ file[i].at \in Nat
  BY DEF QueueTypeOK, Queues, Item
<1>2. CASE Enqueue
  <2> DEFINE n == issued + 1
  <2>1. /\ now' = now /\ file' \in {file, queue'}
        /\ \A i \in Ids \ {n} : queue'[i] \in {queue[i], NoItem}
        /\ queue'[n].status = "pending"
    BY <1>2, EnqueueKeeps
  <2>2. \A i \in Decided(queue') : i \in Decided(queue) /\ queue'[i] = queue[i]
    BY <2>1, StatusesDiffer DEF Decided
  <2>3. TimesInv(queue)'
    BY <2>1, <2>2 DEF TimesInv
  <2>4. file' = file => TimesInv(file)'
    BY <2>1 DEF TimesInv
  <2> QED
    BY <2>1, <2>3, <2>4
<1>3. ASSUME NEW d \in Ids, NEW verdict \in Verdicts, Decide(d, verdict)
      PROVE  TimesInv(queue)' /\ TimesInv(file)'
  <2>1. /\ file' \in {file, queue'} /\ now' = now + 1
        /\ \A i \in Ids \ {d} : queue'[i] \in {queue[i], NoItem}
    BY <1>3, DecideKeeps DEF Decide
  <2>2. \A i \in Decided(queue') :
          /\ i \in Ids
          /\ i # d => i \in Decided(queue) /\ queue'[i] = queue[i]
    BY <2>1, StatusesDiffer DEF Decided
  <2>3. queue'[d].at = now + 1 \/ d \notin Decided(queue')
    <3> DEFINE new == [status |-> verdict, at |-> now + 1]
               q == [queue EXCEPT ![d] = new]
    <3>1. Persist(q, fresh \cup {d})
      BY <1>3 DEF Decide
    <3>2. new \in Item /\ new.at = now + 1
      BY <1>1 DEF Item
    <3> HIDE DEF new
    <3>3. q \in Queues /\ q[d] = new
      BY <1>1, <3>2 DEF Queues
    <3> HIDE DEF q
    <3>4. queue'[d] \in {new, NoItem}
      BY <1>1, <3>1, <3>3, PersistKeeps
    <3> QED
      BY <3>2, <3>4, StatusesDiffer DEF Decided
  <2>4. \A i \in Decided(queue') : i # d => queue'[i].at \in Nat /\ queue'[i].at <= now
    BY <1>1, <2>2 DEF TimesInv
  <2>5. TimesInv(queue)'
    <3>1. ASSUME NEW i \in Decided(queue') PROVE queue'[i].at <= now'
      BY <1>1, <2>1, <2>3, <2>4
    <3>2. ASSUME NEW i \in Decided(queue'), NEW j \in Decided(queue'),
                 queue'[i].at = queue'[j].at
          PROVE  i = j
      <4>1. CASE i # d /\ j # d
        BY <2>2, <3>2, <4>1 DEF TimesInv
      <4>2. CASE i = d \/ j = d
        BY <1>1, <2>3, <2>4, <3>2, <4>2
      <4> QED
        BY <4>1, <4>2
    <3> QED
      BY <3>1, <3>2 DEF TimesInv
  <2>6. file' = file => TimesInv(file)'
    <3>1. \A i \in Decided(file) : i \in Ids /\ file[i].at <= now'
      BY <1>1, <2>1 DEF TimesInv, Decided
    <3> QED
      BY <3>1 DEF TimesInv
  <2> QED
    BY <2>1, <2>5, <2>6
<1>4. CASE Restart
  <2>1. queue' \in {file, Empty} /\ file' = file /\ now' = now
    BY <1>4 DEF Restart, Load
  <2>2. Decided(Empty) = {}
    BY StatusesDiffer DEF Empty, Decided
  <2> QED
    BY <2>1, <2>2 DEF TimesInv
<1>5. CASE UNCHANGED queueVars
  BY <1>5 DEF queueVars, TimesInv
<1> QED
  BY <1>2, <1>3, <1>4, <1>5

\* What is saved keeps the bound, or is all live.
LEMMA SavedIsTight ==
  ASSUME QueueTypeOK, MarksInv, TimesInv(queue), file' # file,
         \/ Enqueue \/ Restart \/ UNCHANGED queueVars
         \/ \E d \in Ids, verdict \in Verdicts : Decide(d, verdict)
  PROVE  Tight
<1>1. queue \in Queues /\ issued \in 0 .. MaxItems /\ now \in Nat
  BY DEF QueueTypeOK
<1>2. CASE Enqueue
  <2> DEFINE n == issued + 1
             new == [status |-> "pending", at |-> 0]
             q == [queue EXCEPT ![n] = new]
  <2>1. Persist(q, fresh) /\ n \in Ids
    BY <1>1, <1>2, EnqueueKeeps DEF Enqueue
  <2>2. new \in Item /\ new.status = "pending"
    BY DEF Item
  <2> HIDE DEF new
  <2>3. /\ q \in Queues /\ q[n] = new
        /\ \A i \in Ids \ {n} : q[i] = queue[i]
    BY <1>1, <2>1, <2>2 DEF Queues
  <2> HIDE DEF q
  <2>4. \A i \in Held(q) \ Live(q, fresh) : i \in Decided(queue) /\ q[i] = queue[i]
    <3> SUFFICES ASSUME NEW i \in Held(q), i \notin Live(q, fresh)
                 PROVE  i \in Decided(queue) /\ q[i] = queue[i]
      OBVIOUS
    <3>1. i \in Ids /\ q[i].status \notin {"pending", "none"} /\ q[i] \in Item
      BY <2>3 DEF Held, Live, Queues
    <3>2. i # n /\ q[i].status \in Verdicts
      BY <2>2, <2>3, <3>1 DEF Item
    <3> QED
      BY <2>3, <3>1, <3>2 DEF Decided
  <2> QED
    BY <2>1, <2>3, <2>4, PersistIsTight DEF TimesInv
<1>3. ASSUME NEW d \in Ids, NEW verdict \in Verdicts, Decide(d, verdict)
      PROVE  Tight
  <2> DEFINE new == [status |-> verdict, at |-> now + 1]
             here == fresh \cup {d}
             q == [queue EXCEPT ![d] = new]
  <2>1. Persist(q, here)
    BY <1>3 DEF Decide
  <2>2. new \in Item /\ new.status = verdict
    BY <1>1 DEF Item
  <2> HIDE DEF new
  <2>3. /\ q \in Queues /\ q[d] = new
        /\ \A i \in Ids \ {d} : q[i] = queue[i]
    BY <1>1, <2>2 DEF Queues
  <2> HIDE DEF q
  <2>4. \A i \in Held(q) \ Live(q, here) : i \in Decided(queue) /\ q[i] = queue[i]
    <3> SUFFICES ASSUME NEW i \in Held(q), i \notin Live(q, here)
                 PROVE  i \in Decided(queue) /\ q[i] = queue[i]
      OBVIOUS
    <3>1. i \in Ids /\ q[i].status \notin {"pending", "none"} /\ q[i] \in Item /\ i # d
      BY <2>3 DEF Held, Live, Queues
    <3>2. q[i].status \in Verdicts
      BY <3>1 DEF Item
    <3> QED
      BY <2>3, <3>1, <3>2 DEF Decided
  <2> QED
    BY <2>1, <2>3, <2>4, PersistIsTight DEF TimesInv
<1>4. ~Restart /\ ~UNCHANGED queueVars
  BY DEF Restart, queueVars
<1> QED
  BY <1>2, <1>3, <1>4
=============================================================================
