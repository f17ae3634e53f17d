---------------------------- MODULE DialogueProofs ----------------------------
(***************************************************************************)
(* Proofs about the dialogue tab, for any roster of two personas or more,  *)
(* any number of workers, and any number of commands in any order.         *)
(*                                                                         *)
(* A handler maps a tab to the outcomes it can leave, so there is one      *)
(* lemma for each handler: from a Sound tab, whatever was scheduled        *)
(* before, every outcome is Fine, which is Sound, Paced and Alive.  A      *)
(* handler that can leave the scheduling as it was (a new goal, a step     *)
(* forced, a turn for the human) needs a Fine tab.  Most handlers also     *)
(* leave the Live flag alone (AllKeep) or take it down (AllStopped).       *)
(*                                                                         *)
(* Paced is what makes Alive inductive.  A turn for the human asks for     *)
(* nothing when the worker the tab holds runs or is deleted; were that     *)
(* worker all that the session waits for, with nothing more to come from   *)
(* it, the session would be over in silence.                               *)
(*                                                                         *)
(* What is left is the events that concern one worker: its reply is sent,  *)
(* its thread ends, Qt deletes it.  A worker that has ended was cancelled  *)
(* or has replied, so the deletion takes nothing away that was on its way. *)
(***************************************************************************)
EXTENDS MCDialogue, TLAPS

Flight == [by : Personas, running : BOOLEAN, cancelled : BOOLEAN,
           reply : {"none", "sent", "handled"}]
Flights == UNION {[D -> Flight] : D \in SUBSET Workers}

Turns == 0..Steps
Repetitions == 0..RepeatBudget

\* A line of personas as long as the roster, or none.
Lines == {<<>>} \union [1..Len(Roster) -> Personas]

\* The values of the fields of the tab.
Tab == [live : BOOLEAN, auto : BOOLEAN, left : Turns,
        worker : Workers \union {None}, lives : [Personas -> Workers \union {None}],
        line : Lines, turn : Personas,
        current : Workers \union {None}, queued : BOOLEAN, goalPending : BOOLEAN,
        timers : [Kinds -> Nat], failures : Nat, repeats : Repetitions,
        empties : {0, 1}, flights : Flights]

\* A worker that has ended was cancelled or has replied.
Ended(t) ==
  \A w \in DOMAIN t.flights :
    t.flights[w].running \/ t.flights[w].cancelled \/ t.flights[w].reply # "none"

\* Live and Auto-Step exclude each other, and Live has not used up its failures.
Sound(t) ==
  /\ t \in Tab
  /\ Ended(t)
  /\ ~(t.live /\ t.auto)
  /\ t.live => t.failures <= FailureBudget

\* A turn or an opportunity is scheduled.
Timed(t) == t.timers["respond"] > 0 \/ t.timers["opportunity"] > 0

\* A reply of worker w will come.
Awaited(t, w) ==
  /\ w \in DOMAIN t.flights
  /\ \/ t.flights[w].reply = "sent"
     \/ t.flights[w].reply = "none" /\ ~t.flights[w].cancelled

\* A Live session none of whose personas has a worker on record has its next turn
\* scheduled, unless the tab holds no worker or one whose reply will come.
Paced(t) == t.live /\ NoLive(t) => t.worker = None \/ Timed(t) \/ Awaited(t, t.worker)

\* LiveIsAlive, of any tab.
Alive(t) == t.live => Pending(t) \/ Jammed(t)
Fine(t) == Sound(t) /\ Paced(t) /\ Alive(t)

AllFine(outcomes) == \A o \in outcomes : Fine(o.tab)
AllKeep(outcomes, live) == \A o \in outcomes : Fine(o.tab) /\ o.tab.live = live
AllStopped(outcomes) == \A o \in outcomes : Sound(o.tab) /\ ~o.tab.live

-----------------------------------------------------------------------------

LEMMA Ranges ==
  /\ 0 \in Turns /\ Steps \in Turns /\ \A n \in Turns : n > 1 => n - 1 \in Turns
  /\ 0 \in Repetitions
  /\ \A n \in Repetitions : n < RepeatBudget => n + 1 \in Repetitions
  BY BoundsAssumption DEF Turns, Repetitions

LEMMA RosterIsALine ==
  /\ Roster \in [1..Len(Roster) -> Personas] /\ Roster # <<>>
  /\ Roster[1] \in Personas
  BY RosterAssumption

\* The persona at the head of a line, and the line after it has spoken.
LEMMA LineMoves ==
  ASSUME NEW line \in Lines, NEW p \in Personas
  PROVE  /\ line # <<>> => Head(line) \in Personas
         /\ Spoken(line, p) \in Lines
<1>1. Len(Roster) \in Nat /\ Len(Roster) > 1
  BY RosterAssumption
<1>2. CASE line = <<>>
  <2>1. DOMAIN line = {}
    BY <1>2
  <2>2. Spoken(line, p) = <<>>
    BY <2>1 DEF Spoken
  <2> QED
    BY <1>2, <2>2 DEF Lines
<1>3. CASE line # <<>>
  <2>1. line \in [1..Len(Roster) -> Personas]
    BY <1>3 DEF Lines
  <2>2. line \in Seq(Personas) /\ Len(line) = Len(Roster)
    BY <1>1, <2>1
  <2>3. Head(line) \in Personas
    BY <1>3, <2>2
  <2> DEFINE k == CHOOSE i \in DOMAIN line : line[i] = p
             moved == [i \in DOMAIN line |-> IF i < k THEN line[i]
                                             ELSE IF i = Len(line) THEN p ELSE line[i + 1]]
  <2>4. \A i \in 1..Len(Roster) : i # Len(Roster) => i + 1 \in 1..Len(Roster)
    BY <1>1
  <2>5. Spoken(line, p) = moved
    BY DEF Spoken
  <2> HIDE DEF k
  <2>6. moved \in [1..Len(Roster) -> Personas]
    BY <2>1, <2>2, <2>4
  <2> QED
    BY <2>3, <2>5, <2>6 DEF Lines
<1> QED
  BY <1>2, <1>3

\* A tab that differs from a sound one in neither its workers, its mode nor its
\* failures.
LEMMA SoundFrame ==
  ASSUME NEW t, Ended(t), NEW s \in Tab, s.flights = t.flights, ~(s.live /\ s.auto),
         s.live => s.failures <= FailureBudget
  PROVE  Sound(s)
  BY DEF Sound, Ended

\* The record of a persona's worker holds one that a reply comes from, or one
\* that jams the session.
LEMMA RecordedIsAlive ==
  ASSUME NEW t, Sound(t), ~NoLive(t)
  PROVE  Pending(t) \/ Jammed(t)
<1>1. PICK p \in Personas : t.lives[p] # None
  BY DEF NoLive
<1> DEFINE w == t.lives[p]
<1>2. CASE w \notin DOMAIN t.flights
  BY <1>1, <1>2 DEF Jammed, Dead
<1>3. CASE w \in DOMAIN t.flights
  <2>1. t.flights[w].reply \in {"none", "sent", "handled"}
    BY <1>3 DEF Sound, Tab, Flights, Flight
  <2> QED
    BY <1>3, <2>1 DEF Pending, Jammed
<1> QED
  BY <1>2, <1>3

\* So does a tab that is paced and holds a worker.
LEMMA HeldIsAlive ==
  ASSUME NEW t, Sound(t), Paced(t), t.live, t.worker # None
  PROVE  Pending(t) \/ Jammed(t)
<1>1. CASE NoLive(t)
  BY <1>1 DEF Paced, Timed, Awaited, Pending, Kinds
<1> QED
  BY <1>1, RecordedIsAlive

\* A tab that has just scheduled something is alive.
LEMMA TimerFine ==
  ASSUME NEW t, Sound(t), NEW k \in Kinds, k # "manual" \/ Paced(t)
  PROVE  /\ Fine(After(t, k))
         /\ After(t, k).live = t.live /\ After(t, k).auto = t.auto
<1> DEFINE s == After(t, k)
<1>1. t \in Tab /\ s \in Tab
  BY DEF Sound, Tab, After
<1>2. /\ s.flights = t.flights /\ s.live = t.live /\ s.auto = t.auto
      /\ s.failures = t.failures /\ s.worker = t.worker /\ s.lives = t.lives
      /\ \A x \in Kinds : x # k => s.timers[x] = t.timers[x]
  BY <1>1 DEF Tab, After
<1>3. s.timers[k] > 0
  BY <1>1, BoundsAssumption DEF Tab, After
<1>4. Pending(s)
  BY <1>3 DEF Pending
<1>5. Paced(s)
  <2> HIDE DEF s
  <2>1. CASE k = "manual"
    BY <1>2, <2>1 DEF Paced, Timed, Awaited, NoLive, Kinds
  <2>2. CASE k # "manual"
    BY <1>3, <2>2 DEF Paced, Timed, Kinds
  <2> QED
    BY <2>1, <2>2
<1> HIDE DEF s
<1> QED
  BY <1>1, <1>2, <1>4, <1>5, SoundFrame DEF Fine, Alive, Sound, s

LEMMA ContinueFine ==
  ASSUME NEW t, Sound(t)
  PROVE  Fine(Continue(t)) /\ Continue(t).live = t.live /\ Continue(t).auto = t.auto
<1>1. PICK k \in Kinds \ {"manual"} : Continue(t) = After(t, k)
  BY DEF Continue, Kinds
<1> QED
  BY <1>1, TimerFine

LEMMA ForgetSound ==
  ASSUME NEW t, Sound(t)
  PROVE  /\ Sound(Forget(t)) /\ Forget(t).live = t.live /\ Forget(t).auto = t.auto
<1>1. /\ Forget(t) \in Tab /\ Forget(t).live = t.live /\ Forget(t).auto = t.auto
      /\ Forget(t).flights = t.flights /\ Forget(t).failures = t.failures
  BY DEF Sound, Tab, Forget
<1> QED
  BY <1>1, SoundFrame DEF Sound

LEMMA StartFine ==
  ASSUME NEW t, Sound(t), NEW manual \in BOOLEAN, NEW p \in Personas, Fresh(t) # {}
  PROVE  Fine(Start(t, manual, p)) /\ Start(t, manual, p).live = t.live
<1> DEFINE w == CHOOSE x \in Fresh(t) : TRUE
           f == [by |-> p, running |-> TRUE, cancelled |-> FALSE, reply |-> "none"]
           s == Start(t, manual, p)
           flights == [x \in DOMAIN t.flights \union {w} |->
                         IF x = w THEN f ELSE t.flights[x]]
<1>1. w \in Workers
  BY DEF Fresh
<1>2. f \in Flight
  BY DEF Flight
<1>3. PICK D \in SUBSET Workers : t.flights \in [D -> Flight]
  BY DEF Sound, Tab, Flights
<1>4. flights \in [D \union {w} -> Flight]
  BY <1>2, <1>3
<1>5. flights \in Flights
  BY <1>1, <1>3, <1>4 DEF Flights
<1>6. /\ s.flights = flights /\ s.live = t.live /\ s.auto = t.auto
      /\ s.failures = t.failures /\ s.worker = w
  BY DEF Sound, Tab, Start
<1>7. s \in Tab
  <2> HIDE DEF flights, w
  <2>1. s = [t EXCEPT !.turn = p, !.worker = w, !.current = w, !.flights = flights,
                      !.lives = [t.lives EXCEPT ![p] = IF t.live /\ ~manual THEN w ELSE @]]
    BY DEF Start, w, flights
  <2>2. [t.lives EXCEPT ![p] = IF t.live /\ ~manual THEN w ELSE @]
           \in [Personas -> Workers \union {None}]
    BY <1>1 DEF Sound, Tab
  <2> HIDE DEF s
  <2> QED
    BY <1>1, <1>5, <2>1, <2>2 DEF Sound, Tab
<1>8. Sound(s)
  <2>1. \A x \in DOMAIN flights :
          flights[x].running \/ flights[x].cancelled \/ flights[x].reply # "none"
    BY DEF Sound, Ended
  <2> HIDE DEF s, flights
  <2> QED
    BY <1>6, <1>7, <2>1 DEF Sound, Ended
<1>9. Pending(s) /\ Paced(s)
  <2>1. w \in DOMAIN flights /\ flights[w].reply = "none" /\ ~flights[w].cancelled
    OBVIOUS
  <2> HIDE DEF s, flights, w
  <2> QED
    BY <1>6, <2>1 DEF Pending, Paced, Awaited
<1> QED
  BY <1>6, <1>8, <1>9 DEF Fine, Alive

LEMMA KeptIsFine ==
  ASSUME NEW outcomes, NEW live, AllKeep(outcomes, live)
  PROVE  AllFine(outcomes)
  BY DEF AllFine, AllKeep

\* A turn that is asked for begins, is put off, waits for a worker or is put back.
\* A turn for the human looks at the worker that the tab holds.
LEMMA RespondFine ==
  ASSUME NEW t, Sound(t), NEW manual \in BOOLEAN, ~manual \/ Paced(t)
  PROVE  AllKeep(Respond(t, manual), t.live)
<1> DEFINE session == (t.live \/ t.auto) /\ ~manual
           active == IF t.live /\ ~manual THEN t.lives[t.turn] ELSE t.worker
           speakers == IF session /\ NoRuntime(t) THEN Personas ELSE {t.turn}
<1> SUFFICES ASSUME NEW o \in Respond(t, manual)
             PROVE  Fine(o.tab) /\ o.tab.live = t.live
  BY DEF AllKeep
<1>0. t \in Tab /\ t.turn \in Personas
  BY DEF Sound, Tab
<1>1. ASSUME active # None, t.live
      PROVE  Paced(t) /\ Alive(t)
  <2>1. CASE manual
    BY <1>1, <2>1, HeldIsAlive DEF Alive
  <2>2. CASE ~manual
    <3>1. ~NoLive(t)
      BY <1>0, <1>1, <2>2 DEF NoLive
    <3> QED
      BY <3>1, RecordedIsAlive DEF Paced, Alive
  <2> QED
    BY <2>1, <2>2
<1>2. ASSUME active # None
      PROVE  Fine(t)
  <2>1. CASE t.live
    BY <1>1, <1>2, <2>1 DEF Fine
  <2>2. CASE ~t.live
    BY <2>2 DEF Fine, Paced, Alive
  <2> QED
    BY <1>0, <2>1, <2>2 DEF Tab
<1>3. CASE Dead(t, active)
  <2>1. o.tab = t
    BY <1>3 DEF Respond, Raised
  <2> QED
    BY <1>2, <1>3, <2>1 DEF Dead
<1>4. CASE ~Dead(t, active) /\ Running(t, active)
  <2> DEFINE s == [t EXCEPT !.queued = TRUE]
  <2>1. active # None
    BY <1>0, <1>4, WorkersAssumption DEF Running, Tab, Flights
  <2>2. o.tab = s \/ o.tab = t
    BY <1>4 DEF Respond, Ok
  <2>3. /\ s \in Tab /\ s.flights = t.flights /\ s.live = t.live /\ s.auto = t.auto
        /\ s.failures = t.failures /\ s.worker = t.worker /\ s.lives = t.lives
        /\ s.timers = t.timers
    BY <1>0 DEF Tab
  <2> HIDE DEF s, active
  <2>4. Sound(s)
    BY <2>3, SoundFrame DEF Sound
  <2>5. (Paced(t) => Paced(s)) /\ (Alive(t) => Alive(s))
    BY <2>3 DEF Paced, Timed, Awaited, NoLive, Alive, Pending, Jammed, Dead
  <2> QED
    BY <1>2, <2>1, <2>2, <2>3, <2>4, <2>5 DEF Fine
<1>5. CASE ~Dead(t, active) /\ ~Running(t, active)
  <2>1. \/ o = Ok(After(t, "respond"))
        \/ \E p \in speakers : Fresh(t) # {} /\ o = Ok(Start(t, manual, p))
    BY <1>5 DEF Respond
  <2>2. speakers \subseteq Personas
    BY <1>0
  <2>3. CASE o = Ok(After(t, "respond"))
    BY <2>3, TimerFine DEF Ok, Kinds
  <2>4. CASE \E p \in speakers : Fresh(t) # {} /\ o = Ok(Start(t, manual, p))
    BY <2>2, <2>4, StartFine DEF Ok
  <2> QED
    BY <2>1, <2>3, <2>4
<1> QED
  BY <1>3, <1>4, <1>5

LEMMA OpportunityFine ==
  ASSUME NEW t, Sound(t)
  PROVE  AllKeep(Opportunity(t), t.live)
<1> DEFINE s == NextOpportunity(t)
<1> SUFFICES ASSUME NEW o \in Opportunity(t)
             PROVE  Fine(o.tab) /\ o.tab.live = t.live
  BY DEF AllKeep
<1>1. CASE ~t.live
  <2>1. o.tab = t
    BY <1>1 DEF Opportunity, Ok
  <2> QED
    BY <1>1, <2>1 DEF Fine, Paced, Alive
<1>2. CASE t.live
  <2>1. s \in Tab /\ s.flights = t.flights /\ s.lives = t.lives
        /\ s.live = t.live /\ s.live /\ ~s.auto /\ s.failures = t.failures
        /\ s.worker = t.worker /\ s.line # <<>>
    BY <1>2, RosterIsALine DEF NextOpportunity, Sound, Tab, Lines
  <2>0. Due(s) \in Personas
    BY <2>1, LineMoves DEF Due, Tab
  <2> HIDE DEF s
  <2>2. Sound(s)
    BY <1>2, <2>1, SoundFrame DEF Sound
  <2>3. CASE \E p \in Personas : Dead(t, t.lives[p])
    <3>0. o = Raised(s)
      BY <1>2, <2>3 DEF Opportunity, s
    <3>1. o.tab = s
      BY <3>0 DEF Raised
    <3>2. ~NoLive(s)
      BY <2>1, <2>3 DEF NoLive, Dead
    <3> QED
      BY <2>1, <2>2, <3>1, <3>2, RecordedIsAlive DEF Fine, Paced, Alive
  <2>4. CASE /\ ~\E p \in Personas : Dead(t, t.lives[p])
             /\ \A p \in Personas : Running(t, t.lives[p])
    <3>0. o = Ok(s)
      BY <1>2, <2>4 DEF Opportunity, s
    <3>1. o.tab = s
      BY <3>0 DEF Ok
    <3>2. ~NoLive(s)
      <4>1. s.lives[Roster[1]] \in DOMAIN s.flights
        BY <2>1, <2>4, RosterIsALine DEF Running
      <4>2. s.lives[Roster[1]] # None
        BY <2>1, <4>1, WorkersAssumption DEF Tab, Flights
      <4> QED
        BY <4>2, RosterIsALine DEF NoLive
    <3> QED
      BY <2>1, <2>2, <3>1, <3>2, RecordedIsAlive DEF Fine, Paced, Alive
  <2>5. CASE /\ ~\E p \in Personas : Dead(t, t.lives[p])
             /\ ~\A p \in Personas : Running(t, t.lives[p])
    <3> DEFINE r == [s EXCEPT !.turn = Due(s)]
    <3>1. o \in Respond(r, FALSE)
      BY <1>2, <2>5 DEF Opportunity, s
    <3>2. r \in Tab /\ r.flights = s.flights /\ r.live = s.live /\ r.auto = s.auto
          /\ r.failures = s.failures
      BY <2>0, <2>1 DEF Tab
    <3> HIDE DEF r
    <3>3. Sound(r)
      BY <2>2, <3>2, SoundFrame DEF Sound
    <3> QED
      BY <2>1, <3>1, <3>2, <3>3, RespondFine DEF AllKeep
  <2> QED
    BY <1>2, <2>3, <2>4, <2>5
<1> QED
  BY <1>1, <1>2 DEF Sound, Tab

LEMMA CancelSound ==
  ASSUME NEW t, Sound(t), NEW w \in DOMAIN t.flights
  PROVE  Sound(Cancel(t, w)) /\ Cancel(t, w).live = t.live
<1> DEFINE f == [t.flights[w] EXCEPT !.cancelled = TRUE]
           flights == [t.flights EXCEPT ![w] = f]
           s == Cancel(t, w)
<1>1. PICK D \in SUBSET Workers : t.flights \in [D -> Flight]
  BY DEF Sound, Tab, Flights
<1>2. f \in Flight /\ f.cancelled
  BY <1>1 DEF Flight
<1>3. flights \in [D -> Flight] /\ flights[w].cancelled
      /\ \A x \in D : x # w => flights[x] = t.flights[x]
  <2> HIDE DEF f
  <2> QED
    BY <1>1, <1>2
<1>4. s = [t EXCEPT !.flights = flights]
  BY DEF Cancel
<1> HIDE DEF flights, s
<1>5. s \in Tab /\ s.flights = flights /\ s.live = t.live /\ s.auto = t.auto
      /\ s.failures = t.failures
  BY <1>1, <1>3, <1>4 DEF Sound, Tab, Flights
<1>6. \A x \in D : flights[x].running \/ flights[x].cancelled \/ flights[x].reply # "none"
  BY <1>1, <1>3 DEF Sound, Ended
<1> HIDE DEF s
<1>7. Ended(s)
  BY <1>3, <1>5, <1>6 DEF Ended
<1> QED
  BY <1>5, <1>7 DEF Sound, s

LEMMA QuietStops ==
  ASSUME NEW t, Sound(t), ~t.live
  PROVE  AllStopped(Quiet(t))
<1> DEFINE s == [t EXCEPT !.worker = None, !.lives = [p \in Personas |-> None]]
<1>1. s \in Tab /\ s.flights = t.flights /\ ~s.live
  BY DEF Sound, Tab
<1>2. Sound(s)
  BY <1>1, SoundFrame DEF Sound
<1>3. Quiet(t) = {Ok(s)}
  BY DEF Quiet
<1> HIDE DEF s
<1> QED
  BY <1>1, <1>2, <1>3 DEF AllStopped, Ok

\* _retire_worker, and what comes after it in stop_live.
LEMMA RetireStops ==
  ASSUME NEW t, Sound(t), ~t.live, NEW w, Running(t, w)
  PROVE  AllStopped(Retire(t, w)) /\ AllStopped(Then(Retire(t, w), Quiet))
<1>1. AllStopped(Retire(t, w))
  BY CancelSound DEF AllStopped, Retire, Raised, Running
<1> QED
  BY <1>1, QuietStops DEF AllStopped, Then

\* This much is known where stop_live is called over too many failures.
LEMMA StopLiveStops ==
  ASSUME NEW t \in Tab, Ended(t)
  PROVE  AllStopped(StopLive(t))
<1> DEFINE h == Halted(t)
           gone == {w \in Held(h) : Dead(h, w)}
           busy == {w \in Held(h) : Running(h, w)}
<1>1. h \in Tab /\ h.flights = t.flights /\ ~h.live /\ ~h.auto
  BY Ranges DEF Halted, Tab, Lines
<1>2. Sound(h)
  BY <1>1, SoundFrame
<1> SUFFICES ASSUME NEW o \in StopLive(t)
             PROVE  Sound(o.tab) /\ ~o.tab.live
  BY DEF AllStopped
<1>3. \/ o \in Quiet(h) \/ o = Raised(h)
      \/ \E w \in busy : o \in Then(Retire(h, w), Quiet)
  BY DEF StopLive
<1> HIDE DEF h
<1>4. CASE o \in Quiet(h)
  BY <1>1, <1>2, <1>4, QuietStops DEF AllStopped
<1>5. CASE o = Raised(h)
  BY <1>1, <1>2, <1>5 DEF Raised
<1>6. CASE \E w \in busy : o \in Then(Retire(h, w), Quiet)
  BY <1>1, <1>2, <1>6, RetireStops DEF AllStopped
<1> QED
  BY <1>3, <1>4, <1>5, <1>6

LEMMA ResumeFine ==
  ASSUME NEW t, Fine(t)
  PROVE  AllKeep(Resume(t), t.live)
<1> DEFINE s == [t EXCEPT !.worker = None]
<1>1. s \in Tab /\ s.flights = t.flights /\ s.live = t.live /\ s.auto = t.auto
      /\ s.failures = t.failures
  BY DEF Fine, Sound, Tab
<1>2. Sound(s)
  BY <1>1, SoundFrame DEF Fine, Sound
<1>3. ASSUME NEW o \in Resume(t)
      PROVE  o.tab = t \/ (t.live /\ o.tab = After(s, "opportunity"))
  BY DEF Resume, Ok
<1> HIDE DEF s
<1> QED
  BY <1>1, <1>2, <1>3, TimerFine DEF AllKeep, Fine, Kinds

-----------------------------------------------------------------------------
(* What a reply leads to. *)

LEMMA StoppedIsFine ==
  ASSUME NEW outcomes, AllStopped(outcomes)
  PROVE  AllFine(outcomes)
  BY DEF AllFine, AllStopped, Fine, Paced, Alive

LEMMA RepeatedFine ==
  ASSUME NEW t, Sound(t)
  PROVE  AllKeep(Repeated(t), t.live)
<1> DEFINE s == Forget(t)
<1>1. Sound(s) /\ s.live = t.live /\ s.auto = t.auto
  BY ForgetSound
<1>2. Fine(s) \/ t.live
  BY <1>1 DEF Fine, Paced, Alive
<1>3. Fine(Continue(s)) /\ Continue(s).live = t.live
  BY <1>1, ContinueFine
<1>4. Repeated(t) = Resume(IF t.live \/ t.auto THEN Continue(s) ELSE s)
  BY DEF Repeated
<1> HIDE DEF s
<1> QED
  BY <1>1, <1>2, <1>3, <1>4, ResumeFine

LEMMA SameDecisionFine ==
  ASSUME NEW t, Sound(t)
  PROVE  AllKeep(SameDecision(t), t.live)
<1> DEFINE c == [t EXCEPT !.repeats = IF @ < RepeatBudget THEN @ + 1 ELSE @]
           s == Forget(c)
<1>1. c \in Tab /\ c.flights = t.flights /\ c.live = t.live /\ c.auto = t.auto
      /\ c.failures = t.failures
  BY Ranges DEF Sound, Tab
<1>2. Sound(c)
  BY <1>1, SoundFrame DEF Sound
<1> HIDE DEF c
<1>3. Sound(s) /\ s.live = t.live /\ s.auto = t.auto
  BY <1>1, <1>2, ForgetSound
<1>4. \/ SameDecision(t) = Resume(Continue(s))
      \/ t.auto /\ SameDecision(t) = Then(StopLive(s), Resume)
      \/ ~t.live /\ SameDecision(t) = Resume(s)
  BY DEF SameDecision, c
<1> HIDE DEF s
<1>5. CASE SameDecision(t) = Resume(Continue(s))
  BY <1>3, <1>5, ContinueFine, ResumeFine
<1>6. CASE t.auto /\ SameDecision(t) = Then(StopLive(s), Resume)
  <2>1. AllStopped(StopLive(s))
    BY <1>3, StopLiveStops DEF Sound
  <2>2. \A o \in StopLive(s) : Fine(o.tab)
    BY <2>1 DEF AllStopped, Fine, Paced, Alive
  <2>3. ~t.live
    BY <1>6 DEF Sound
  <2>4. \A o \in StopLive(s) : o.tab.live = t.live
    BY <2>1, <2>3 DEF AllStopped, Sound, Tab
  <2> QED
    BY <1>6, <2>2, <2>4, ResumeFine DEF AllKeep, AllStopped, Then
<1>7. CASE ~t.live /\ SameDecision(t) = Resume(s)
  BY <1>3, <1>7, ResumeFine DEF Fine, Paced, Alive
<1> QED
  BY <1>4, <1>5, <1>6, <1>7

LEMMA UnreachableFine ==
  ASSUME NEW t, Sound(t)
  PROVE  /\ AllFine(Unreachable(t))
         /\ ~t.live \/ t.failures < FailureBudget => AllKeep(Unreachable(t), t.live)
<1> DEFINE s == IF t.live THEN [t EXCEPT !.failures = @ + 1] ELSE t
           Stay(x) == {Ok(Forget(x))}
<1>1. s \in Tab /\ s.flights = t.flights /\ s.live = t.live /\ s.auto = t.auto
  BY DEF Sound, Tab
<1>2. s \in Tab /\ Ended(s) /\ (~(s.live /\ s.failures > FailureBudget) => Sound(s))
  <2>1. s.live => s.failures \in Nat
    BY <1>1 DEF Tab
  <2>2. Ended(s)
    BY <1>1 DEF Sound, Ended
  <2> HIDE DEF s
  <2> QED
    BY <1>1, <2>1, <2>2, BoundsAssumption DEF Sound
<1>3. \/ /\ t.live /\ ~(t.failures < FailureBudget)
         /\ Unreachable(t) = Then(StopLive(s), Stay)
      \/ Sound(s) /\ Unreachable(t) = {Ok(Continue(Forget(s)))}
      \/ Sound(s) /\ ~s.live /\ Unreachable(t) = {Ok(Forget(s))}
  <2>1. s.live => t.failures \in Nat /\ s.failures = t.failures + 1
    BY <1>1 DEF Sound, Tab
  <2>2. \/ s.live /\ s.failures > FailureBudget /\ Unreachable(t) = Then(StopLive(s), Stay)
        \/ /\ ~(s.live /\ s.failures > FailureBudget)
           /\ \/ Unreachable(t) = {Ok(Continue(Forget(s)))}
              \/ ~s.live /\ Unreachable(t) = {Ok(Forget(s))}
    BY DEF Unreachable
  <2> HIDE DEF s, Stay
  <2>3. CASE s.live /\ s.failures > FailureBudget
             /\ Unreachable(t) = Then(StopLive(s), Stay)
    <3>1. ~(t.failures < FailureBudget)
      BY <2>1, <2>3, BoundsAssumption
    <3> QED
      BY <1>1, <2>3, <3>1
  <2> QED
    BY <1>2, <2>2, <2>3
<1> HIDE DEF s
<1>4. CASE /\ t.live /\ ~(t.failures < FailureBudget)
           /\ Unreachable(t) = Then(StopLive(s), Stay)
  <2>1. AllStopped(StopLive(s))
    BY <1>2, StopLiveStops
  <2>2. \A o \in StopLive(s) : AllStopped(Stay(o.tab))
    BY <2>1, ForgetSound DEF AllStopped, Ok
  <2>3. AllStopped(Then(StopLive(s), Stay))
    BY <2>1, <2>2 DEF AllStopped, Then
  <2> QED
    BY <1>4, <2>3, StoppedIsFine
<1>5. CASE Sound(s) /\ Unreachable(t) = {Ok(Continue(Forget(s)))}
  BY <1>1, <1>5, ForgetSound, ContinueFine DEF AllFine, AllKeep, Ok
<1>6. CASE Sound(s) /\ ~s.live /\ Unreachable(t) = {Ok(Forget(s))}
  BY <1>1, <1>6, ForgetSound DEF AllFine, AllKeep, Ok, Fine, Paced, Alive
<1> QED
  BY <1>3, <1>4, <1>5, <1>6

LEMMA MalformedFine ==
  ASSUME NEW t, Sound(t)
  PROVE  AllKeep(Malformed(t), t.live)
<1>1. Sound(Forget(t)) /\ Forget(t).live = t.live
  BY ForgetSound
<1>2. Fine(Continue(Forget(t))) /\ Continue(Forget(t)).live = t.live
  BY <1>1, ContinueFine
<1>3. \/ Malformed(t) = {Ok(Continue(Forget(t)))}
      \/ ~t.live /\ Malformed(t) = {Ok(Forget(t))}
  BY DEF Malformed
<1> QED
  BY <1>1, <1>2, <1>3 DEF AllKeep, Ok, Fine, Paced, Alive

LEMMA NextAfterIsAPersona ==
  ASSUME NEW p \in Personas
  PROVE  NextAfter(p) \in Personas
<1> DEFINE i == CHOOSE k \in DOMAIN Roster : Roster[k] = p
<1>1. \E k \in DOMAIN Roster : Roster[k] = p
  BY DEF Personas, Range
<1>2. i \in DOMAIN Roster
  BY <1>1
<1>3. NextAfter(p) = Roster[IF i = Len(Roster) THEN 1 ELSE i + 1]
  BY DEF NextAfter
<1> HIDE DEF i
<1> QED
  BY <1>2, <1>3, RosterIsALine, RosterAssumption

\* Only the limit of exchanges takes a Live session down when a turn is accepted.
LEMMA AcceptFine ==
  ASSUME NEW t, Sound(t), NEW by \in Personas
  PROVE  /\ AllFine(Accept(t, by))
         /\ ~t.live \/ ~ExchangesBounded => AllKeep(Accept(t, by), t.live)
<1> DEFINE c == [t EXCEPT !.repeats = 0, !.failures = 0, !.empties = 0,
                          !.turn = NextAfter(by),
                          !.line = Spoken(@, by)]
           s == Forget(c)
           fewer == [s EXCEPT !.left = @ - 1]
           done == [s EXCEPT !.left = 0, !.auto = FALSE]
           Chain(x) == IF NoRuntime(x) THEN Respond(x, FALSE)
                       ELSE {Ok(After(x, "opportunity"))}
<1>0. \/ s.auto /\ s.left > 1 /\ Accept(t, by) = Chain(fewer)
      \/ s.auto /\ Accept(t, by) = {Ok(done)}
      \/ s.live /\ Accept(t, by) = LimitReached(s) \union Chain(s)
      \/ ~s.live /\ Accept(t, by) = {Ok(s)}
  BY DEF Accept
<1>1. c \in Tab /\ c.flights = t.flights /\ c.live = t.live /\ c.auto = t.auto
      /\ c.failures = 0
  BY NextAfterIsAPersona, LineMoves, Ranges DEF Sound, Tab
<1>2. Sound(c)
  <2>1. 0 <= FailureBudget
    BY BoundsAssumption
  <2> HIDE DEF c
  <2> QED
    BY <1>1, <2>1, SoundFrame DEF Sound
<1> HIDE DEF c
<1>3. Sound(s) /\ s.live = t.live /\ s.auto = t.auto
  BY <1>1, <1>2, ForgetSound
<1>4. ASSUME NEW x, Sound(x)
      PROVE  AllKeep(Chain(x), x.live)
  <2>1. AllKeep(Respond(x, FALSE), x.live)
    BY <1>4, RespondFine
  <2>2. AllKeep({Ok(After(x, "opportunity"))}, x.live)
    BY <1>4, TimerFine DEF AllKeep, Ok, Kinds
  <2> QED
    BY <2>1, <2>2
<1> HIDE DEF s
<1>6. CASE s.auto /\ s.left > 1 /\ Accept(t, by) = Chain(fewer)
  <2>0. s.left - 1 \in Turns
    BY <1>3, <1>6, Ranges DEF Sound, Tab
  <2>1. fewer \in Tab /\ fewer.flights = s.flights /\ fewer.live = s.live
        /\ fewer.auto = s.auto /\ fewer.failures = s.failures
    BY <1>3, <2>0 DEF Sound, Tab
  <2>2. Sound(fewer)
    BY <1>3, <2>1, SoundFrame DEF Sound
  <2> HIDE DEF fewer, Chain
  <2> QED
    BY <1>3, <1>4, <1>6, <2>1, <2>2, KeptIsFine
<1>7. CASE s.auto /\ Accept(t, by) = {Ok(done)}
  <2>1. done \in Tab /\ done.flights = s.flights /\ done.live = s.live
        /\ ~done.auto /\ done.failures = s.failures
    BY <1>3, <1>7, Ranges DEF Sound, Tab
  <2>2. Sound(done)
    BY <1>3, <2>1, SoundFrame DEF Sound
  <2>3. ~s.live
    BY <1>3, <1>7 DEF Sound
  <2> HIDE DEF done
  <2> QED
    BY <1>3, <1>7, <2>1, <2>2, <2>3 DEF AllFine, AllKeep, Ok, Fine, Paced, Alive
<1>8. CASE s.live /\ Accept(t, by) = LimitReached(s) \union Chain(s)
  <2> HIDE DEF Chain
  <2>1. AllKeep(Chain(s), t.live) /\ AllFine(Chain(s))
    BY <1>3, <1>4, KeptIsFine
  <2>2. AllFine(LimitReached(s))
    <3>1. AllFine(StopLive(s))
      BY <1>3, StopLiveStops, StoppedIsFine DEF Sound
    <3> QED
      BY <3>1 DEF LimitReached, AllFine
  <2>3. AllFine(Accept(t, by))
    BY <1>8, <2>1, <2>2 DEF AllFine
  <2>4. ~ExchangesBounded => Accept(t, by) = Chain(s)
    BY <1>8 DEF LimitReached
  <2> QED
    BY <1>3, <1>8, <2>1, <2>3, <2>4
<1>9. CASE ~s.live /\ Accept(t, by) = {Ok(s)}
  BY <1>3, <1>9 DEF AllFine, AllKeep, Ok, Fine, Paced, Alive
<1> QED
  BY <1>0, <1>6, <1>7, <1>8, <1>9

LEMMA BlankFine ==
  ASSUME NEW t, Sound(t), NEW by \in Personas
  PROVE  AllKeep(Blank(t, by), t.live)
<1> DEFINE s == [t EXCEPT !.empties = 1]
           v == [s EXCEPT !.worker = IF ~s.live \/ NoLive(s) THEN None ELSE @]
<1>1. s \in Tab /\ s.flights = t.flights /\ s.live = t.live /\ s.auto = t.auto
      /\ s.failures = t.failures
  BY DEF Sound, Tab
<1>2. Sound(s)
  BY <1>1, SoundFrame DEF Sound
<1>3. \/ Blank(t, by) = {Ok(Continue(Forget(s)))}
      \/ Blank(t, by) = {Ok(Continue(v))}
      \/ ~s.live /\ Blank(t, by) = Accept(s, by)
  BY DEF Blank
<1> HIDE DEF s
<1>4. v \in Tab /\ v.flights = s.flights /\ v.live = s.live /\ v.auto = s.auto
      /\ v.failures = s.failures
  BY <1>1 DEF Tab
<1> HIDE DEF v
<1>5. Sound(v)
  BY <1>2, <1>4, SoundFrame DEF Sound
<1> QED
  BY <1>1, <1>2, <1>3, <1>4, <1>5, ForgetSound, ContinueFine, AcceptFine DEF AllKeep, Ok

\* _on_response_ready.  The reply of a worker is looked at when the worker has been
\* taken off the tab; only a provider that can not be reached and the limit of
\* exchanges may end the session.
LEMMA OnReplyFine ==
  ASSUME NEW t0, Sound(t0), NEW w \in DOMAIN t0.flights, NEW r \in Replies
  PROVE  /\ AllFine(OnReply(t0, w, r))
         /\ /\ r # "unreachable" \/ ~t0.live \/ t0.failures < FailureBudget
            /\ r # "turn" \/ ~t0.live \/ ~ExchangesBounded
            => AllKeep(OnReply(t0, w, r), t0.live)
<1> DEFINE by == t0.flights[w].by
           f == [t0.flights[w] EXCEPT !.reply = "handled"]
           flights == [t0.flights EXCEPT ![w] = f]
           t == [t0 EXCEPT !.flights[w].reply = "handled"]
           popped == t.lives[by]
           u == [t EXCEPT !.lives[by] = None]
           v == IF (popped # None /\ u.worker = popped)
                      \/ (u.live /\ NoLive(u))
                THEN [u EXCEPT !.worker = None] ELSE u
           g == [v EXCEPT !.goalPending = FALSE, !.empties = 0, !.repeats = 0,
                          !.worker = IF ~v.live \/ NoLive(v) THEN None ELSE @]
           q == [v EXCEPT !.queued = FALSE]
<1>1. \/ ~t.live /\ OnReply(t0, w, r) = {Ok(t)}
      \/ OnReply(t0, w, r) = {Ok(After(g, "respond"))}
      \/ ~g.live /\ OnReply(t0, w, r) = {Ok(g)}
      \/ OnReply(t0, w, r) = {Ok(After(Forget(q), "manual"))}
      \/ OnReply(t0, w, r) \in {Repeated(v), SameDecision(v), Malformed(v), Blank(v, by)}
      \/ r = "turn" /\ OnReply(t0, w, r) = Accept(v, by)
      \/ r = "unreachable" /\ OnReply(t0, w, r) = Unreachable(v)
  BY DEF OnReply, Replies
<1>2. PICK D \in SUBSET Workers : t0.flights \in [D -> Flight] /\ D = DOMAIN t0.flights
  BY DEF Sound, Tab, Flights
<1>3. f \in Flight /\ f.reply = "handled" /\ by \in Personas
  BY <1>2 DEF Flight
<1>4. /\ flights \in Flights /\ DOMAIN flights = D
      /\ \A x \in D : \/ flights[x].running \/ flights[x].cancelled
                      \/ flights[x].reply # "none"
  <2> HIDE DEF f
  <2>1. flights \in [D -> Flight] /\ flights[w] = f
        /\ \A x \in D : x # w => flights[x] = t0.flights[x]
    BY <1>2, <1>3
  <2> QED
    BY <1>2, <1>3, <2>1 DEF Sound, Ended, Flights
<1>5. t = [t0 EXCEPT !.flights = flights]
  OBVIOUS
<1> HIDE DEF flights, by
<1>6. t \in Tab /\ t.flights = flights /\ t.live = t0.live /\ t.auto = t0.auto
      /\ t.failures = t0.failures
  <2> HIDE DEF t
  <2> QED
    BY <1>4, <1>5 DEF Sound, Tab
<1> HIDE DEF t
<1>7. Sound(t)
  BY <1>2, <1>4, <1>6 DEF Sound, Ended
<1>8. u \in Tab /\ u.flights = t.flights /\ u.live = t.live /\ u.auto = t.auto
      /\ u.failures = t.failures
  <2>1. u = [t EXCEPT !.lives = [t.lives EXCEPT ![by] = None]]
    OBVIOUS
  <2>2. [t.lives EXCEPT ![by] = None] \in [Personas -> Workers \union {None}]
    BY <1>3, <1>6 DEF Tab
  <2> HIDE DEF u
  <2> QED
    BY <1>6, <2>1, <2>2 DEF Tab
<1> HIDE DEF u, popped
<1>9. /\ v \in Tab /\ v.flights = u.flights /\ v.live = u.live /\ v.auto = u.auto
      /\ v.failures = u.failures
      /\ v.live /\ NoLive(v) => v.worker = None
  BY <1>8 DEF Tab, NoLive
<1> HIDE DEF v
<1>10. Sound(v)
  BY <1>7, <1>8, <1>9, SoundFrame DEF Sound
<1>11. g \in Tab /\ g.flights = v.flights /\ g.live = v.live /\ g.auto = v.auto
       /\ g.failures = v.failures
  BY <1>9, Ranges DEF Tab
<1>12. /\ q \in Tab /\ q.flights = v.flights /\ q.live = v.live /\ q.auto = v.auto
       /\ q.failures = v.failures /\ q.worker = v.worker /\ q.lives = v.lives
  BY <1>9 DEF Tab
<1> HIDE DEF g, q
<1>13. Sound(g) /\ Sound(q)
  BY <1>10, <1>11, <1>12, SoundFrame DEF Sound
<1>14. t.live = t0.live /\ v.live = t0.live /\ g.live = t0.live /\ q.live = t0.live
       /\ v.failures = t0.failures
  BY <1>6, <1>8, <1>9, <1>11, <1>12
<1>15. CASE ~t.live /\ OnReply(t0, w, r) = {Ok(t)}
  BY <1>7, <1>14, <1>15 DEF AllFine, AllKeep, Ok, Fine, Paced, Alive
<1>16. CASE OnReply(t0, w, r) = {Ok(After(g, "respond"))}
  BY <1>13, <1>14, <1>16, TimerFine DEF AllFine, AllKeep, Ok, Kinds
<1>17. CASE ~g.live /\ OnReply(t0, w, r) = {Ok(g)}
  BY <1>13, <1>14, <1>17 DEF AllFine, AllKeep, Ok, Fine, Paced, Alive
<1>18. CASE OnReply(t0, w, r) = {Ok(After(Forget(q), "manual"))}
  <2>1. Sound(Forget(q)) /\ Forget(q).live = q.live
    BY <1>13, ForgetSound
  <2>2. Paced(Forget(q))
    BY <1>9, <1>12, <2>1 DEF Paced, Forget, NoLive
  <2> QED
    BY <1>14, <1>18, <2>1, <2>2, TimerFine DEF AllFine, AllKeep, Ok, Kinds
<1>19. CASE OnReply(t0, w, r) \in {Repeated(v), SameDecision(v), Malformed(v), Blank(v, by)}
  <2>1. AllKeep(OnReply(t0, w, r), v.live)
    BY <1>3, <1>10, <1>19, RepeatedFine, SameDecisionFine, MalformedFine, BlankFine
  <2> QED
    BY <1>14, <2>1, KeptIsFine
<1>20. CASE r = "unreachable" /\ OnReply(t0, w, r) = Unreachable(v)
  BY <1>10, <1>14, <1>20, UnreachableFine
<1>21. CASE r = "turn" /\ OnReply(t0, w, r) = Accept(v, by)
  BY <1>3, <1>10, <1>14, <1>21, AcceptFine
<1> QED
  BY <1>1, <1>15, <1>16, <1>17, <1>18, <1>19, <1>20, <1>21

-----------------------------------------------------------------------------
(* What a command leads to. *)

LEMMA LiveFine ==
  ASSUME NEW t, Sound(t)
  PROVE  AllFine(Live(t))
<1> DEFINE s == [t EXCEPT !.live = TRUE, !.auto = FALSE, !.failures = 0, !.line = Roster]
<1>1. s \in Tab /\ s.flights = t.flights /\ ~s.auto /\ s.failures = 0
  BY RosterIsALine DEF Sound, Tab, Lines
<1>2. Sound(s)
  <2>1. 0 <= FailureBudget
    BY BoundsAssumption
  <2> HIDE DEF s
  <2> QED
    BY <1>1, <2>1, SoundFrame DEF Sound
<1>3. Live(t) = Opportunity(s)
  BY DEF Live
<1> HIDE DEF s
<1> QED
  BY <1>2, <1>3, OpportunityFine, KeptIsFine

LEMMA AutoStepFine ==
  ASSUME NEW t, Sound(t)
  PROVE  AllFine(AutoStep(t))
<1> DEFINE s == [t EXCEPT !.live = FALSE, !.line = <<>>, !.failures = 0,
                          !.auto = TRUE, !.left = Steps]
<1>1. s \in Tab /\ s.flights = t.flights /\ ~s.live
  BY Ranges, BoundsAssumption DEF Sound, Tab, Lines
<1>2. Sound(s)
  BY <1>1, SoundFrame DEF Sound
<1>3. AutoStep(t) = Respond(s, FALSE)
  BY DEF AutoStep
<1> HIDE DEF s
<1> QED
  BY <1>2, <1>3, RespondFine, KeptIsFine

LEMMA SingleStepFine ==
  ASSUME NEW t, Sound(t)
  PROVE  AllFine(SingleStep(t))
<1> DEFINE Next1(s) == Respond([s EXCEPT !.auto = FALSE], FALSE)
<1>1. SingleStep(t) = Then(StopLive(t), Next1)
  BY DEF SingleStep
<1>2. ASSUME NEW s, Sound(s)
      PROVE  AllFine(Next1(s))
  <2> DEFINE x == [s EXCEPT !.auto = FALSE]
  <2>1. x \in Tab /\ x.flights = s.flights /\ ~x.auto /\ x.live = s.live
        /\ x.failures = s.failures
    BY <1>2 DEF Sound, Tab
  <2>2. Sound(x)
    BY <1>2, <2>1, SoundFrame DEF Sound
  <2> HIDE DEF x
  <2>3. AllFine(Respond(x, FALSE))
    BY <2>2, RespondFine, KeptIsFine
  <2> QED
    BY <2>3 DEF x
<1> HIDE DEF Next1
<1>3. AllFine(Then(StopLive(t), Next1))
  BY <1>2, StopLiveStops DEF AllFine, AllStopped, Then, Fine, Paced, Alive, Sound
<1> QED
  BY <1>1, <1>3 DEF Next1

LEMMA SendFine ==
  ASSUME NEW t, Fine(t), NEW p \in Personas, NEW human \in BOOLEAN
  PROVE  AllFine(Send(t, p, human))
<1> DEFINE s == [t EXCEPT !.turn = p]
<1>1. /\ s \in Tab /\ s.flights = t.flights /\ s.live = t.live /\ s.auto = t.auto
      /\ s.failures = t.failures /\ s.worker = t.worker /\ s.lives = t.lives
      /\ s.timers = t.timers
  BY DEF Fine, Sound, Tab
<1>2. Send(t, p, human) = Respond(s, human)
  BY DEF Send
<1> HIDE DEF s
<1>3. Sound(s)
  BY <1>1, SoundFrame DEF Fine, Sound
<1>4. Paced(s)
  BY <1>1 DEF Fine, Paced, Timed, Awaited, NoLive
<1> QED
  BY <1>2, <1>3, <1>4, RespondFine, KeptIsFine

LEMMA ResetFine ==
  ASSUME NEW t, Sound(t)
  PROVE  AllFine(Reset(t))
<1> DEFINE Clear(s) == {Ok([s EXCEPT !.repeats = 0, !.auto = FALSE, !.live = FALSE,
                                     !.left = 0])}
           Again(s) == IF Dead(s, s.worker) THEN {Raised(s)}
                       ELSE IF Running(s, s.worker) THEN Then(Retire(s, s.worker), Clear)
                       ELSE Clear(s)
<1>1. Reset(t) = UNION {Again(o.tab) : o \in StopLive(t)}
  BY DEF Reset
<1>2. ASSUME NEW s, Sound(s)
      PROVE  AllStopped(Clear(s))
  <2> DEFINE x == [s EXCEPT !.repeats = 0, !.auto = FALSE, !.live = FALSE, !.left = 0]
  <2>1. x \in Tab /\ x.flights = s.flights /\ ~x.live
    BY <1>2, Ranges DEF Sound, Tab
  <2>2. Sound(x)
    BY <1>2, <2>1, SoundFrame DEF Sound
  <2> HIDE DEF x
  <2>3. AllStopped({Ok(x)})
    BY <2>1, <2>2 DEF AllStopped, Ok
  <2> QED
    BY <2>3 DEF x
<1> HIDE DEF Clear
<1>3. ASSUME NEW s, Sound(s), ~s.live
      PROVE  AllStopped(Again(s))
  <2>1. AllStopped({Raised(s)})
    BY <1>3 DEF AllStopped, Raised
  <2>2. ASSUME Running(s, s.worker)
        PROVE  AllStopped(Then(Retire(s, s.worker), Clear))
    <3>1. AllStopped(Retire(s, s.worker))
      BY <1>3, <2>2, RetireStops
    <3> QED
      BY <1>2, <3>1 DEF AllStopped, Then
  <2> QED
    BY <1>2, <1>3, <2>1, <2>2
<1> HIDE DEF Again
<1>4. AllStopped(UNION {Again(o.tab) : o \in StopLive(t)})
  BY <1>3, StopLiveStops DEF AllStopped, Sound
<1> QED
  BY <1>1, <1>4, StoppedIsFine DEF Again, Clear

LEMMA CommandFine ==
  ASSUME NEW t, Fine(t)
  PROVE  AllFine(Command(t))
<1>1. /\ AllFine(ToggleLive(t)) /\ AllFine(AutoStep(t)) /\ AllFine(SingleStep(t))
      /\ AllFine(Reset(t)) /\ AllFine(StopLive(t))
      /\ \A p \in Personas, human \in BOOLEAN : AllFine(Send(t, p, human))
  BY LiveFine, StopLiveStops, StoppedIsFine, AutoStepFine, SingleStepFine, ResetFine,
     SendFine DEF ToggleLive, Fine, Sound
<1>2. AllFine(SetGoal(t))
  <2> DEFINE s == [t EXCEPT !.goalPending = TRUE]
  <2>1. /\ s \in Tab /\ s.flights = t.flights /\ s.lives = t.lives /\ s.worker = t.worker
        /\ s.timers = t.timers /\ s.queued = t.queued
        /\ s.live = t.live /\ s.auto = t.auto /\ s.failures = t.failures
    BY DEF Fine, Sound, Tab
  <2>2. Sound(s)
    BY <2>1, SoundFrame DEF Fine, Sound
  <2>3. SetGoal(t) \in {{Raised(t)}, {Ok(s)}, {Ok(t)}}
    BY DEF SetGoal
  <2> HIDE DEF s
  <2>4. (Pending(t) => Pending(s)) /\ (Jammed(t) => Jammed(s))
    BY <2>1 DEF Pending, Jammed, Dead
  <2>5. Paced(t) => Paced(s)
    BY <2>1 DEF Paced, Timed, Awaited, NoLive
  <2> QED
    BY <2>1, <2>2, <2>3, <2>4, <2>5 DEF AllFine, Fine, Alive, Raised, Ok
<1>3. AllFine(ForceForward(t))
  <2>1. AllFine(Respond(t, FALSE))
    BY RespondFine, KeptIsFine DEF Fine
  <2>2. AllFine({Ok(t)})
    BY DEF AllFine, Ok
  <2> QED
    BY <2>1, <2>2 DEF ForceForward
<1>4. ASSUME NEW o \in Command(t)
      PROVE  \/ o \in ToggleLive(t) \/ o \in AutoStep(t) \/ o \in SingleStep(t)
             \/ o \in Reset(t) \/ o \in SetGoal(t) \/ o \in ForceForward(t)
             \/ o \in StopLive(t)
             \/ \E p \in Personas, human \in BOOLEAN : o \in Send(t, p, human)
  BY DEF Command
<1> QED
  BY <1>1, <1>2, <1>3, <1>4 DEF AllFine

-----------------------------------------------------------------------------
(* The steps. *)

\* What the model forgets is neither waited for nor held.
LEMMA SettledFine ==
  ASSUME NEW t, Fine(t)
  PROVE  Fine(Settled(t)) /\ Settled(t).live = t.live
<1> DEFINE kept == {w \in DOMAIN t.flights :
                      \/ w \in Held(t)
                      \/ t.flights[w].reply = "sent"
                      \/ t.flights[w].reply = "none" /\ ~t.flights[w].cancelled}
           flights == Restrict(t.flights, kept)
           s == Settled(t)
<1>1. PICK D \in SUBSET Workers : t.flights \in [D -> Flight] /\ D = DOMAIN t.flights
  BY DEF Fine, Sound, Tab, Flights
<1>2. /\ flights \in [kept -> Flight] /\ kept \subseteq Workers
      /\ \A w \in kept : flights[w] = t.flights[w]
  BY <1>1 DEF Restrict
<1>3. flights \in Flights
  BY <1>2 DEF Flights
<1>4. s = [t EXCEPT !.flights = flights, !.current = IF @ \in kept THEN @ ELSE None,
                    !.failures = IF t.live THEN @ ELSE 0]
  BY DEF Settled
<1> HIDE DEF flights, s
<1>5. /\ s \in Tab /\ s.flights = flights /\ s.lives = t.lives /\ s.worker = t.worker
      /\ s.timers = t.timers /\ s.queued = t.queued
      /\ s.live = t.live /\ s.auto = t.auto
      /\ s.failures = IF t.live THEN t.failures ELSE 0
  BY <1>3, <1>4 DEF Fine, Sound, Tab
<1>6. Sound(s)
  BY <1>1, <1>2, <1>5 DEF Fine, Sound, Ended
<1>7. Pending(t) => Pending(s)
  BY <1>1, <1>2, <1>5 DEF Pending
<1>8. \A w \in Held(t) : w \in DOMAIN t.flights <=> w \in DOMAIN s.flights
  BY <1>1, <1>2, <1>5
<1>9. Jammed(t) => Jammed(s)
  <2>1. ASSUME NEW p \in Personas, Dead(t, t.lives[p])
        PROVE  Jammed(s)
    BY <1>5, <1>8, <2>1 DEF Jammed, Dead, Held
  <2>2. ASSUME NEW p \in Personas, t.lives[p] \in DOMAIN t.flights,
               t.flights[t.lives[p]].cancelled \/ t.flights[t.lives[p]].reply = "handled"
        PROVE  Jammed(s)
    <3>1. t.lives[p] \in Held(t)
      BY <1>1, <2>2, WorkersAssumption DEF Held
    <3> QED
      BY <1>1, <1>2, <1>5, <2>2, <3>1 DEF Jammed
  <2> QED
    BY <2>1, <2>2 DEF Jammed
<1>10. Paced(t) => Paced(s)
  <2>1. Awaited(t, t.worker) => Awaited(s, s.worker)
    BY <1>2, <1>5 DEF Awaited
  <2> QED
    BY <1>5, <2>1 DEF Paced, Timed, NoLive
<1> QED
  BY <1>5, <1>6, <1>7, <1>9, <1>10 DEF Fine, Alive, s

\* Being fine is a matter of the tab alone.
LEMMA FineNext == \A t : tab' = t /\ Fine(t) => Fine(tab)'
  BY DEF Fine, Sound, Ended, Paced, Timed, Awaited, NoLive, Alive, Pending, Jammed, Dead

LEMMA BecomesFine ==
  ASSUME NEW outcomes, AllFine(outcomes), Becomes(outcomes)
  PROVE  Fine(tab)'
<1>1. PICK o \in outcomes : tab' = Settled(o.tab)
  BY DEF Becomes
<1>2. Fine(Settled(o.tab))
  BY SettledFine DEF AllFine
<1> QED
  BY <1>1, <1>2, FineNext

\* A step that only changes what is known of one worker.
LEMMA FlightChanges ==
  ASSUME NEW t, Fine(t), NEW w \in DOMAIN t.flights, NEW f \in Flight,
         f.running \/ f.cancelled \/ f.reply # "none",
         NEW s, s = [t EXCEPT !.flights = [t.flights EXCEPT ![w] = f]],
         t.flights[w].reply = "none" \/ f.reply = t.flights[w].reply,
         f.reply # "handled" \/ t.flights[w].reply = "handled",
         f.cancelled = t.flights[w].cancelled
  PROVE  Fine(s)
<1> DEFINE flights == [t.flights EXCEPT ![w] = f]
<1>1. PICK D \in SUBSET Workers : t.flights \in [D -> Flight] /\ D = DOMAIN t.flights
  BY DEF Fine, Sound, Tab, Flights
<1>2. /\ flights \in [D -> Flight] /\ flights[w] = f
      /\ \A x \in D : x # w => flights[x] = t.flights[x]
  BY <1>1
<1> HIDE DEF flights
<1>3. /\ s \in Tab /\ s.flights = flights /\ s.lives = t.lives /\ s.worker = t.worker
      /\ s.timers = t.timers /\ s.queued = t.queued
      /\ s.live = t.live /\ s.auto = t.auto /\ s.failures = t.failures
  BY <1>1, <1>2 DEF Fine, Sound, Tab, Flights, flights
<1>4. Sound(s)
  BY <1>1, <1>2, <1>3 DEF Fine, Sound, Ended
<1>5. \A x \in D : /\ s.flights[x].cancelled = t.flights[x].cancelled
                   /\ t.flights[x].reply = "handled" => s.flights[x].reply = "handled"
  BY <1>1, <1>2, <1>3
<1>6. Pending(t) => Pending(s)
  <2>1. f.reply \in {"none", "sent", "handled"}
    BY DEF Flight
  <2> QED
    BY <1>1, <1>2, <1>3, <2>1 DEF Pending
<1>7. Jammed(t) => Jammed(s)
  <2>1. DOMAIN s.flights = D
    BY <1>2, <1>3
  <2> QED
    BY <1>1, <1>3, <1>5, <2>1 DEF Jammed, Dead
<1>8. Paced(t) => Paced(s)
  <2>1. f.reply \in {"none", "sent", "handled"}
    BY DEF Flight
  <2>2. Awaited(t, t.worker) => Awaited(s, s.worker)
    BY <1>1, <1>2, <1>3, <2>1 DEF Awaited
  <2> QED
    BY <1>3, <2>2 DEF Paced, Timed, NoLive
<1> QED
  BY <1>3, <1>4, <1>6, <1>7, <1>8 DEF Fine, Alive

LEMMA FiredSound ==
  ASSUME Fine(tab), NEW k \in Kinds, Fire(k)
  PROVE  LET t == [tab EXCEPT !.timers[k] = @ - 1]
         IN  /\ Sound(t) /\ t.live = tab.live
             /\ k = "manual" => Paced(t)
<1> DEFINE t == [tab EXCEPT !.timers[k] = @ - 1]
<1>1. /\ t \in Tab /\ t.flights = tab.flights /\ t.live = tab.live /\ t.auto = tab.auto
      /\ t.failures = tab.failures /\ t.worker = tab.worker /\ t.lives = tab.lives
      /\ \A x \in Kinds : x # k => t.timers[x] = tab.timers[x]
  <2>1. [tab.timers EXCEPT ![k] = @ - 1] \in [Kinds -> Nat]
    BY DEF Fire, Fine, Sound, Tab
  <2> QED
    BY <2>1 DEF Fine, Sound, Tab
<1>2. Sound(t)
  BY <1>1, SoundFrame DEF Fine, Sound
<1> HIDE DEF t
<1>3. k = "manual" => Paced(t)
  BY <1>1 DEF Fine, Paced, Timed, Awaited, NoLive, Kinds
<1> QED
  BY <1>1, <1>2, <1>3 DEF t

LEMMA FineIsKept ==
  ASSUME Fine(tab), [Next]_vars
  PROVE  Fine(tab)'
<1>1. CASE Press
  BY <1>1, CommandFine, BecomesFine DEF Press
<1>2. ASSUME NEW k \in Kinds, Fire(k)
      PROVE  Fine(tab)'
  <2> DEFINE t == [tab EXCEPT !.timers[k] = @ - 1]
  <2>2. Sound(t) /\ (k = "manual" => Paced(t))
    BY <1>2, FiredSound
  <2>3. Becomes(IF k = "opportunity" THEN Opportunity(t) ELSE Respond(t, k = "manual"))
    BY <1>2 DEF Fire
  <2> HIDE DEF t
  <2>4. AllFine(Opportunity(t))
    BY <2>2, OpportunityFine, KeptIsFine
  <2>5. (k = "manual") \in BOOLEAN
    OBVIOUS
  <2>6. AllFine(Respond(t, k = "manual"))
    BY <2>2, <2>5, RespondFine, KeptIsFine
  <2> QED
    BY <2>3, <2>4, <2>6, BecomesFine
<1>3. ASSUME NEW w \in Workers, NEW r \in Replies, Receive(w, r)
      PROVE  Fine(tab)'
  <2>1. AllFine(OnReply(tab, w, r)) /\ Becomes(OnReply(tab, w, r))
    BY <1>3, OnReplyFine DEF Receive, Fine
  <2> QED
    BY <2>1, BecomesFine
<1>4. ASSUME NEW w \in Workers, Answer(w)
      PROVE  Fine(tab)'
  <2> DEFINE f == [tab.flights[w] EXCEPT !.reply = "sent"]
  <2>1. w \in DOMAIN tab.flights /\ tab.flights[w] \in Flight
        /\ tab.flights[w].reply = "none"
    BY <1>4 DEF Answer, Running, Fine, Sound, Tab, Flights
  <2>2. f \in Flight /\ f.reply = "sent" /\ f.cancelled = tab.flights[w].cancelled
    BY <2>1 DEF Flight
  <2>3. tab' = [tab EXCEPT !.flights = [tab.flights EXCEPT ![w] = f]]
    BY <1>4 DEF Answer
  <2> HIDE DEF f
  <2>4. \A s : s = [tab EXCEPT !.flights = [tab.flights EXCEPT ![w] = f]] => Fine(s)
    BY <2>1, <2>2, FlightChanges
  <2> QED
    BY <2>3, <2>4, FineNext
<1>5. ASSUME NEW w \in Workers, Finish(w)
      PROVE  Fine(tab)'
  <2> DEFINE f == [tab.flights[w] EXCEPT !.running = FALSE]
  <2>1. /\ w \in DOMAIN tab.flights /\ tab.flights[w] \in Flight
        /\ tab.flights[w].cancelled \/ tab.flights[w].reply # "none"
    BY <1>5 DEF Finish, Running, Fine, Sound, Tab, Flights
  <2>2. /\ f \in Flight /\ f.reply = tab.flights[w].reply
        /\ f.cancelled = tab.flights[w].cancelled
    BY <2>1 DEF Flight
  <2>3. tab' = [tab EXCEPT !.flights = [tab.flights EXCEPT ![w] = f]]
    BY <1>5 DEF Finish
  <2> HIDE DEF f
  <2>4. \A s : s = [tab EXCEPT !.flights = [tab.flights EXCEPT ![w] = f]] => Fine(s)
    BY <2>1, <2>2, FlightChanges
  <2> QED
    BY <2>3, <2>4, FineNext

<1>6. ASSUME NEW w \in Workers, Delete(w)
      PROVE  Fine(tab)'
  <2> DEFINE flights == Restrict(tab.flights, DOMAIN tab.flights \ {w})
             s == [tab EXCEPT !.flights = flights]
  <2>1. PICK D \in SUBSET Workers : tab.flights \in [D -> Flight] /\ D = DOMAIN tab.flights
    BY DEF Fine, Sound, Tab, Flights
  <2>2. /\ flights \in [D \ {w} -> Flight]
        /\ \A x \in D \ {w} : flights[x] = tab.flights[x]
    BY <2>1 DEF Restrict
  <2>3. w \in D /\ ~tab.flights[w].running /\ tab.flights[w].reply # "sent"
    BY <1>6, <2>1 DEF Delete, Running
  <2>4. tab' = s
    BY <1>6 DEF Delete
  <2> HIDE DEF flights
  <2>5. /\ s \in Tab /\ s.flights = flights /\ s.lives = tab.lives
        /\ s.worker = tab.worker /\ s.timers = tab.timers /\ s.queued = tab.queued
        /\ s.live = tab.live /\ s.auto = tab.auto /\ s.failures = tab.failures
    BY <2>1, <2>2 DEF Fine, Sound, Tab, Flights
  <2> HIDE DEF s
  <2>6. Sound(s)
    BY <2>1, <2>2, <2>5 DEF Fine, Sound, Ended
  <2>7. Pending(tab) => Pending(s)
    <3>1. ~(tab.flights[w].reply = "none" /\ ~tab.flights[w].cancelled)
      BY <2>1, <2>3 DEF Fine, Sound, Ended
    <3> QED
      BY <2>1, <2>2, <2>3, <2>5, <3>1 DEF Pending
  <2>8. Jammed(tab) => Jammed(s)
    <3>1. DOMAIN s.flights = D \ {w}
      BY <2>2, <2>5
    <3>2. \A p \in Personas : tab.lives[p] = w => Jammed(s)
      BY <2>1, <2>3, <2>5, <3>1, WorkersAssumption DEF Jammed, Dead
    <3> QED
      BY <2>1, <2>2, <2>5, <3>1, <3>2 DEF Jammed, Dead
  <2>9. Paced(tab) => Paced(s)
    <3>1. ~Awaited(tab, w)
      BY <2>1, <2>3 DEF Fine, Sound, Ended, Awaited
    <3>2. Awaited(tab, tab.worker) => Awaited(s, s.worker)
      BY <2>1, <2>2, <2>5, <3>1 DEF Awaited
    <3> QED
      BY <2>5, <3>2 DEF Paced, Timed, NoLive
  <2>10. Fine(s)
    BY <2>5, <2>6, <2>7, <2>8, <2>9 DEF Fine, Alive
  <2> QED
    BY <2>4, <2>10, FineNext
<1>7. CASE UNCHANGED vars
  BY <1>7, FineNext DEF vars
<1> QED
  BY <1>1, <1>2, <1>3, <1>4, <1>5, <1>6, <1>7 DEF Next, Progress

LEMMA FineAtFirst == Init => Fine(tab)
<1>1. Idle \in Tab /\ ~Idle.live /\ ~Idle.auto /\ Idle.flights = [w \in {} |-> 0]
  <2>1. [w \in {} |-> 0] \in [{} -> Flight]
    OBVIOUS
  <2>2. [w \in {} |-> 0] \in Flights
    BY <2>1 DEF Flights
  <2> HIDE DEF Flights
  <2> QED
    BY <2>2, RosterIsALine, Ranges DEF Idle, Tab, Lines
<1>2. Fine(Idle)
  BY <1>1 DEF Fine, Sound, Ended, Paced, Alive
<1>3. AllFine(Live(Idle))
  BY <1>2, LiveFine DEF Fine
<1> QED
  BY <1>2, <1>3 DEF Init, AllFine

LEMMA FineAlways == Spec => []Fine(tab)
<1>1. Fine(tab) /\ [Next]_vars => Fine(tab)'
  BY FineIsKept
<1> QED
  BY <1>1, FineAtFirst, PTL DEF Spec

\* The tab and its workers keep their types, and its counters their bounds,
\* whatever is pressed and comes back.
THEOREM DialogueTypeCorrect == Spec => [](tab \in Tab)
<1>1. Fine(tab) => tab \in Tab
  BY DEF Fine, Sound
<1> QED
  BY <1>1, FineAlways, PTL

\* A Live session with nothing scheduled has a persona's worker on record from which
\* nothing more will come, left there by an interrupted stop_live or by a reply that
\* was dropped after Auto-Step: no reply, retry, new goal, rate gate, human turn or
\* late callback ends it alone (_on_response_ready, _schedule_live_continuation).
THEOREM LiveStaysAlive == Spec => []LiveIsAlive
<1>1. Fine(tab) => LiveIsAlive
  BY DEF Fine, Alive, LiveIsAlive
<1> QED
  BY <1>1, FineAlways, PTL

\* The safety half of LiveGivesUp: a Live session that goes on has had no more
\* unreachable replies in a row than its budget; the next one ends it
\* (_record_live_failure).
THEOREM FailuresAreBounded == Spec => [](tab.live => tab.failures <= FailureBudget)
<1>1. Fine(tab) => (tab.live => tab.failures <= FailureBudget)
  BY DEF Fine, Sound
<1> QED
  BY <1>1, FineAlways, PTL

\* What a step that waits for its turn makes of a session.
LEMMA BecomesKeeps ==
  ASSUME NEW outcomes, NEW live, AllKeep(outcomes, live), Becomes(outcomes)
  PROVE  tab'.live = live
<1>1. PICK o \in outcomes : tab' = Settled(o.tab)
  BY DEF Becomes
<1> QED
  BY <1>1, SettledFine DEF AllKeep

\* The transport failures of a session are used up, and its provider could not be
\* reached once more (_record_live_failure).
GaveUp ==
  tab.failures >= FailureBudget /\ \E w \in Workers : Receive(w, "unreachable")

\* A turn is accepted, and the history may have become as long as the limit of
\* exchanges (_on_response_ready).
MayReachLimit == ExchangesBounded /\ \E w \in Workers : Receive(w, "turn")

\* No reply and no late callback starts a Live session; one ends it only with the
\* failure that is one too many, or with a turn accepted when exchanges are limited
\* (_record_live_failure, _on_response_ready, _resume_live_if_running).  Otherwise the
\* flag changes by a command of the operator.
THEOREM SessionsAreCommanded ==
  Spec => [][\/ tab'.live = tab.live
             \/ Press
             \/ tab.live /\ (GaveUp \/ MayReachLimit)]_vars
<1>1. Fine(tab) /\ [Next]_vars =>
         [\/ tab'.live = tab.live
          \/ Press
          \/ tab.live /\ (GaveUp \/ MayReachLimit)]_vars
  <2> SUFFICES ASSUME Fine(tab), Next, ~Press, ~(tab.live /\ (GaveUp \/ MayReachLimit))
               PROVE  tab'.live = tab.live
    OBVIOUS
  <2>1. ASSUME NEW k \in Kinds, Fire(k)
        PROVE  tab'.live = tab.live
    <3> DEFINE t == [tab EXCEPT !.timers[k] = @ - 1]
    <3>1. Sound(t) /\ t.live = tab.live /\ (k = "manual" => Paced(t))
      BY <2>1, FiredSound
    <3>2. Becomes(IF k = "opportunity" THEN Opportunity(t) ELSE Respond(t, k = "manual"))
      BY <2>1 DEF Fire
    <3> HIDE DEF t
    <3>3. (k = "manual") \in BOOLEAN
      OBVIOUS
    <3>4. AllKeep(Opportunity(t), t.live) /\ AllKeep(Respond(t, k = "manual"), t.live)
      BY <3>1, <3>3, OpportunityFine, RespondFine
    <3> QED
      BY <3>1, <3>2, <3>4, BecomesKeeps
  <2>2. ASSUME NEW w \in Workers, NEW r \in Replies, Receive(w, r)
        PROVE  tab'.live = tab.live
    <3>1. r # "unreachable" \/ ~tab.live \/ tab.failures < FailureBudget
      <4>1. tab.failures \in Nat
        BY DEF Fine, Sound, Tab
      <4>2. r = "unreachable" /\ tab.live => ~(tab.failures >= FailureBudget)
        BY <2>2 DEF GaveUp
      <4> QED
        BY <4>1, <4>2, BoundsAssumption
    <3>2. r # "turn" \/ ~tab.live \/ ~ExchangesBounded
      BY <2>2 DEF MayReachLimit
    <3>3. AllKeep(OnReply(tab, w, r), tab.live) /\ Becomes(OnReply(tab, w, r))
      BY <2>2, <3>1, <3>2, OnReplyFine DEF Receive, Fine
    <3> QED
      BY <3>3, BecomesKeeps
  <2>3. ASSUME NEW w \in Workers, Answer(w) \/ Finish(w) \/ Delete(w)
        PROVE  tab'.live = tab.live
    BY <2>3 DEF Answer, Finish, Delete, Fine, Sound, Tab
  <2> QED
    BY <2>1, <2>2, <2>3 DEF Next, Progress
<1> QED
  BY <1>1, FineAlways, PTL DEF Spec

=============================================================================
