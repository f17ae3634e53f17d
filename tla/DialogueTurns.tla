---------------------------- MODULE DialogueTurns ----------------------------
(***************************************************************************)
(* The dialogue of the personas (gui/tabs/dialogue_tab.py): the tab's      *)
(* handlers run one at a time on the interface thread, a turn is generated *)
(* by a DialogueWorker on a thread of its own, and its reply, the end of   *)
(* the thread and the deletion of the worker reach the tab as events.  The *)
(* tab is a record, and a handler maps it to the set of outcomes it can    *)
(* have; an outcome with ok = FALSE was left by an exception.              *)
(***************************************************************************)
EXTENDS Naturals, Sequences, FiniteSets, Functions

CONSTANTS Roster,         \* _speakers: the personas, in order
          Workers,        \* identities of workers, used again once forgotten
          Steps,          \* turns of an Auto-Step pass, _max_auto_steps
          FailureBudget,  \* _LIVE_TRANSPORT_FAILURE_BUDGET
          RepeatBudget,   \* budget of a repeated decision
          ExchangesBounded,\* is DIALOGUE_MAX_EXCHANGES set
          MaxTimers,      \* bound: callbacks of a kind waiting at a time
          MaxPresses      \* bound: what the operator does in a behaviour

None == 0  \* no worker
Personas == Range(Roster)

ASSUME RosterAssumption ==
    /\ Roster \in Seq(Personas) /\ Len(Roster) > 1
    /\ \A i, j \in DOMAIN Roster : Roster[i] = Roster[j] => i = j
ASSUME WorkersAssumption == None \notin Workers
ASSUME BoundsAssumption ==
    /\ Steps \in Nat /\ FailureBudget \in Nat /\ RepeatBudget \in Nat
    /\ MaxTimers \in Nat \ {0}
    /\ ExchangesBounded \in BOOLEAN

VARIABLES tab,      \* the state of the tab and of the workers it has started
          presses   \* operator commands so far
vars == <<tab, presses>>

Kinds == {"respond", "manual", "opportunity"}
\* What a reply is to the tab: a new turn, the text of an earlier one, an
\* earlier decision in other words, and three ways not to be a turn.
Replies == {"turn", "repeat", "same_decision", "malformed", "empty", "unreachable"}

Ok(t) == [tab |-> t, ok |-> TRUE]
Raised(t) == [tab |-> t, ok |-> FALSE]
\* The outcomes of handler Op run after those of a first one.
Then(outcomes, Op(_)) ==
    UNION {IF o.ok THEN Op(o.tab) ELSE {o} : o \in outcomes}

\* A worker the tab still names but Qt has deleted: a call on it raises.
Dead(t, w) == w # None /\ w \notin DOMAIN t.flights
Running(t, w) == w \in DOMAIN t.flights /\ t.flights[w].running
NoLive(t) == \A p \in Personas : t.lives[p] = None
Held(t) == ({t.worker} \union {t.lives[p] : p \in Personas}) \ {None}

After(t, kind) ==
    [t EXCEPT !.timers[kind] = IF @ < MaxTimers THEN @ + 1 ELSE @]
Continue(t) == After(t, IF t.live THEN "opportunity" ELSE "respond")
\* Every branch of the reply handler that does not accept forgets the worker,
\* outside Live.
Forget(t) == IF t.live THEN t ELSE [t EXCEPT !.worker = None]

\* The next speaker in the order of the roster, round and round.
NextAfter(p) == LET i == CHOOSE k \in DOMAIN Roster : Roster[k] = p
                IN  Roster[IF i = Len(Roster) THEN 1 ELSE i + 1]

\* The attention of the runtime's agents as a line: a turn sets the attention of
\* who spoke to zero and raises that of everybody else by the same amount, so who
\* has the most is who has been silent longest, in the order of the roster at
\* first.  The line is empty while there is no runtime.
NoRuntime(t) == t.line = <<>>
Due(t) == Head(t.line)
Spoken(line, p) ==
    LET k == CHOOSE i \in DOMAIN line : line[i] = p
    IN  [i \in DOMAIN line |-> IF i < k THEN line[i]
                               ELSE IF i = Len(line) THEN p ELSE line[i + 1]]

-----------------------------------------------------------------------------
(* Stopping. *)

Cancel(t, w) == [t EXCEPT !.flights[w].cancelled = TRUE]
Halted(t) == [t EXCEPT !.current = None, !.live = FALSE, !.auto = FALSE,
                       !.left = 0, !.line = <<>>]

\* _retire_worker calls itself: a running worker is cancelled, and then the
\* recursion ends in an exception the method does not catch.
Retire(t, w) == {Raised(Cancel(t, w))}

\* The last lines of stop_live: the tab holds no worker any more.
Quiet(t) == {Ok([t EXCEPT !.worker = None, !.lives = [p \in Personas |-> None]])}

\* stop_live.  A held worker that runs is retired; one that Qt has deleted
\* raises at isRunning().
StopLive(t) ==
    LET h == Halted(t)
        gone == {w \in Held(h) : Dead(h, w)}
        busy == {w \in Held(h) : Running(h, w)}
    IN  IF h.worker \in gone THEN {Raised(h)}
        ELSE IF h.worker \in busy THEN Then(Retire(h, h.worker), Quiet)
        ELSE IF gone \union busy = {} THEN Quiet(h)
        ELSE {Raised(h) : w \in gone}
                \union UNION {Then(Retire(h, w), Quiet) : w \in busy}

-----------------------------------------------------------------------------
(* Starting a turn. *)

Fresh(t) == Workers \ (DOMAIN t.flights \union Held(t) \union {t.current})

Start(t, manual, p) ==
    LET w == CHOOSE x \in Fresh(t) : TRUE
        flight == [by |-> p, running |-> TRUE, cancelled |-> FALSE,
                   reply |-> "none"]
    IN  [t EXCEPT !.turn = p, !.worker = w, !.current = w,
                  !.flights = [x \in DOMAIN @ \union {w} |->
                                 IF x = w THEN flight ELSE @[x]],
                  !.lives[p] = IF t.live /\ ~manual THEN w ELSE @]

\* respond: nothing while the worker it looks at runs; a turn of a session may
\* be put off by the rate gate.
Respond(t, manual) ==
    LET session == (t.live \/ t.auto) /\ ~manual
        active == IF t.live /\ ~manual THEN t.lives[t.turn] ELSE t.worker
        speakers == IF session /\ NoRuntime(t) THEN Personas ELSE {t.turn}
    IN  IF Dead(t, active) THEN {Raised(t)}
        ELSE IF Running(t, active)
             THEN {Ok(IF manual THEN [t EXCEPT !.queued = TRUE] ELSE t)}
        ELSE {Ok(After(t, "respond")) : x \in {y \in {1} : session}}
             \union {Ok(Start(t, manual, p)) :
                       p \in {q \in speakers : Fresh(t) # {}}}

SlipNextOpportunity(t) ==
    [t EXCEPT !.line = IF @ = <<>> THEN Roster ELSE @, !.failures = 0]
\* A Live session without a runtime makes one.
NextOpportunity(t) == [t EXCEPT !.line = IF @ = <<>> THEN Roster ELSE @]

\* _start_live_opportunity.  The runtime picks the persona that is due; the call
\* for another one, made when the first has started, picks the same one again and
\* returns at its running worker.
Opportunity(t) ==
    IF ~t.live THEN {Ok(t)}
    ELSE LET s == NextOpportunity(t)
         IN  IF \E p \in Personas : Dead(t, t.lives[p]) THEN {Raised(s)}
             ELSE IF \A p \in Personas : Running(t, t.lives[p]) THEN {Ok(s)}
             ELSE Respond([s EXCEPT !.turn = Due(s)], FALSE)

\* _resume_live_if_running
Resume(t) ==
    {Ok(IF t.live /\ NoLive(t)
        THEN After([t EXCEPT !.worker = None], "opportunity") ELSE t)}

-----------------------------------------------------------------------------
(* A reply, by what it is to the tab: _on_response_ready. *)

Repeated(t) == Resume(IF t.live \/ t.auto THEN Continue(Forget(t)) ELSE Forget(t))

SameDecision(t) ==
    LET s == Forget([t EXCEPT !.repeats = IF @ < RepeatBudget THEN @ + 1 ELSE @])
    IN  IF t.live \/ (t.repeats < RepeatBudget /\ t.auto) THEN Resume(Continue(s))
        ELSE IF t.auto THEN Then(StopLive(s), Resume)
        ELSE Resume(s)

\* _record_live_failure, and the retry three seconds later
Unreachable(t) ==
    LET s == IF t.live THEN [t EXCEPT !.failures = @ + 1] ELSE t
        Stay(x) == {Ok(Forget(x))}
    IN  IF s.live /\ s.failures > FailureBudget THEN Then(StopLive(s), Stay)
        ELSE {Ok(IF s.live \/ s.auto THEN Continue(Forget(s)) ELSE Forget(s))}

SlipMalformed(t) ==
    {Ok(IF t.auto THEN Continue(Forget(t)) ELSE Forget(t))}
Malformed(t) ==
    {Ok(IF t.live \/ t.auto THEN Continue(Forget(t)) ELSE Forget(t))}

\* Whether the history has become as long as the limit is a choice: system
\* messages count as well.
LimitReached(t) == IF ExchangesBounded THEN StopLive(t) ELSE {}

Accept(t, by) ==
    LET s == Forget([t EXCEPT !.repeats = 0, !.failures = 0, !.empties = 0,
                              !.turn = NextAfter(by),
                              !.line = Spoken(@, by)])
        Chain(x) == IF NoRuntime(x) THEN Respond(x, FALSE)
                    ELSE {Ok(After(x, "opportunity"))}
    IN  IF s.auto /\ s.left > 1 THEN Chain([s EXCEPT !.left = @ - 1])
        ELSE IF s.auto /\ s.left = 1
             THEN {Ok([s EXCEPT !.left = 0, !.auto = FALSE])}
        ELSE IF s.live THEN LimitReached(s) \union Chain(s)
        ELSE {Ok(s)}

\* The first blank reply is retried in any mode; later ones only in a session,
\* and outside one a placeholder is appended in the persona's name.
Blank(t, by) ==
    LET s == [t EXCEPT !.empties = 1]
    IN  IF t.empties = 0 THEN {Ok(Continue(Forget(s)))}
        ELSE IF s.live \/ s.auto
             THEN {Ok(Continue([s EXCEPT !.worker =
                                  IF ~s.live \/ NoLive(s) THEN None ELSE @]))}
        ELSE Accept(s, by)

\* What comes before the reply is looked at: a stale one is dropped unless
\* Live runs; a new goal, or a message that waits for its turn, takes its place.
OnReply(t0, w, r) ==
    LET by == t0.flights[w].by
        t == [t0 EXCEPT !.flights[w].reply = "handled"]
        popped == t.lives[by]
        u == [t EXCEPT !.lives[by] = None]
        v == IF (popped # None /\ u.worker = popped)
                   \/ (u.live /\ NoLive(u))
             THEN [u EXCEPT !.worker = None] ELSE u
        g == [v EXCEPT !.goalPending = FALSE, !.empties = 0, !.repeats = 0,
                       !.worker = IF ~v.live \/ NoLive(v) THEN None ELSE @]
    IN  IF w # t.current /\ ~t.live THEN {Ok(t)}
        ELSE IF v.goalPending
             THEN {Ok(IF g.live \/ g.auto THEN After(g, "respond") ELSE g)}
        ELSE IF v.queued
             THEN {Ok(After(Forget([v EXCEPT !.queued = FALSE]), "manual"))}
        ELSE CASE r = "repeat" -> Repeated(v)
               [] r = "same_decision" -> SameDecision(v)
               [] r = "unreachable" -> Unreachable(v)
               [] r = "malformed" -> Malformed(v)
               [] r = "empty" -> Blank(v, by)
               [] r = "turn" -> Accept(v, by)

-----------------------------------------------------------------------------
(* The operator's commands. *)

Live(t) == Opportunity([t EXCEPT !.live = TRUE, !.auto = FALSE, !.failures = 0,
                                 !.line = Roster])
ToggleLive(t) == IF t.live THEN StopLive(t) ELSE Live(t)

AutoStep(t) == Respond([t EXCEPT !.live = FALSE, !.line = <<>>, !.failures = 0,
                                 !.auto = TRUE, !.left = Steps], FALSE)

SingleStep(t) == LET Next1(s) == Respond([s EXCEPT !.auto = FALSE], FALSE)
                 IN  Then(StopLive(t), Next1)

\* on_send: the human names the persona to answer; a message sent in a
\* persona's name hands the turn on.
Send(t, p, human) == Respond([t EXCEPT !.turn = p], human)

\* reset_dialogue catches what stop_live raises, then looks at the worker again.
Reset(t) ==
    LET Clear(s) == {Ok([s EXCEPT !.repeats = 0, !.auto = FALSE, !.live = FALSE,
                                  !.left = 0])}
        Again(s) == IF Dead(s, s.worker) THEN {Raised(s)}
                    ELSE IF Running(s, s.worker) THEN Then(Retire(s, s.worker), Clear)
                    ELSE Clear(s)
    IN  UNION {Again(o.tab) : o \in StopLive(t)}

SetGoal(t) ==
    {IF Dead(t, t.worker) THEN Raised(t)
     ELSE Ok(IF Running(t, t.worker) THEN [t EXCEPT !.goalPending = TRUE] ELSE t)}

ForceForward(t) == IF t.auto THEN Respond(t, FALSE) ELSE {Ok(t)}

Command(t) ==
    UNION ({ToggleLive(t), AutoStep(t), SingleStep(t), Reset(t), SetGoal(t),
            ForceForward(t), StopLive(t)}
           \union {Send(t, p, human) : p \in Personas, human \in BOOLEAN})

-----------------------------------------------------------------------------
(* The specification. *)

Idle == [live |-> FALSE, auto |-> FALSE, left |-> 0, worker |-> None,
         lives |-> [p \in Personas |-> None], line |-> <<>>,
         turn |-> Roster[1], current |-> None, queued |-> FALSE,
         goalPending |-> FALSE, timers |-> [k \in Kinds |-> 0],
         failures |-> 0, repeats |-> 0, empties |-> 0,
         flights |-> [w \in {} |-> 0]]

\* The tab as it is built, or with Live just started.
Init ==
    /\ tab \in {Idle} \union {o.tab : o \in Live(Idle)}
    /\ presses = 0

\* A worker nobody holds, with no reply to come, has no effect any more: the
\* model forgets it, so that its identity can be used again.
Settled(t) ==
    LET kept == {w \in DOMAIN t.flights :
                   \/ w \in Held(t)
                   \/ t.flights[w].reply = "sent"
                   \/ t.flights[w].reply = "none" /\ ~t.flights[w].cancelled}
    IN  [t EXCEPT !.flights = Restrict(@, kept),
                  !.current = IF @ \in kept THEN @ ELSE None,
                  !.failures = IF t.live THEN @ ELSE 0]
Becomes(outcomes) == \E o \in outcomes : tab' = Settled(o.tab)

Press ==
    /\ presses < MaxPresses
    /\ Becomes(Command(tab))
    /\ presses' = presses + 1

Fire(k) ==
    /\ tab.timers[k] > 0
    /\ LET t == [tab EXCEPT !.timers[k] = @ - 1]
       IN  Becomes(IF k = "opportunity" THEN Opportunity(t)
                   ELSE Respond(t, k = "manual"))
    /\ UNCHANGED presses

Receive(w, r) ==
    /\ w \in DOMAIN tab.flights /\ tab.flights[w].reply = "sent"
    /\ Becomes(OnReply(tab, w, r))
    /\ UNCHANGED presses

\* DialogueWorker.run: a cancelled worker returns without a reply.
Answer(w) ==
    /\ Running(tab, w) /\ ~tab.flights[w].cancelled /\ tab.flights[w].reply = "none"
    /\ tab' = [tab EXCEPT !.flights[w].reply = "sent"]
    /\ UNCHANGED presses

Finish(w) ==
    /\ Running(tab, w)
    /\ tab.flights[w].cancelled \/ tab.flights[w].reply # "none"
    /\ tab' = [tab EXCEPT !.flights[w].running = FALSE]
    /\ UNCHANGED presses

\* finished is connected to deleteLater; it comes after the reply.
Delete(w) ==
    /\ w \in DOMAIN tab.flights /\ ~Running(tab, w)
    /\ tab.flights[w].reply # "sent"
    /\ tab' = [tab EXCEPT !.flights = Restrict(@, DOMAIN @ \ {w})]
    /\ UNCHANGED presses

Progress ==
    \/ \E k \in Kinds : Fire(k)
    \/ \E w \in Workers, r \in Replies : Receive(w, r)
    \/ \E w \in Workers : Answer(w) \/ Finish(w) \/ Delete(w)

Next == Press \/ Progress

\* What has been started or posted goes on, in any order; the operator and the
\* provider owe nothing.
Spec == Init /\ [][Next]_vars /\ WF_vars(Progress)
=============================================================================
