---------------------------- MODULE Collaboration ----------------------------
(***************************************************************************)
(* The handoff between the two brains (agents/cognition/coordinator.py) on *)
(* the event bus (agents/core/comms.py), with the Stop button of the       *)
(* Collaboration tab.                                                      *)
(*                                                                         *)
(* A run is one call of collaborate, on its worker thread; the tab starts  *)
(* the next when the last has ended.  Its messages share a correlation and *)
(* are delivered, handler by handler, inside publish.  Stop runs on the    *)
(* interface thread in three steps: it reads which run is active, marks    *)
(* it, and asks the bus for its token.  The bus keeps the last 5000 of     *)
(* everything: messages of others may push out the edges of a run, and     *)
(* never its tokens, because only runs have tokens and a run has few.      *)
(***************************************************************************)
EXTENDS Naturals

CONSTANTS
  MaxRuns,     \* bound on the runs of one behaviour
  Handlers     \* number of the bus's subscribers

ASSUME CollaborationAssumption == MaxRuns \in Nat \ {0} /\ Handlers \in Nat \ {0}

Runs == 1 .. MaxRuns
Stages == 1 .. 4      \* plan, research, review, execute
Role(stage) == IF stage \in {1, 3} THEN "big" ELSE "small"    \* STAGE_ROLES

VARIABLES
  run,      \* the latest run, 0 before the first
  at,       \* what collaborate does in it, "ended" between runs
  stage,    \* the stage it is in
  worked,   \* has the model answered in this stage
  message,  \* kind of the message in delivery
  next,     \* handler it comes to next
  edges,    \* _edges of the run: roles a request has gone to
  outcome,   \* of each run
  token,    \* is the run's token cancelled
  active,   \* _active_run_id, 0 for none
  stop,     \* the Stop in progress: its step and the run it has read
  seen,     \* observation: <<kind, stage, handler>> delivered in this run
  late      \* observation: what began in this run after its token was cancelled

busVars == <<message, next, edges, seen>>
stopVars == <<active, stop>>
handoffVars == <<run, at, stage, worked, busVars, outcome, token, stopVars, late>>

Kinds == {"request", "result", "error", "update"}
NothingLate == [kind \in {"call", "handler"} |-> 0]
NoStop == [step |-> "none", of |-> 0]

\* A model call or a handler begins.
Begins(kind) == late' = IF token[run] THEN [late EXCEPT ![kind] = @ + 1] ELSE late

-----------------------------------------------------------------------------
(* The bus. *)

\* Which checks refuse a request: its edge has been used in the correlation.
\* Source and parents never add a ban: every request comes from the
\* coordinator, which no request goes to, and has no parent.
Accepted(to) == to \notin edges

Send(kind) == message' = kind /\ next' = 1

SlipRetryRefused ==
  /\ at = "request"
  /\ IF Accepted(Role(stage))
     THEN Send("request") /\ edges' = edges \cup {Role(stage)} /\ at' = "delivery"
     ELSE Send("error") /\ UNCHANGED <<edges, at>>
  /\ UNCHANGED <<run, stage, worked, seen, outcome, token, stopVars, late>>
\* The request of a stage: refused, it turns into an error message.
PublishRequest ==
  /\ at = "request"
  /\ IF Accepted(Role(stage))
     THEN Send("request") /\ edges' = edges \cup {Role(stage)}
     ELSE Send("error") /\ UNCHANGED edges
  /\ at' = "delivery"
  /\ UNCHANGED <<run, stage, worked, seen, outcome, token, stopVars, late>>

\* What is never checked for loops.
Publish(kind) == Send(kind) /\ UNCHANGED <<edges, seen>>

SlipTokenOfCorrelation(kind) == token[run]
\* _is_cancelled: updates and errors carry no token.
Dropped(kind) == kind \in {"request", "result"} /\ token[run]

\* Where collaborate goes on when publish has returned.
Returned(kind) ==
  CASE kind \in {"request", "error"} -> "model"
    [] kind = "result" -> IF worked THEN "next" ELSE "failed"
    [] kind = "update" -> "end"

\* _deliver asks for the token before each handler ...
Deliver ==
  /\ at = "delivery"
  /\ at' = IF Dropped(message) \/ next > Handlers THEN Returned(message) ELSE "handler"
  /\ UNCHANGED <<run, stage, worked, busVars, outcome, token, stopVars, late>>

\* ... and then calls it.
Handle ==
  /\ at = "handler"
  /\ seen' = seen \cup {<<message, stage, next>>}
  /\ IF message \in {"request", "result"} THEN Begins("handler") ELSE UNCHANGED late
  /\ next' = next + 1 /\ at' = "delivery"
  /\ UNCHANGED <<run, stage, worked, message, edges, outcome, token, stopVars>>

\* Messages of others push the oldest edges out.
Forget ==
  /\ edges # {}
  /\ edges' = {}
  /\ UNCHANGED <<run, at, stage, worked, message, next, seen, outcome, token,
                 stopVars, late>>

-----------------------------------------------------------------------------
(* collaborate. *)

Start ==
  /\ at = "ended" /\ run < MaxRuns
  /\ run' = run + 1 /\ active' = run + 1
  /\ at' = "next" /\ stage' = 0 /\ worked' = FALSE
  /\ edges' = {} /\ seen' = {} /\ late' = NothingLate
  /\ UNCHANGED <<message, next, outcome, token, stop>>

SlipCheckOnce == IF token[run] /\ stage = 0 THEN "cancelled"
                 ELSE IF stage = 4 THEN "done" ELSE "request"
\* The stage boundary, where a cancelled run stops.
Boundary == IF token[run] THEN "cancelled"
            ELSE IF stage = 4 THEN "done" ELSE "request"

NextStage ==
  /\ at = "next"
  /\ at' = Boundary
  /\ IF Boundary = "request" THEN stage' = stage + 1 /\ worked' = FALSE
     ELSE UNCHANGED <<stage, worked>>
  /\ UNCHANGED <<run, busVars, outcome, token, stopVars, late>>

\* The model is called, and answers or raises.
Call ==
  /\ at = "model"
  /\ Begins("call")
  /\ at' = "calling"
  /\ UNCHANGED <<run, stage, worked, busVars, outcome, token, stopVars>>
Answer ==
  /\ at = "calling"
  /\ worked' \in BOOLEAN
  /\ Publish("result")
  /\ at' = "delivery"
  /\ UNCHANGED <<run, stage, outcome, token, stopVars, late>>

\* The run gets its outcome and its last word is published.
Conclude ==
  /\ at \in {"cancelled", "failed", "done"}
  /\ outcome' = [outcome EXCEPT ![run] = at]
  /\ Publish("update")
  /\ at' = "delivery"
  /\ UNCHANGED <<run, stage, worked, token, stopVars, late>>

End ==
  /\ at = "end"
  /\ at' = "ended" /\ active' = 0
  /\ UNCHANGED <<run, stage, worked, busVars, outcome, token, stop, late>>

-----------------------------------------------------------------------------
(* cancel_active_run. *)

Press ==
  /\ stop = NoStop /\ active # 0
  /\ stop' = [step |-> "mark", of |-> active]
  /\ UNCHANGED <<run, at, stage, worked, busVars, outcome, token, active, late>>
Mark ==
  /\ stop.step = "mark"
  /\ outcome' = [outcome EXCEPT ![stop.of] = "cancelled"]
  /\ stop' = [stop EXCEPT !.step = "pull"]
  /\ UNCHANGED <<run, at, stage, worked, busVars, token, active, late>>
Pull ==
  /\ stop.step = "pull"
  /\ token' = [token EXCEPT ![stop.of] = TRUE]
  /\ stop' = NoStop
  /\ UNCHANGED <<run, at, stage, worked, busVars, outcome, active, late>>

-----------------------------------------------------------------------------

HandoffInit ==
  /\ run = 0 /\ at = "ended" /\ stage = 0 /\ worked = FALSE
  /\ message = "update" /\ next = 1 /\ edges = {}
  /\ outcome = [r \in Runs |-> "pending"] /\ token = [r \in Runs |-> FALSE]
  /\ active = 0 /\ stop = NoStop /\ seen = {} /\ late = NothingLate

Step == PublishRequest \/ Deliver \/ Handle \/ NextStage \/ Call \/ Answer \/ Conclude \/ End
HandoffNext == Start \/ Step \/ Forget \/ Press \/ Mark \/ Pull

\* The worker thread and the interface go on with what they have begun, and a
\* model call returns or raises.
HandoffSpec == HandoffInit /\ [][HandoffNext]_handoffVars
FairHandoff == HandoffSpec /\ WF_handoffVars(Step) /\ WF_handoffVars(Mark \/ Pull)

-----------------------------------------------------------------------------
(* Properties. *)

HandoffTypeOK ==
  /\ run \in Runs \cup {0} /\ stage \in Stages \cup {0} /\ worked \in BOOLEAN
  /\ at \in {"next", "request", "delivery", "handler", "model", "calling", "failed",
             "cancelled", "done", "end", "ended"}
  /\ message \in Kinds /\ next \in 1 .. Handlers + 1
  /\ edges \subseteq {"big", "small"}
  /\ outcome \in [Runs -> {"pending", "cancelled", "failed", "done"}]
  /\ token \in [Runs -> BOOLEAN] /\ active \in {0, run}
  /\ stop = NoStop \/ stop \in [step : {"mark", "pull"}, of : 1 .. run]
  /\ seen \subseteq Kinds \X (Stages \cup {0}) \X (1 .. Handlers)
  /\ late \in [{"call", "handler"} -> Nat]

\* Once Stop has cancelled a run, its model is called at most once more, for the
\* stage that had begun, and at most one handler more gets a request or result of
\* it, wherever in the handoff and in a delivery the run was (collaborate,
\* _deliver, _is_cancelled).
StopIsPrompt == late["call"] <= 1 /\ late["handler"] <= 1

\* The last word of a run reaches every handler, cancelled or not (_emit).
LastWordIsHeard ==
  at = "ended" /\ run # 0 =>
    \A h \in 1 .. Handlers : \E s \in Stages \cup {0} : <<"update", s, h>> \in seen

\* Every run comes to its end.
RunsEnd == at # "ended" ~> at = "ended"

\* A stage that the run has gone through was handed over on the bus (coordinator:
\* every stage publishes a typed REQUEST then a typed RESULT on the EventBus).
EveryStageIsRequested ==
  at = "done" => \A s \in Stages : <<"request", s, 1>> \in seen
=============================================================================
