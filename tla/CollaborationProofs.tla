-------------------------- MODULE CollaborationProofs --------------------------
(***************************************************************************)
(* Proofs about Collaboration, for any number of runs and handlers, about  *)
(* SettingsWriter, for any number of edits, and about WorkPortfolio, for   *)
(* every set of statuses rows are added with: in all three a thread goes   *)
(* by what it has read before another one wrote.                           *)
(*                                                                         *)
(* What begins after Stop is counted in `late`.  It can only be counted    *)
(* once a token is cancelled (QuietInv); a handler counted there was on    *)
(* its way already, since the next delivery finds the token; and a model   *)
(* call counted there is the last of its run, since from it the run gets   *)
(* to the boundary of the stage and no further (PastInv).                  *)
(*                                                                         *)
(* A writer may replace the file with an older version than it finds; no   *)
(* edit is gone by that, because either the panel is dirty already, or a   *)
(* save of the interface thread has overlapped it (BehindInv).             *)
(*                                                                         *)
(* A status can be put back long after it was read, so what is shown is    *)
(* safe only if everything in flight is: every status that is held or      *)
(* planned is one whose checks the work has passed (InFlightInv).  Checks  *)
(* are never taken back, so whoever writes last writes an earned status.   *)
(***************************************************************************)
EXTENDS Collaboration, SettingsWriter, WorkPortfolio, TLAPS

Ats == {"next", "request", "delivery", "handler", "model", "calling", "failed",
        "cancelled", "done", "end", "ended"}

LEMMA ConstantTypes ==
  MaxRuns \in Nat /\ MaxRuns >= 1 /\ Handlers \in Nat /\ Handlers >= 1
  BY CollaborationAssumption

\* A token is cancelled for a run that has begun, and a handler that is about to
\* be called is there; before the first run nothing is under way.
RangeInv ==
  /\ \A r \in Runs : token[r] => r <= run
  /\ at = "handler" => next <= Handlers
  /\ run = 0 => at = "ended"

\* What a beginning adds to the count.
LEMMA BeginsCounts ==
  ASSUME late \in [{"call", "handler"} -> Nat], NEW kind \in {"call", "handler"},
         Begins(kind)
  PROVE  /\ late' \in [{"call", "handler"} -> Nat]
         /\ ~token[run] => late' = late
         /\ late'[kind] = late[kind] + 1 \/ late' = late
         /\ \A other \in {"call", "handler"} \ {kind} : late'[other] = late[other]
  BY DEF Begins

LEMMA NothingLateType ==
  /\ NothingLate \in [{"call", "handler"} -> Nat]
  /\ NothingLate["call"] = 0 /\ NothingLate["handler"] = 0
  BY DEF NothingLate

\* The coordinator, the bus and Stop keep their types.
THEOREM HandoffTypeCorrect == HandoffSpec => [](HandoffTypeOK /\ RangeInv)
<1> USE ConstantTypes
<1> DEFINE Inv == HandoffTypeOK /\ RangeInv
<1>1. HandoffInit => Inv
  <2> SUFFICES ASSUME HandoffInit PROVE Inv
    OBVIOUS
  <2>1. late \in [{"call", "handler"} -> Nat]
    BY NothingLateType DEF HandoffInit
  <2>2. seen \subseteq Kinds \X (Stages \cup {0}) \X (1 .. Handlers)
    BY DEF HandoffInit
  <2>3. RangeInv
    BY DEF HandoffInit, RangeInv
  <2>4. outcome \in [Runs -> {"pending", "cancelled", "failed", "done"}]
        /\ token \in [Runs -> BOOLEAN]
    BY DEF HandoffInit
  <2>5. run \in Runs \cup {0} /\ stage \in Stages \cup {0} /\ worked \in BOOLEAN
        /\ at = "ended" /\ message \in Kinds
    BY DEF HandoffInit, Kinds
  <2>6. next \in 1 .. Handlers + 1
    BY DEF HandoffInit
  <2>7. edges \subseteq {"big", "small"} /\ active \in {0, run} /\ stop = NoStop
    BY DEF HandoffInit
  <2> QED
    BY <2>1, <2>2, <2>3, <2>4, <2>5, <2>6, <2>7 DEF HandoffTypeOK
<1>2. Inv /\ [HandoffNext]_handoffVars => Inv'
  <2> SUFFICES ASSUME Inv, [HandoffNext]_handoffVars PROVE Inv'
    OBVIOUS
  <2> USE DEF HandoffTypeOK, RangeInv
  <2>1. CASE Start
    <3>1. run' = run + 1 /\ run \in Nat /\ run' \in Runs
      BY <2>1 DEF Start, Runs
    <3>2. late' \in [{"call", "handler"} -> Nat]
      BY <2>1, NothingLateType DEF Start
    <3>3. stop' = NoStop \/ stop' \in [step : {"mark", "pull"}, of : 1 .. run']
      <4>1. 1 .. run \subseteq 1 .. run'
        BY <3>1
      <4> QED
        BY <2>1, <4>1 DEF Start
    <3>4. RangeInv'
      BY <2>1, <3>1 DEF Start, Runs
    <3>5. seen' \subseteq Kinds \X (Stages \cup {0}) \X (1 .. Handlers)
      BY <2>1 DEF Start
    <3> QED
      BY <2>1, <3>1, <3>2, <3>3, <3>4, <3>5 DEF Start
  <2>2. CASE PublishRequest
    <3>1. message' \in Kinds /\ next' = 1 /\ edges' \subseteq {"big", "small"}
          /\ at' = "delivery"
      BY <2>2 DEF PublishRequest, Send, Role, Kinds
    <3> QED
      BY <2>2, <3>1 DEF PublishRequest, stopVars
  <2>3. CASE Deliver
    BY <2>3 DEF Deliver, Returned, busVars, stopVars, Kinds
  <2>4. CASE Handle
    <3>1. late' \in [{"call", "handler"} -> Nat]
      BY <2>4, BeginsCounts DEF Handle
    <3>2. next \in 1 .. Handlers + 1 /\ next' = next + 1
      BY <2>4 DEF Handle
    <3>3. next \in 1 .. Handlers /\ next' \in 1 .. Handlers + 1
      BY <2>4, <3>2 DEF Handle
    <3>4. <<message, stage, next>> \in Kinds \X (Stages \cup {0}) \X (1 .. Handlers)
      BY <3>3
    <3>5. seen' \subseteq Kinds \X (Stages \cup {0}) \X (1 .. Handlers)
      BY <2>4, <3>4 DEF Handle
    <3> QED
      BY <2>4, <3>1, <3>3, <3>5 DEF Handle, stopVars
  <2>5. CASE NextStage
    <3>1. at' = Boundary /\ Boundary \in {"cancelled", "done", "request"}
      BY <2>5 DEF NextStage, Boundary
    <3>2. stage' \in Stages \cup {0} /\ worked' \in BOOLEAN
      <4>1. CASE Boundary = "request"
        <5>1. stage \in Stages \cup {0} /\ stage # 4
          BY <4>1 DEF Boundary
        <5>2. stage' = stage + 1 /\ worked' = FALSE
          BY <2>5, <4>1 DEF NextStage
        <5>3. stage + 1 \in Stages
          BY <5>1 DEF Stages
        <5> QED
          BY <5>2, <5>3
      <4>2. CASE Boundary # "request"
        BY <2>5, <4>2 DEF NextStage
      <4> QED
        BY <4>1, <4>2
    <3> QED
      BY <2>5, <3>1, <3>2 DEF NextStage, busVars, stopVars
  <2>6. CASE Call
    <3>1. late' \in [{"call", "handler"} -> Nat]
      BY <2>6, BeginsCounts DEF Call
    <3> QED
      BY <2>6, <3>1 DEF Call, busVars, stopVars
  <2>7. CASE Answer
    BY <2>7 DEF Answer, Publish, Send, stopVars, Kinds
  <2>8. CASE Conclude
    <3>1. outcome' \in [Runs -> {"pending", "cancelled", "failed", "done"}]
      BY <2>8 DEF Conclude
    <3>2. message' = "update" /\ next' = 1 /\ message' \in Kinds /\ next' \in 1 .. Handlers + 1
      BY <2>8 DEF Conclude, Publish, Send, Kinds
    <3> QED
      BY <2>8, <3>1, <3>2 DEF Conclude, Publish, stopVars
  <2>9. CASE End
    BY <2>9 DEF End, busVars
  <2>10. CASE Forget
    BY <2>10 DEF Forget, stopVars
  <2>11. CASE Press
    <3>1. active \in 1 .. run
      BY <2>11 DEF Press, Runs
    <3>2. stop' \in [step : {"mark", "pull"}, of : 1 .. run]
      BY <2>11, <3>1 DEF Press
    <3> QED
      BY <2>11, <3>2 DEF Press, busVars
  <2>12. CASE Mark
    <3>1. stop \in [step : {"mark", "pull"}, of : 1 .. run]
      BY <2>12 DEF Mark, NoStop
    <3>2. stop' \in [step : {"mark", "pull"}, of : 1 .. run]
      BY <2>12, <3>1 DEF Mark
    <3>3. outcome' \in [Runs -> {"pending", "cancelled", "failed", "done"}]
      BY <2>12 DEF Mark
    <3> QED
      BY <2>12, <3>2, <3>3 DEF Mark, busVars
  <2>13. CASE Pull
    <3>1. stop.of \in 1 .. run
      BY <2>13 DEF Pull, NoStop
    <3>2. token' \in [Runs -> BOOLEAN]
      BY <2>13 DEF Pull
    <3>3. \A r \in Runs : token'[r] => r <= run
      BY <2>13, <3>1 DEF Pull, Runs
    <3> QED
      BY <2>13, <3>2, <3>3 DEF Pull, busVars
  <2>14. CASE UNCHANGED handoffVars
    BY <2>14 DEF handoffVars, busVars, stopVars
  <2> QED
    BY <2>1, <2>2, <2>3, <2>4, <2>5, <2>6, <2>7, <2>8, <2>9, <2>10, <2>11, <2>12, <2>13,
       <2>14 DEF HandoffNext, Step
<1> QED
  BY <1>1, <1>2, PTL DEF HandoffSpec

-----------------------------------------------------------------------------
(* Stop. *)

\* Nothing is late before a token of this run is cancelled.
QuietInv == run = 0 \/ ~token[run] => late = NothingLate

\* A late handler is the last one a request or result comes to.
OnItsWay ==
  /\ late["handler"] <= 1
  /\ late["handler"] # 0 /\ at = "handler" => message \notin {"request", "result"}

\* After a late call the run is on its way to the boundary, or past it.
PastInv ==
  /\ late["call"] <= 1
  /\ late["call"] # 0 => /\ at \notin {"request", "model"}
                         /\ at \in {"delivery", "handler"} => message \in {"result", "update"}

StopInv == QuietInv /\ OnItsWay /\ PastInv

\* At any moment of a run, and wherever a delivery has come to, a Stop that has
\* taken effect lets at most one more model call and one more handler begin.
THEOREM StopTakesEffect == HandoffSpec => []StopIsPrompt
<1> USE ConstantTypes
<1>1. HandoffInit => StopInv
  BY NothingLateType DEF HandoffInit, StopInv, QuietInv, OnItsWay, PastInv
<1>2. HandoffTypeOK /\ RangeInv /\ StopInv /\ [HandoffNext]_handoffVars => StopInv'
  <2> SUFFICES ASSUME HandoffTypeOK, RangeInv, StopInv, [HandoffNext]_handoffVars
               PROVE  StopInv'
    OBVIOUS
  <2> USE DEF StopInv
  <2>t. late \in [{"call", "handler"} -> Nat] /\ late["call"] \in Nat /\ late["handler"] \in Nat
    BY DEF HandoffTypeOK
  <2>s. ASSUME UNCHANGED <<run, token, late>>
        PROVE  QuietInv'
    BY <2>s DEF QuietInv
  <2>1. CASE Start
    BY <2>1, NothingLateType DEF Start, QuietInv, OnItsWay, PastInv
  <2>2. CASE PublishRequest
    <3>1. late["call"] = 0
      BY <2>2, <2>t DEF PublishRequest, PastInv
    <3> QED
      BY <2>2, <2>s, <3>1 DEF PublishRequest, QuietInv, OnItsWay, PastInv
  <2>3. CASE Deliver
    <3>1. late # NothingLate /\ message \in {"request", "result"} => Dropped(message)
      BY DEF QuietInv, Dropped
    <3>2. late["call"] # 0 \/ late["handler"] # 0 => late # NothingLate
      BY NothingLateType
    <3>3. message \in Kinds /\ at = "delivery"
      BY <2>3 DEF Deliver, HandoffTypeOK
    <3>4. Returned(message) \in {"model", "next", "failed", "end"}
      BY <3>3 DEF Returned, Kinds
    <3>5. Returned(message) = "model" => message \in {"request", "error"}
      BY <3>3 DEF Returned, Kinds
    <3>6. /\ UNCHANGED <<run, token, late, message>>
          /\ at' = IF Dropped(message) \/ next > Handlers THEN Returned(message)
                   ELSE "handler"
      BY <2>3 DEF Deliver, busVars
    <3>7. QuietInv'
      BY <3>6, <2>s
    <3>8. OnItsWay'
      BY <3>1, <3>2, <3>4, <3>6 DEF OnItsWay
    <3>9. PastInv'
      BY <3>3, <3>4, <3>5, <3>6 DEF PastInv
    <3> QED
      BY <3>7, <3>8, <3>9
  <2>4. CASE Handle
    <3>1. CASE message \in {"request", "result"}
      <4>1. late["handler"] = 0
        BY <2>4, <2>t, <3>1 DEF Handle, OnItsWay
      <4>2. /\ ~token[run] => late' = late
            /\ late'["handler"] = late["handler"] + 1 \/ late' = late
            /\ late'["call"] = late["call"]
        BY <2>4, <2>t, <3>1, BeginsCounts DEF Handle
      <4>3. QuietInv'
        <5>1. run # 0
          BY <2>4 DEF Handle, RangeInv
        <5> QED
          BY <2>4, <4>2, <5>1 DEF Handle, QuietInv
      <4> QED
        BY <2>4, <4>1, <4>2, <4>3 DEF Handle, OnItsWay, PastInv
    <3>2. CASE message \notin {"request", "result"}
      BY <2>4, <2>s, <3>2 DEF Handle, OnItsWay, PastInv
    <3> QED
      BY <3>1, <3>2
  <2>5. CASE NextStage
    <3>1. late["call"] # 0 => token[run]
      BY NothingLateType DEF QuietInv
    <3>2. late["call"] # 0 => Boundary = "cancelled"
      BY <3>1 DEF Boundary
    <3>3. Boundary \in {"cancelled", "done", "request"}
      BY DEF Boundary
    <3> QED
      BY <2>5, <2>s, <3>2, <3>3 DEF NextStage, OnItsWay, PastInv, busVars
  <2>6. CASE Call
    <3>1. late["call"] = 0
      BY <2>6, <2>t DEF Call, PastInv
    <3>2. /\ ~token[run] => late' = late
          /\ late'["call"] = late["call"] + 1 \/ late' = late
          /\ late'["handler"] = late["handler"]
      BY <2>6, <2>t, BeginsCounts DEF Call
    <3>3. QuietInv'
      BY <2>6, <3>2 DEF Call, QuietInv, RangeInv
    <3> QED
      BY <2>6, <3>1, <3>2, <3>3 DEF Call, OnItsWay, PastInv, busVars
  <2>7. CASE Answer
    BY <2>7, <2>s DEF Answer, Publish, Send, OnItsWay, PastInv
  <2>8. CASE Conclude
    BY <2>8, <2>s DEF Conclude, Publish, Send, OnItsWay, PastInv
  <2>9. CASE End
    BY <2>9, <2>s DEF End, OnItsWay, PastInv, busVars
  <2>10. CASE Forget
    BY <2>10, <2>s DEF Forget, OnItsWay, PastInv
  <2>11. CASE Press
    BY <2>11, <2>s DEF Press, OnItsWay, PastInv, busVars
  <2>12. CASE Mark
    BY <2>12, <2>s DEF Mark, OnItsWay, PastInv, busVars
  <2>13. CASE Pull
    <3>1. run # 0 /\ ~token'[run] => ~token[run]
      BY <2>13 DEF Pull, HandoffTypeOK, Runs
    <3>2. QuietInv'
      BY <2>13, <3>1 DEF Pull, QuietInv
    <3> QED
      BY <2>13, <3>2 DEF Pull, OnItsWay, PastInv, busVars
  <2>14. CASE UNCHANGED handoffVars
    BY <2>14, <2>s DEF handoffVars, busVars, OnItsWay, PastInv
  <2> QED
    BY <2>1, <2>2, <2>3, <2>4, <2>5, <2>6, <2>7, <2>8, <2>9, <2>10, <2>11, <2>12, <2>13,
       <2>14 DEF HandoffNext, Step
<1>3. StopInv => StopIsPrompt
  BY DEF StopInv, OnItsWay, PastInv, StopIsPrompt
<1> QED
  BY <1>1, <1>2, <1>3, HandoffTypeCorrect, PTL DEF HandoffSpec

-----------------------------------------------------------------------------
(* The last word. *)

\* The first n handlers have got it.
Heard(n) == \A h \in 1 .. n : \E s \in Stages \cup {0} : <<"update", s, h>> \in seen

\* It goes from handler to handler, and the run does not end before the last one.
HeardInv ==
  /\ message = "update" /\ at \in {"delivery", "handler"} => Heard(next - 1)
  /\ at = "end" \/ (at = "ended" /\ run # 0) => Heard(Handlers)

\* A run that is over has told every handler, also a run that Stop has cancelled:
\* the last word carries no token.
THEOREM LastWordArrives == HandoffSpec => []LastWordIsHeard
<1> USE ConstantTypes
<1>1. HandoffInit => HeardInv
  BY DEF HandoffInit, HeardInv
<1>2. HandoffTypeOK /\ HeardInv /\ [HandoffNext]_handoffVars => HeardInv'
  <2> SUFFICES ASSUME HandoffTypeOK, HeardInv, [HandoffNext]_handoffVars
               PROVE  HeardInv'
    OBVIOUS
  <2>h. ASSUME UNCHANGED seen
        PROVE  \A n : Heard(n)' <=> Heard(n)
    BY <2>h DEF Heard
  <2>1. CASE Start
    BY <2>1 DEF Start, HeardInv
  <2>2. CASE PublishRequest
    BY <2>2 DEF PublishRequest, Send, HeardInv
  <2>3. CASE Deliver
    <3>1. /\ at = "delivery" /\ message \in Kinds /\ next \in 1 .. Handlers + 1
          /\ UNCHANGED <<run, message, next, seen>>
          /\ at' = IF Dropped(message) \/ next > Handlers THEN Returned(message)
                   ELSE "handler"
      BY <2>3 DEF Deliver, busVars, HandoffTypeOK
    <3>2. CASE message = "update"
      <4>1. ~Dropped(message) /\ Returned(message) = "end"
        BY <3>2 DEF Dropped, Returned
      <4>2. Heard(next - 1)
        BY <3>1, <3>2 DEF HeardInv
      <4>3. CASE next > Handlers
        <5>1. next - 1 = Handlers
          BY <3>1, <4>3
        <5>2. Heard(Handlers)
          BY <4>2, <5>1
        <5> QED
          BY <2>h, <3>1, <3>2, <4>1, <4>3, <5>2 DEF HeardInv
      <4>4. CASE ~(next > Handlers)
        <5>1. at' = "handler"
          BY <3>1, <4>1, <4>4
        <5>2. Heard(next - 1)'
          BY <3>1, <4>2 DEF Heard
        <5> QED
          BY <5>1, <5>2 DEF HeardInv
      <4> QED
        BY <4>3, <4>4
    <3>3. CASE message # "update"
      <4>1. Returned(message) \in {"model", "next", "failed"}
        BY <3>1, <3>3 DEF Returned, Kinds
      <4> QED
        BY <3>1, <3>3, <4>1 DEF HeardInv
    <3> QED
      BY <3>2, <3>3
  <2>4. CASE Handle
    <3>1. /\ at = "handler" /\ at' = "delivery" /\ message' = message /\ next' = next + 1
          /\ seen' = seen \cup {<<message, stage, next>>}
          /\ next \in 1 .. Handlers + 1 /\ stage \in Stages \cup {0}
      BY <2>4 DEF Handle, HandoffTypeOK
    <3>2. CASE message = "update"
      <4>1. Heard(next - 1)
        BY <3>1, <3>2 DEF HeardInv
      <4>2. ASSUME NEW h \in 1 .. next
            PROVE  \E s \in Stages \cup {0} : <<"update", s, h>> \in seen'
        <5>1. CASE h = next
          BY <3>1, <3>2, <5>1
        <5>2. CASE h # next
          <6>1. h \in 1 .. next - 1
            BY <3>1, <5>2
          <6>2. PICK s \in Stages \cup {0} : <<"update", s, h>> \in seen
            BY <4>1, <6>1 DEF Heard
          <6> QED
            BY <3>1, <6>2
        <5> QED
          BY <5>1, <5>2
      <4>3. next' - 1 = next
        BY <3>1
      <4>4. Heard(next - 1)'
        BY <4>2, <4>3 DEF Heard
      <4> QED
        BY <3>1, <4>4 DEF HeardInv
    <3>3. CASE message # "update"
      BY <3>1, <3>3 DEF HeardInv
    <3> QED
      BY <3>2, <3>3
  <2>5. CASE NextStage
    BY <2>5 DEF NextStage, Boundary, HeardInv
  <2>6. CASE Call
    BY <2>6 DEF Call, HeardInv
  <2>7. CASE Answer
    BY <2>7 DEF Answer, Publish, Send, HeardInv
  <2>8. CASE Conclude
    <3>1. at' = "delivery" /\ next' = 1
      BY <2>8 DEF Conclude, Publish, Send
    <3>2. Heard(next - 1)'
      BY <3>1 DEF Heard
    <3> QED
      BY <3>1, <3>2 DEF HeardInv
  <2>9. CASE End
    <3>1. at = "end" /\ at' = "ended" /\ UNCHANGED seen
      BY <2>9 DEF End, busVars
    <3>2. Heard(Handlers)'
      BY <2>h, <3>1 DEF HeardInv
    <3> QED
      BY <3>1, <3>2 DEF HeardInv
  <2>10. CASE Forget \/ Press \/ Mark \/ Pull \/ UNCHANGED handoffVars
    <3>1. UNCHANGED <<run, at, message, next, seen>>
      BY <2>10 DEF Forget, Press, Mark, Pull, handoffVars, busVars
    <3>2. Heard(next - 1)' <=> Heard(next - 1)
      BY <3>1 DEF Heard
    <3>3. Heard(Handlers)' <=> Heard(Handlers)
      BY <3>1 DEF Heard
    <3> QED
      BY <3>1, <3>2, <3>3 DEF HeardInv
  <2> QED
    BY <2>1, <2>2, <2>3, <2>4, <2>5, <2>6, <2>7, <2>8, <2>9, <2>10 DEF HandoffNext, Step
<1>3. HeardInv => LastWordIsHeard
  BY DEF HeardInv, LastWordIsHeard, Heard
<1> QED
  BY <1>1, <1>2, <1>3, HandoffTypeCorrect, PTL DEF HandoffSpec

-----------------------------------------------------------------------------
(* The settings. *)

LEMMA EditBound == MaxEdits \in Nat
  BY SettingsAssumption

\* The writer, its timer and the file keep their types.
THEOREM SettingsTypeCorrect == SettingsSpec => []SettingsTypeOK
<1> USE EditBound DEF SettingsTypeOK, Versions
<1>1. SettingsInit => SettingsTypeOK
  <2> SUFFICES ASSUME SettingsInit PROVE SettingsTypeOK
    OBVIOUS
  <2>1. 0 \in Versions
    OBVIOUS
  <2>2. writer \in [at : {"off", "writing", "ending"}, of : Versions]
        /\ saving \in [keys : {"none", "ours", "others"}, leaves : Versions]
    BY <2>1 DEF SettingsInit, NoWriter, NoSave
  <2>3. dirty \in BOOLEAN /\ armed \in BOOLEAN /\ notice \in BOOLEAN
    BY DEF SettingsInit
  <2>4. idleTicks \in 0 .. 2
    BY DEF SettingsInit
  <2> QED
    BY <2>1, <2>2, <2>3, <2>4 DEF SettingsInit
<1>2. SettingsTypeOK /\ [SettingsNext]_settingsVars => SettingsTypeOK'
  <2> SUFFICES ASSUME SettingsTypeOK, [SettingsNext]_settingsVars PROVE SettingsTypeOK'
    OBVIOUS
  <2>1. CASE SaveLater
    <3>1. edits' \in Versions /\ dirty' \in BOOLEAN /\ armed' \in BOOLEAN
      BY <2>1 DEF SaveLater, Shown
    <3>2. lost' \in Versions
          /\ writer' \in [at : {"off", "writing", "ending"}, of : Versions]
      BY <2>1 DEF SaveLater, Shown, Write
    <3> QED
      BY <2>1, <3>1, <3>2 DEF SaveLater
  <2>2. CASE FileWritten
    BY <2>2 DEF FileWritten
  <2>3. CASE WriterEnds
    BY <2>3 DEF WriterEnds, NoWriter, drainVars
  <2>4. CASE Tick
    <3>1. dirty' \in BOOLEAN /\ notice' \in BOOLEAN /\ lost' \in Versions
      BY <2>4 DEF Tick
    <3>2. armed' \in BOOLEAN /\ idleTicks' \in 0 .. 2
      <4>1. ASSUME IdleTick PROVE armed' \in BOOLEAN /\ idleTicks' \in 0 .. 2
        <5>1. \/ idleTicks' = 0
              \/ idleTicks < 2 /\ idleTicks' = idleTicks + 1
          BY <4>1 DEF IdleTick
        <5>2. armed' = armed \/ armed' = FALSE
          BY <4>1 DEF IdleTick
        <5>3. armed' \in BOOLEAN
          BY <5>2
        <5> QED
          BY <5>1, <5>3
      <4>2. CASE UNCHANGED <<armed, idleTicks>>
        BY <4>2
      <4>3. IdleTick \/ UNCHANGED <<armed, idleTicks>>
        BY <2>4 DEF Tick
      <4> QED
        BY <4>1, <4>2, <4>3
    <3>3. writer' \in [at : {"off", "writing", "ending"}, of : Versions]
      <4>1. edits \in Versions
        OBVIOUS
      <4>2. writer' = writer \/ Write(edits)
        BY <2>4 DEF Tick
      <4> QED
        BY <4>1, <4>2 DEF Write
    <3> QED
      BY <2>4, <3>1, <3>2, <3>3 DEF Tick
  <2>5. CASE SaveNow
    BY <2>5 DEF SaveNow, Shown, Overlap, drainVars
  <2>6. CASE SaveOthers
    BY <2>6 DEF SaveOthers, Overlap, drainVars
  <2>7. CASE FileSaved
    BY <2>7 DEF FileSaved, NoSave, drainVars
  <2>8. CASE UNCHANGED settingsVars
    BY <2>8 DEF settingsVars, drainVars
  <2> QED
    BY <2>1, <2>2, <2>3, <2>4, <2>5, <2>6, <2>7, <2>8 DEF SettingsNext
<1> QED
  BY <1>1, <1>2, PTL DEF SettingsSpec

\* While the panel is dirty the timer runs; a writer that is behind leaves it dirty.
BehindInv ==
  /\ dirty => armed
  /\ Writing /\ lost < edits => writer.of = edits \/ dirty

\* A save of the interface thread knows the latest edit, and when it has met no
\* writer nobody has replaced the file since it read it.
SaveInv ==
  /\ saving.keys = "none" => Quiet
  /\ saving.keys = "ours" => saving.leaves = edits
  /\ ~Quiet /\ lost < edits => ~Writing
  /\ saving.keys = "others" /\ lost < edits => saving.leaves = saved

WayInv == BehindInv /\ SaveInv /\ EditIsOnItsWay

\* An edit that comes while a writer is at work, has just finished, or as the
\* timer stops, is never forgotten (_persist_settings_async, _drain_persist_dirty).
THEOREM EditsAreOnTheirWay == SettingsSpec => []EditIsOnItsWay
<1> USE EditBound
<1>1. SettingsInit => WayInv
  BY DEF SettingsInit, WayInv, BehindInv, SaveInv, EditIsOnItsWay, Quiet, Writing,
         NoWriter, NoSave
<1>2. SettingsTypeOK /\ WayInv /\ [SettingsNext]_settingsVars => WayInv'
  <2> SUFFICES ASSUME SettingsTypeOK, WayInv, [SettingsNext]_settingsVars PROVE WayInv'
    OBVIOUS
  <2> USE DEF WayInv, BehindInv, SaveInv, EditIsOnItsWay, Quiet, Writing, SettingsTypeOK,
              Versions
  <2>1. CASE SaveLater
    BY <2>1 DEF SaveLater, Shown, Write, Alive, NoSave
  <2>2. CASE FileWritten
    <3>1. ~Writing'
      BY <2>2 DEF FileWritten
    <3>2. /\ UNCHANGED <<edits, saving, dirty, armed>> /\ writer.at = "writing"
          /\ \/ saved' = writer.of /\ lost' = lost
             \/ lost' = (IF writer.of > lost THEN writer.of ELSE lost) /\ saved' = saved
      BY <2>2 DEF FileWritten
    <3>3. lost' < edits => lost < edits
      BY <3>2
    <3>4. lost' < edits => saving = NoSave /\ saving.keys = "none"
      BY <3>2, <3>3 DEF NoSave
    <3>5. EditIsOnItsWay'
      <4> SUFFICES ASSUME lost' < edits
                   PROVE  saved' = edits \/ (dirty /\ armed)
        BY <3>2
      <4>1. CASE dirty
        BY <4>1
      <4>2. CASE ~dirty
        <5>1. writer.of = edits
          BY <3>2, <3>3, <4>2
        <5> QED
          BY <3>2, <5>1
      <4> QED
        BY <4>1, <4>2
    <3> QED
      BY <3>1, <3>2, <3>3, <3>4, <3>5
  <2>3. CASE WriterEnds
    BY <2>3 DEF WriterEnds, NoWriter, drainVars
  <2>4. CASE Tick
    <3>1. saving = NoSave /\ UNCHANGED <<edits, saved, saving>>
      BY <2>4 DEF Tick
    <3>2. CASE UNCHANGED <<dirty, armed, writer, lost>>
      BY <3>1, <3>2
    <3>3. CASE ~Alive /\ dirty /\ Write(edits) /\ dirty' = FALSE
               /\ UNCHANGED <<armed, lost>>
      BY <3>1, <3>3 DEF Write, NoSave
    <3>4. CASE ~Alive /\ dirty' = FALSE /\ lost' = edits /\ UNCHANGED writer
      BY <3>1, <3>4 DEF NoSave
    <3>5. CASE ~Alive /\ ~dirty /\ UNCHANGED <<dirty, writer, lost>>
      BY <3>1, <3>5 DEF Alive, NoSave
    <3> QED
      BY <2>4, <3>2, <3>3, <3>4, <3>5 DEF Tick
  <2>5. CASE SaveNow
    BY <2>5 DEF SaveNow, Shown, Overlap, drainVars, NoSave
  <2>6. CASE SaveOthers
    BY <2>6 DEF SaveOthers, Overlap, drainVars, NoSave
  <2>7. CASE FileSaved
    BY <2>7 DEF FileSaved, NoSave, drainVars
  <2>8. CASE UNCHANGED settingsVars
    BY <2>8 DEF settingsVars, drainVars
  <2> QED
    BY <2>1, <2>2, <2>3, <2>4, <2>5, <2>6, <2>7, <2>8 DEF SettingsNext
<1>3. WayInv => EditIsOnItsWay
  BY DEF WayInv
<1> QED
  BY <1>1, <1>2, <1>3, SettingsTypeCorrect, PTL DEF SettingsSpec

-----------------------------------------------------------------------------
(* The portfolio. *)

Checks == {"gates", "validation", "payment"}

\* The statuses that some checks allow to show.
Showable(checks) == {s \in Statuses : Needs(s) \subseteq checks}

\* What is shown, held or planned is earned, and so is the place of the loop.
InFlightInv ==
  /\ row \in Showable(earned) \cup {"none"}
  /\ held \in [Writers -> Showable(earned) \cup {"none"}]
  /\ plan \in [Writers -> Seq(Showable(earned))]
  /\ progress \in {"idle", "execute", "executed", "reranked", "failed"}
  /\ valid \in BOOLEAN /\ earned \subseteq Checks
  /\ valid => {"gates", "validation"} \subseteq earned
  /\ progress = "reranked" => "gates" \in earned
  /\ progress = "executed" => "gates" \in earned

LEMMA NeedsAreChecks == \A s \in Statuses : Needs(s) \subseteq Checks
  BY DEF Statuses, Needs, Delivered, Checks

LEMMA NotAStatus == "none" \notin Statuses
  BY DEF Statuses

\* More checks show more.
LEMMA ShownGrows ==
  ASSUME NEW few, NEW many, few \subseteq many
  PROVE  Showable(few) \subseteq Showable(many) /\ Seq(Showable(few)) \subseteq Seq(Showable(many))
<1>1. Showable(few) \subseteq Showable(many)
  BY DEF Showable
<1>2. \A s \in Seq(Showable(few)) : s \in Seq(Showable(many))
  BY <1>1
<1> QED
  BY <1>1, <1>2

\* What needs no check.
LEMMA FreeStatuses ==
  ASSUME NEW checks
  PROVE  {"NEW", "EVALUATING", "QUALIFIED", "RECOMMENDED", "AWAITING_APPROVAL", "FAILED",
          "ABANDONED", "REJECTED"} \subseteq Showable(checks)
  BY DEF Showable, Statuses, Needs, Delivered

LEMMA GatedStatuses ==
  ASSUME NEW checks, "gates" \in checks
  PROVE  {"READY", "IN_PROGRESS"} \subseteq Showable(checks)
  BY DEF Showable, Statuses, Needs, Delivered

LEMMA DeliveredStatuses ==
  ASSUME NEW checks, "gates" \in checks, "validation" \in checks
  PROVE  {"COMPLETED", "WAITING_EXTERNAL", "PAYMENT_PENDING"} \subseteq Showable(checks)
  BY DEF Showable, Statuses, Needs, Delivered

LEMMA PaidStatus ==
  ASSUME NEW checks, "gates" \in checks, "validation" \in checks, "payment" \in checks
  PROVE  "PAID" \in Showable(checks)
  BY DEF Showable, Statuses, Needs, Delivered

\* The executor plans no status that the checks of this execution do not cover.
LEMMA PipelineIsEarned ==
  ASSUME NEW feasible \in BOOLEAN, NEW gates \in BOOLEAN, NEW passes \in BOOLEAN,
         NEW checks,
         feasible /\ ~gates => "gates" \in checks,
         feasible /\ ~gates /\ passes => "validation" \in checks
  PROVE  Pipeline(feasible, gates, passes) \in Seq(Showable(checks))
<1> DEFINE S == Showable(checks)
<1>1. {"EVALUATING", "QUALIFIED", "RECOMMENDED", "AWAITING_APPROVAL"} \subseteq S
  BY FreeStatuses
<1>2. <<"EVALUATING">> \in Seq(S) /\ <<"EVALUATING", "QUALIFIED", "RECOMMENDED">> \in Seq(S)
      /\ <<"AWAITING_APPROVAL">> \in Seq(S) /\ <<>> \in Seq(S)
  BY <1>1
<1>3. ASSUME feasible, ~gates
      PROVE  <<"READY", "IN_PROGRESS">> \in Seq(S)
  <2>1. {"READY", "IN_PROGRESS"} \subseteq S
    BY <1>3, GatedStatuses
  <2> QED
    BY <2>1
<1>4. ASSUME feasible, ~gates, passes
      PROVE  <<"COMPLETED", "WAITING_EXTERNAL", "PAYMENT_PENDING">> \in Seq(S)
  <2>1. {"COMPLETED", "WAITING_EXTERNAL", "PAYMENT_PENDING"} \subseteq S
    BY <1>4, DeliveredStatuses
  <2> QED
    BY <2>1
<1>5. \A s, t \in Seq(S) : s \o t \in Seq(S)
  OBVIOUS
<1> HIDE DEF S
<1>6. CASE ~feasible
  BY <1>2, <1>6 DEF Pipeline, S
<1>7. CASE feasible /\ gates
  <2>1. Pipeline(feasible, gates, passes)
          = <<"EVALUATING", "QUALIFIED", "RECOMMENDED">> \o <<"AWAITING_APPROVAL">>
    BY <1>7 DEF Pipeline
  <2>2. Pipeline(feasible, gates, passes) \in Seq(S)
    BY <1>2, <1>5, <2>1
  <2> QED
    BY <2>2 DEF S
<1>8. CASE feasible /\ ~gates
  <2>1. PICK last \in Seq(S) :
          Pipeline(feasible, gates, passes)
            = <<"EVALUATING", "QUALIFIED", "RECOMMENDED">>
              \o (<<"READY", "IN_PROGRESS">> \o last)
    BY <1>2, <1>4, <1>8 DEF Pipeline
  <2>2. <<"READY", "IN_PROGRESS">> \o last \in Seq(S)
    BY <1>3, <1>5, <1>8
  <2>3. Pipeline(feasible, gates, passes) \in Seq(S)
    BY <1>2, <1>5, <2>1, <2>2
  <2> QED
    BY <2>3 DEF S
<1> QED
  BY <1>6, <1>7, <1>8

\* What a person asks for needs no check: the tab never asks for more.
LEMMA DemandsAreFree ==
  ASSUME NEW checks, NEW status
  PROVE  /\ <<"EVALUATING">> \in Seq(Showable(checks))
         /\ (IF status = "NEW" THEN <<"EVALUATING">> ELSE <<>>)
              \o (IF status \in {"NEW", "EVALUATING"} THEN <<"QUALIFIED">> ELSE <<>>)
              \o <<"AWAITING_APPROVAL">> \in Seq(Showable(checks))
         /\ (IF status = "NEW" THEN <<"ABANDONED">> ELSE <<"REJECTED">>)
              \in Seq(Showable(checks))
<1> DEFINE S == Showable(checks)
<1>1. {"EVALUATING", "QUALIFIED", "AWAITING_APPROVAL", "ABANDONED", "REJECTED"} \subseteq S
  BY FreeStatuses
<1> HIDE DEF S
<1>2. \A s, t \in Seq(S) : s \o t \in Seq(S)
  OBVIOUS
<1>3. <<"EVALUATING">> \in Seq(S) /\ <<"QUALIFIED">> \in Seq(S) /\ <<>> \in Seq(S)
      /\ <<"AWAITING_APPROVAL">> \in Seq(S) /\ <<"ABANDONED">> \in Seq(S)
      /\ <<"REJECTED">> \in Seq(S)
  BY <1>1
<1> DEFINE first == IF status = "NEW" THEN <<"EVALUATING">> ELSE <<>>
           second == IF status \in {"NEW", "EVALUATING"} THEN <<"QUALIFIED">> ELSE <<>>
<1>4. first \in Seq(S) /\ second \in Seq(S)
  BY <1>3
<1>5. (IF status = "NEW" THEN <<"ABANDONED">> ELSE <<"REJECTED">>) \in Seq(S)
  BY <1>3
<1> HIDE DEF first, second
<1>6. first \o second \o <<"AWAITING_APPROVAL">> \in Seq(S)
  BY <1>2, <1>3, <1>4
<1> QED
  BY <1>3, <1>5, <1>6 DEF S, first, second

\* Every writer writes a row that the checks of this moment cover.
LEMMA FlightIsKept ==
  ASSUME InFlightInv, [PortfolioNext]_portfolioVars
  PROVE  InFlightInv'
<1> DEFINE S == Showable(earned)
           All == S \cup {"none"}
<1>s. \A x \in {"NEW", "EVALUATING", "QUALIFIED", "RECOMMENDED", "AWAITING_APPROVAL",
                "FAILED", "ABANDONED", "REJECTED"} : x \in S
  BY FreeStatuses
<1>n. "none" \notin S
  BY NotAStatus DEF Showable
<1>t. /\ row \in All /\ held \in [Writers -> All] /\ plan \in [Writers -> Seq(S)]
      /\ progress \in {"idle", "execute", "executed", "reranked", "failed"}
      /\ valid \in BOOLEAN /\ earned \subseteq Checks
  BY DEF InFlightInv
<1>g. "gates" \in earned => "READY" \in S /\ "IN_PROGRESS" \in S
  BY GatedStatuses
<1>e. ASSUME UNCHANGED earned
      PROVE  Showable(earned)' = S
  BY <1>e
\* With no new check, the three rows are all that a step may disturb.
<1>k. ASSUME UNCHANGED earned, row' \in All, held' \in [Writers -> All],
             plan' \in [Writers -> Seq(S)],
             UNCHANGED valid \/ valid' = FALSE,
             progress' \in {progress, "idle", "failed"}
      PROVE  InFlightInv'
  <2> HIDE DEF S, All
  <2>1. Showable(earned)' = S
    BY <1>k, <1>e
  <2>2. /\ row' \in Showable(earned)' \cup {"none"}
        /\ held' \in [Writers -> Showable(earned)' \cup {"none"}]
        /\ plan' \in [Writers -> Seq(Showable(earned)')]
    BY <1>k, <2>1 DEF All
  <2>3. /\ progress' \in {"idle", "execute", "executed", "reranked", "failed"}
        /\ valid' \in BOOLEAN /\ earned' \subseteq Checks
    BY <1>k, <1>t
  <2>4. /\ valid' => {"gates", "validation"} \subseteq earned'
        /\ progress' = "reranked" => "gates" \in earned'
        /\ progress' = "executed" => "gates" \in earned'
    BY <1>k DEF InFlightInv
  <2> QED
    BY <2>2, <2>3, <2>4 DEF InFlightInv
<1>1. ASSUME NEW w \in Writers, Look(w) PROVE InFlightInv'
  <2>1. plan[w] \in Seq(S) /\ plan[w] # <<>>
    BY <1>1, <1>t DEF Look
  <2>2. Head(plan[w]) \in S /\ Tail(plan[w]) \in Seq(S) /\ <<>> \in Seq(S)
    BY <2>1
  <2> HIDE DEF S
  <2>3. plan' \in [Writers -> Seq(S)]
    BY <1>1, <1>t, <2>2 DEF Look
  <2>4. held' \in [Writers -> All]
    BY <1>1, <1>t, <2>2 DEF Look, Hold
  <2>5. progress' \in {progress, "failed"} /\ UNCHANGED <<row, valid, earned>>
    BY <1>1 DEF Look
  <2> QED
    BY <1>k, <1>t, <2>3, <2>4, <2>5
<1>2. ASSUME NEW w \in Writers, Put(w) PROVE InFlightInv'
  <2> HIDE DEF S
  <2>1. row' \in All /\ held' \in [Writers -> All]
    BY <1>2, <1>t DEF Put, Hold
  <2>2. UNCHANGED <<plan, progress, valid, earned>>
    BY <1>2 DEF Put
  <2> QED
    BY <1>k, <1>t, <2>1, <2>2
<1>3. ASSUME NEW w \in Writers, Project(w) PROVE InFlightInv'
  <2>1. \A status \in Created : status \in S
    BY <1>s, CreatedAssumption
  <2> HIDE DEF S
  <2>2. held' \in [Writers -> All]
    BY <1>3, <1>t, <2>1 DEF Project, Hold
  <2>3. UNCHANGED <<row, plan, progress, valid, earned>>
    BY <1>3 DEF Project
  <2> QED
    BY <1>k, <1>t, <2>2, <2>3
<1>4. ASSUME Execute PROVE InFlightInv'
  <2>1. PICK feasible \in BOOLEAN, gates \in BOOLEAN, passes \in BOOLEAN :
          /\ plan' = [plan EXCEPT !["loop"] = Pipeline(feasible, gates, passes)]
          /\ valid' = (feasible /\ ~gates /\ passes)
          /\ earned' = earned \cup (IF feasible /\ ~gates THEN {"gates"} ELSE {})
                              \cup (IF feasible /\ ~gates /\ passes THEN {"validation"}
                                    ELSE {})
    BY <1>4 DEF Execute
  <2>2. PICK new : new = earned'
    OBVIOUS
  <2>3. /\ earned \subseteq new /\ new \subseteq Checks
        /\ feasible /\ ~gates => "gates" \in new
        /\ feasible /\ ~gates /\ passes => "validation" \in new
    BY <1>t, <2>1, <2>2 DEF Checks
  <2>4. Pipeline(feasible, gates, passes) \in Seq(Showable(new))
    BY <2>3, PipelineIsEarned
  <2>5. S \subseteq Showable(new) /\ Seq(S) \subseteq Seq(Showable(new))
    BY <2>3, ShownGrows
  <2>6. Showable(earned)' = Showable(new)
    BY <2>2 DEF Showable
  <2> DEFINE T == Showable(new)
  <2> HIDE DEF S, T
  <2>7. row' \in T \cup {"none"} /\ held' \in [Writers -> T \cup {"none"}]
    BY <1>4, <1>t, <2>5 DEF Execute, T
  <2>8. plan' \in [Writers -> Seq(T)]
    <3>1. plan \in [Writers -> Seq(T)]
      BY <1>t, <2>5 DEF T
    <3> QED
      BY <2>1, <2>4, <3>1 DEF T
  <2>9. progress' = "execute" /\ valid' \in BOOLEAN
        /\ (valid' => {"gates", "validation"} \subseteq new)
    BY <1>4, <2>1, <2>3 DEF Execute
  <2> QED
    BY <2>2, <2>3, <2>6, <2>7, <2>8, <2>9 DEF InFlightInv, T
<1>5. ASSUME Stop PROVE InFlightInv'
  BY <1>5, <1>k, <1>t DEF Stop
<1>6. ASSUME Verify PROVE InFlightInv'
  <2>1. PICK proof \in BOOLEAN :
          /\ plan' = [plan EXCEPT !["loop"] = Learn(proof)]
          /\ earned' = earned \cup (IF proof THEN {"payment"} ELSE {})
    BY <1>6 DEF Verify
  <2>2. PICK new : new = earned'
    OBVIOUS
  <2>3. {"gates", "validation"} \subseteq earned
    BY <1>6 DEF Verify, InFlightInv
  <2>4. /\ earned \subseteq new /\ new \subseteq Checks
        /\ {"gates", "validation"} \subseteq new
        /\ proof => "payment" \in new
    BY <1>t, <2>1, <2>2, <2>3 DEF Checks
  <2> DEFINE T == Showable(new)
  <2>5. Learn(proof) \in Seq(T)
    <3>1. proof => "PAID" \in T
      BY <2>4, PaidStatus
    <3> HIDE DEF T
    <3> QED
      BY <3>1 DEF Learn
  <2>6. S \subseteq T /\ Seq(S) \subseteq Seq(T)
    BY <2>4, ShownGrows
  <2>7. Showable(earned)' = T
    BY <2>2 DEF Showable
  <2> HIDE DEF S, T
  <2>8. row' \in T \cup {"none"} /\ held' \in [Writers -> T \cup {"none"}]
    BY <1>6, <1>t, <2>6 DEF Verify
  <2>9. plan' \in [Writers -> Seq(T)]
    <3>1. plan \in [Writers -> Seq(T)]
      BY <1>t, <2>6
    <3> QED
      BY <2>1, <2>5, <3>1
  <2>10. progress' = "executed" /\ valid' = valid
    BY <1>6 DEF Verify
  <2> QED
    BY <1>t, <2>2, <2>4, <2>7, <2>8, <2>9, <2>10 DEF InFlightInv
<1>7. ASSUME Rerank PROVE InFlightInv'
  <2>1. Showable(earned)' = S
    BY <1>7, <1>e DEF Rerank
  <2> HIDE DEF S
  <2>2. held' \in [Writers -> All]
    BY <1>7, <1>t DEF Rerank, Hold
  <2>3. "gates" \in earned
    BY <1>7 DEF Rerank, InFlightInv
  <2>4. /\ row' \in Showable(earned)' \cup {"none"}
        /\ held' \in [Writers -> Showable(earned)' \cup {"none"}]
        /\ plan' \in [Writers -> Seq(Showable(earned)')]
    BY <1>7, <1>t, <2>1, <2>2 DEF Rerank
  <2>5. /\ progress' = "reranked" /\ valid' = valid /\ earned' = earned
        /\ valid => {"gates", "validation"} \subseteq earned
    BY <1>7 DEF Rerank, InFlightInv
  <2> QED
    BY <1>t, <2>3, <2>4, <2>5 DEF InFlightInv
<1>8. ASSUME NEW decision \in Decisions, Finish(decision) PROVE InFlightInv'
  <2>1. row # "none" => Synced(decision) \in S
    <3>1. CASE decision = "proceed"
      <4>1. progress = "reranked"
        BY <1>8, <1>t, <3>1 DEF Finish
      <4>2. "IN_PROGRESS" \in S
        BY <1>g, <4>1 DEF InFlightInv
      <4> QED
        BY <3>1, <4>2 DEF Synced
    <3>2. CASE decision = "reject"
      BY <1>s, <3>2 DEF Synced
    <3>3. CASE decision = "await_approval"
      BY <1>s, <3>3 DEF Synced
    <3>4. CASE decision = "failed"
      BY <1>t, <3>4 DEF Synced
    <3> QED
      BY <3>1, <3>2, <3>3, <3>4 DEF Decisions
  <2> HIDE DEF S
  <2>2. held' \in [Writers -> All]
    BY <1>8, <1>t, <2>1 DEF Finish, Hold
  <2>3. progress' = "idle" /\ valid' = FALSE /\ UNCHANGED <<row, plan, earned>>
    BY <1>8 DEF Finish
  <2> QED
    BY <1>k, <1>t, <2>2, <2>3
<1>9. ASSUME NEW w \in Writers, NEW targets \in Seq(S), Demand(w, targets)
      PROVE  InFlightInv'
  <2> HIDE DEF S
  <2>1. plan' \in [Writers -> Seq(S)]
    BY <1>9, <1>t DEF Demand
  <2>2. UNCHANGED <<row, held, progress, valid, earned>>
    BY <1>9 DEF Demand
  <2> QED
    BY <1>k, <1>t, <2>1, <2>2
<1>10. ASSUME Research \/ Apply \/ Reject PROVE InFlightInv'
  BY <1>9, <1>10, DemandsAreFree DEF Research, Apply, Reject, Writers
<1>11. ASSUME Clear PROVE InFlightInv'
  BY <1>11, <1>k, <1>t DEF Clear
<1>12. ASSUME UNCHANGED portfolioVars PROVE InFlightInv'
  BY <1>12, <1>k, <1>t DEF portfolioVars
<1> QED
  BY <1>1, <1>2, <1>3, <1>4, <1>5, <1>6, <1>7, <1>8, <1>10, <1>11, <1>12
     DEF PortfolioNext

LEMMA FlightIsSafe == PortfolioSpec => []InFlightInv
<1>1. PortfolioInit => InFlightInv
  <2> SUFFICES ASSUME PortfolioInit PROVE InFlightInv
    OBVIOUS
  <2>1. row \in Showable(earned) \cup {"none"}
    BY FreeStatuses, CreatedAssumption DEF PortfolioInit
  <2>2. plan \in [Writers -> Seq(Showable(earned))]
    <3>1. <<>> \in Seq(Showable(earned))
      OBVIOUS
    <3> QED
      BY <3>1 DEF PortfolioInit
  <2>3. held \in [Writers -> Showable(earned) \cup {"none"}]
    BY DEF PortfolioInit
  <2> QED
    BY <2>1, <2>2, <2>3 DEF PortfolioInit, InFlightInv
<1> QED
  BY <1>1, FlightIsKept, PTL DEF PortfolioSpec

\* The row, the writers and the loop keep their types.
THEOREM PortfolioTypeCorrect == PortfolioSpec => []PortfolioTypeOK
<1>1. InFlightInv => PortfolioTypeOK
  <2> SUFFICES ASSUME InFlightInv PROVE PortfolioTypeOK
    OBVIOUS
  <2>1. Showable(earned) \subseteq Statuses /\ Seq(Showable(earned)) \subseteq Seq(Statuses)
    <3>1. Showable(earned) \subseteq Statuses
      BY DEF Showable
    <3>2. \A s \in Seq(Showable(earned)) : s \in Seq(Statuses)
      BY <3>1
    <3> QED
      BY <3>1, <3>2
  <2> QED
    BY <2>1 DEF InFlightInv, PortfolioTypeOK, Checks
<1> QED
  BY <1>1, FlightIsSafe, PTL

\* However writers overlap, the row shows only what the work has earned.
THEOREM StatusesAreEarned == PortfolioSpec => []StatusIsEarned
<1>1. InFlightInv => StatusIsEarned
  <2> SUFFICES ASSUME InFlightInv PROVE StatusIsEarned
    OBVIOUS
  <2>1. CASE row = "none"
    BY <2>1 DEF StatusIsEarned, Needs, Delivered
  <2>2. CASE row \in Showable(earned)
    BY <2>2 DEF StatusIsEarned, Showable
  <2> QED
    BY <2>1, <2>2 DEF InFlightInv
<1> QED
  BY <1>1, FlightIsSafe, PTL
=============================================================================
