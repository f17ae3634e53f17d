------------------------------ MODULE MCDialogue ------------------------------
(* The dialogue tab, checked: what keeps a Live session going, and what ends it. *)
EXTENDS DialogueTurns

TwoPersonas == <<"edward", "jacob">>

\* Something is on its way to the tab: a callback, or a reply.
Pending(t) ==
    \/ \E k \in Kinds : t.timers[k] > 0
    \/ \E w \in DOMAIN t.flights :
          \/ t.flights[w].reply = "sent"
          \/ t.flights[w].reply = "none" /\ ~t.flights[w].cancelled

\* The record of a persona's worker is one from which nothing more will come: it
\* was cancelled, Qt has deleted it, or its reply was dropped.
Jammed(t) ==
    \E p \in Personas :
       \/ Dead(t, t.lives[p])
       \/ /\ t.lives[p] \in DOMAIN t.flights
          /\ \/ t.flights[t.lives[p]].cancelled
             \/ t.flights[t.lives[p]].reply = "handled"

(* The claim of the recovery branches of _on_response_ready: whatever a reply  *)
(* is, a session that runs has something scheduled.                            *)
LiveNeverSilentlyEnds == tab.live => Pending(tab)

(* What the code keeps: a Live session with nothing scheduled is one that has *)
(* a persona's worker on record which an interrupted stop_live left there, or  *)
(* whose reply was dropped as stale after Auto-Step took over from Live.  No   *)
(* reply, retry, new goal, rate gate or queued human turn ends it, nor does a  *)
(* worker the tab holds for the human.                                         *)
LiveIsAlive == tab.live => Pending(tab) \/ Jammed(tab)

Sent(t, w) == w \in DOMAIN t.flights /\ t.flights[w].reply = "sent"
Reached == \E w \in Workers :
    /\ Sent(tab, w) /\ ~Sent(tab', w)
    /\ \E r \in Replies \ {"unreachable"} : Receive(w, r)

(* Live does not spin on a model that can not be reached: when from some point *)
(* on every reply is a transport failure, the failure budget ends the session. *)
LiveGivesUp == []<><<Reached>>_vars \/ []<>(~tab.live \/ Jammed(tab))
=============================================================================
