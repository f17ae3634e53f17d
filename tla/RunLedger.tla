------------------------------- MODULE RunLedger -------------------------------
(***************************************************************************)
(* What the run ledger (agents/services/autonomous_run_store.py) promises  *)
(* of each opportunity, as its docstring and _begin_run, _mark_irreversible*)
(* and recover_incomplete describe it: a run is RUNNING from its first     *)
(* stage until it is finished or interrupted, an irreversible commitment   *)
(* is made by a run that the ledger shows RUNNING, once, and nothing runs  *)
(* again after it.                                                         *)
(***************************************************************************)
CONSTANT Opps

VARIABLES
  status,      \* row of the opportunity's latest run
  committed    \* opportunities with an idempotency key

Init ==
  /\ status = [o \in Opps |-> "none"]
  /\ committed = {}

Start(o) ==
  /\ o \notin committed
  /\ status[o] # "RUNNING"
  /\ status' = [status EXCEPT ![o] = "RUNNING"]
  /\ UNCHANGED committed

Commit(o) ==
  /\ status[o] = "RUNNING"
  /\ o \notin committed
  /\ committed' = committed \cup {o}
  /\ UNCHANGED status

Finish(o) ==
  /\ status[o] = "RUNNING"
  /\ \E end \in {"DONE", "FAILED"} : status' = [status EXCEPT ![o] = end]
  /\ UNCHANGED committed

Interrupt ==
  /\ status' = [o \in Opps |->
                  IF status[o] = "RUNNING" THEN "FAILED" ELSE status[o]]
  /\ UNCHANGED committed

Next ==
  \/ \E o \in Opps : Start(o) \/ Commit(o) \/ Finish(o)
  \/ Interrupt

Spec == Init /\ [][Next]_<<status, committed>>
===============================================================================
