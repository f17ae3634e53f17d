--------------------------- MODULE ProviderFailover ---------------------------
(***************************************************************************)
(* One model call falls through the providers (llm in agents/brains/       *)
(* worker_llm_mixin.py), past the circuit breaker (agents/safety/          *)
(* circuit.py), the daily budget (agents/safety/cost.py over the table of  *)
(* calls) and the daily number of calls (agents/safety/                    *)
(* provider_rate_limiter.py).                                              *)
(*                                                                         *)
(* The callers are the workers, each on its thread.  They share the        *)
(* breaker, which a restart forgets, and the two tables, which it keeps.   *)
(* No lock covers a check and what it lets through.  Reads and writes of   *)
(* the tables succeed.                                                     *)
(***************************************************************************)
EXTENDS Naturals, FiniteSets

CONSTANTS
  Callers,     \* threads that call llm
  Local,       \* number of local providers, which come first
  Cloud,       \* number of billable providers, cheapest first
  Attempts,    \* rounds over the providers
  Threshold,   \* LLM_CB_FAILURES
  DailyCalls,  \* MAX_CALLS_PER_DAY of a billable provider
  Budget,      \* LLM_DAILY_BUDGET_USD, in calls
  MaxCalls     \* bound on the calls one caller makes

ASSUME FailoverAssumption ==
  /\ IsFiniteSet(Callers) /\ Callers # {}
  /\ {Local, Cloud, MaxCalls} \subseteq Nat /\ Local + Cloud > 0
  /\ {Attempts, Threshold, DailyCalls, Budget} \subseteq Nat \ {0}

Providers == 1 .. Local + Cloud
Billable(p) == p > Local
First == [attempt |-> 1, provider |-> 1]

VARIABLES
  step,      \* of each caller
  turn,      \* the attempt and the provider it is at
  calls,     \* calls of llm it has begun
  failures,  \* consecutive_failures of each provider
  circuit,   \* "closed", "open", or "lapsed": the cooldown is over
  counted,   \* provider_daily_calls of the day
  today,     \* observation: calls begun today
  spent      \* cost of the logged calls of the last 24 hours

breakerVars == <<failures, circuit>>
failoverVars == <<step, turn, calls, breakerVars, counted, today, spent>>

Goes(c, to) == step' = [step EXCEPT ![c] = to]

\* continue: the next provider, the next attempt, or "LLM unavailable".
Skip(c) ==
  LET t == turn[c] IN
  IF t.provider < Local + Cloud
  THEN Goes(c, "circuit") /\ turn' = [turn EXCEPT ![c].provider = @ + 1]
  ELSE IF t.attempt < Attempts
       THEN Goes(c, "circuit")
            /\ turn' = [turn EXCEPT ![c] = [attempt |-> t.attempt + 1, provider |-> 1]]
       ELSE Goes(c, "idle") /\ turn' = [turn EXCEPT ![c] = First]

-----------------------------------------------------------------------------
(* The circuit breaker. *)

SlipIsOpen(p) == circuit[p] = "open" /\ failures[p] = Threshold
IsOpen(p) == circuit[p] = "open"

\* is_open closes a circuit whose cooldown is over and forgets the failures.
Rested(p) ==
  IF circuit[p] = "lapsed"
  THEN /\ failures' = [failures EXCEPT ![p] = 0]
       /\ circuit' = [circuit EXCEPT ![p] = "closed"]
  ELSE UNCHANGED breakerVars

RecordFailure(p) ==
  /\ failures' = [failures EXCEPT ![p] = @ + 1]
  /\ circuit' = [circuit EXCEPT ![p] = IF failures[p] + 1 >= Threshold THEN "open" ELSE @]

RecordSuccess(p) ==
  /\ failures' = [failures EXCEPT ![p] = 0]
  /\ circuit' = [circuit EXCEPT ![p] = "closed"]

Lapse(p) ==
  /\ circuit[p] = "open"
  /\ circuit' = [circuit EXCEPT ![p] = "lapsed"]
  /\ UNCHANGED <<step, turn, calls, failures, counted, today, spent>>

-----------------------------------------------------------------------------
(* llm. *)

Request(c) ==
  /\ step[c] = "idle" /\ calls[c] < MaxCalls
  /\ Goes(c, "circuit") /\ calls' = [calls EXCEPT ![c] = @ + 1]
  /\ UNCHANGED <<turn, breakerVars, counted, today, spent>>

CheckCircuit(c) ==
  LET p == turn[c].provider IN
  /\ step[c] = "circuit"
  /\ IF IsOpen(p) THEN Skip(c) ELSE Goes(c, "budget") /\ UNCHANGED turn
  /\ Rested(p)
  /\ UNCHANGED <<calls, counted, today, spent>>

SlipExceeded(p) == Billable(p) /\ spent > Budget
\* should_skip
Exceeded(p) == Billable(p) /\ spent >= Budget
CheckBudget(c) ==
  /\ step[c] = "budget"
  /\ IF Exceeded(turn[c].provider) THEN Skip(c) ELSE Goes(c, "cap") /\ UNCHANGED turn
  /\ UNCHANGED <<calls, breakerVars, counted, today, spent>>

\* check
CheckCap(c) ==
  LET p == turn[c].provider IN
  /\ step[c] = "cap"
  /\ IF Billable(p) /\ counted[p] >= DailyCalls THEN Skip(c)
     ELSE Goes(c, "token") /\ UNCHANGED turn
  /\ UNCHANGED <<calls, breakerVars, counted, today, spent>>

\* acquire: the bucket has a token or not, the call is counted and begins.
Acquire(c) ==
  LET p == turn[c].provider IN
  /\ step[c] = "token"
  /\ \/ /\ counted' = [counted EXCEPT ![p] = @ + 1]
        /\ today' = [today EXCEPT ![p] = @ + 1]
        /\ Goes(c, "call") /\ UNCHANGED turn
     \/ Skip(c) /\ UNCHANGED <<counted, today>>
  /\ UNCHANGED <<calls, breakerVars, spent>>

\* The call returns.  Each is logged, and its prompt has a price; an empty answer
\* is tried again and the breaker does not hear of it.
Answered(c) ==
  LET p == turn[c].provider IN
  /\ step[c] = "call"
  /\ spent' = IF Billable(p) THEN spent + 1 ELSE spent
  /\ \/ /\ RecordSuccess(p)
        /\ Goes(c, "idle") /\ turn' = [turn EXCEPT ![c] = First]
     \/ RecordFailure(p) /\ Skip(c)
     \/ UNCHANGED breakerVars /\ Skip(c)
  /\ UNCHANGED <<calls, counted, today>>

-----------------------------------------------------------------------------
(* Time, and a restart. *)

NextDay ==
  /\ counted' = [p \in Providers |-> 0] /\ today' = [p \in Providers |-> 0]
  /\ UNCHANGED <<step, turn, calls, breakerVars, spent>>

\* A logged call leaves the last 24 hours.
Age ==
  /\ spent > 0
  /\ spent' = spent - 1
  /\ UNCHANGED <<step, turn, calls, breakerVars, counted, today>>

SlipRebootForgets ==
  /\ step' = [c \in Callers |-> "idle"] /\ turn' = [c \in Callers |-> First]
  /\ failures' = [p \in Providers |-> 0] /\ circuit' = [p \in Providers |-> "closed"]
  /\ counted' = [p \in Providers |-> 0]
  /\ UNCHANGED <<calls, today, spent>>
\* The breaker lives in memory, the counters in the database.
Reboot ==
  /\ step' = [c \in Callers |-> "idle"] /\ turn' = [c \in Callers |-> First]
  /\ failures' = [p \in Providers |-> 0] /\ circuit' = [p \in Providers |-> "closed"]
  /\ UNCHANGED <<calls, counted, today, spent>>

-----------------------------------------------------------------------------

FailoverInit ==
  /\ step = [c \in Callers |-> "idle"] /\ turn = [c \in Callers |-> First]
  /\ calls = [c \in Callers |-> 0]
  /\ failures = [p \in Providers |-> 0] /\ circuit = [p \in Providers |-> "closed"]
  /\ counted = [p \in Providers |-> 0] /\ today = [p \in Providers |-> 0] /\ spent = 0

FailoverNext ==
  \/ \E c \in Callers : Request(c) \/ CheckCircuit(c) \/ CheckBudget(c) \/ CheckCap(c)
                        \/ Acquire(c) \/ Answered(c)
  \/ \E p \in Providers : Lapse(p)
  \/ NextDay \/ Age \/ Reboot

FailoverSpec == FailoverInit /\ [][FailoverNext]_failoverVars

-----------------------------------------------------------------------------
(* Properties. *)

FailoverTypeOK ==
  /\ step \in [Callers -> {"idle", "circuit", "budget", "cap", "token", "call"}]
  /\ turn \in [Callers -> [attempt : 1 .. Attempts, provider : Providers]]
  /\ calls \in [Callers -> Nat]
  /\ failures \in [Providers -> Nat]
  /\ circuit \in [Providers -> {"closed", "open", "lapsed"}]
  /\ counted \in [Providers -> Nat] /\ today \in [Providers -> Nat] /\ spent \in Nat

Others == Cardinality(Callers) - 1

\* A provider that fails is called Threshold times until its cooldown is over,
\* and not once for every attempt of every caller: the others add at most the
\* calls they had on the way when the circuit opened (is_open, record_failure).
DeadProviderIsLeftAlone == \A p \in Providers : failures[p] <= Threshold + Others

\* A billable provider is called DailyCalls times a day, through any restart; the
\* others add at most the calls they had checked and not yet counted (acquire).
DailyCallsHold ==
  \A p \in Providers : Billable(p) => today[p] <= DailyCalls + Others

\* The spend of a day passes the budget by no more than the calls that were on the
\* way when it was reached (should_skip, log_llm_call).
BudgetHolds == spent <= Budget + Others
=============================================================================
