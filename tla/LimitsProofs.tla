------------------------------ MODULE LimitsProofs ------------------------------
(***************************************************************************)
(* Proofs about the two components that count: SubmissionRamp, for any     *)
(* number of gigs and any thresholds, and ProviderFailover, for any number *)
(* of callers and providers.                                               *)
(*                                                                         *)
(* The ramp opens on a rate, so the argument is about what has been        *)
(* counted: a win is only ever counted with a payment of a gig that was    *)
(* sent (PaidInv), and every gig that is submitted or paid has itself      *)
(* counted an attempt, beside the one that each win counts (TallyInv).     *)
(*                                                                         *)
(* The providers' limits are checked under no lock, so each bound holds    *)
(* only together with the callers that have passed its check and whose     *)
(* call is not counted yet: in each invariant what is counted and who is   *)
(* on the way add up.  A caller that passes has just seen less than the    *)
(* bound; one that is counted leaves those on the way.                     *)
(***************************************************************************)
EXTENDS SubmissionRamp, ProviderFailover, FiniteSetTheorems, TLAPS

-----------------------------------------------------------------------------
(* The ramp. *)

Paid == {g \in Gigs : proposal[g] = "paid"}
Tallied == {g \in Gigs : proposal[g] \in {"submitted", "paid"}}

PaidInv ==
  /\ \A g \in Gigs : proposal[g] \in {"answered", "submitted", "paid"} => g \in sent
  /\ record.wins # 0 => \E g \in sent : proposal[g] = "paid"

TallyInv ==
  /\ record.wins <= credits
  /\ record.wins + Cardinality(Tallied) <= record.attempts

Reputations == [attempts : Nat, wins : Nat, losses : Nat]

\* What is counted on a record leaves a record with an attempt more.
LEMMA CountsAreRecords ==
  ASSUME NEW r \in Reputations
  PROVE  /\ Attempted(r) \in Reputations /\ Won(r) \in Reputations /\ Lost(r) \in Reputations
         /\ Attempted(r).attempts = r.attempts + 1 /\ Attempted(r).wins = r.wins
         /\ Won(r).attempts = r.attempts + 1 /\ Won(r).wins = r.wins + 1
         /\ Lost(r).attempts = r.attempts + 1 /\ Lost(r).wins = r.wins
<1> USE DEF Reputations
<1>1. /\ Attempted(r) \in Reputations
      /\ Attempted(r).attempts = r.attempts + 1 /\ Attempted(r).wins = r.wins
  BY DEF Attempted
<1>2. /\ Won(r) \in Reputations
      /\ Won(r).attempts = Attempted(r).attempts /\ Won(r).wins = Attempted(r).wins + 1
  <2> DEFINE a == Attempted(r)
  <2>1. a \in Reputations
    BY <1>1
  <2>2. Won(r) = [a EXCEPT !.wins = @ + 1]
    BY DEF Won
  <2> HIDE DEF a
  <2>3. /\ Won(r) \in Reputations
        /\ Won(r).attempts = a.attempts /\ Won(r).wins = a.wins + 1
    BY <2>1, <2>2
  <2> QED
    BY <2>3 DEF a
<1>3. /\ Lost(r) \in Reputations
      /\ Lost(r).attempts = Attempted(r).attempts /\ Lost(r).wins = Attempted(r).wins
  <2> DEFINE a == Attempted(r)
  <2>1. a \in Reputations
    BY <1>1
  <2>2. Lost(r) = [a EXCEPT !.losses = @ + 1]
    BY DEF Lost
  <2> HIDE DEF a
  <2>3. /\ Lost(r) \in Reputations
        /\ Lost(r).attempts = a.attempts /\ Lost(r).wins = a.wins
    BY <2>1, <2>2
  <2> QED
    BY <2>3 DEF a
<1> QED
  BY <1>1, <1>2, <1>3

\* Attempts, wins and losses stay numbers, and every proposal is in a state of
\* submit_gig_proposal.
THEOREM RampTypeCorrect == RampSpec => []RampTypeOK
<1>1. RampInit => RampTypeOK
  BY DEF RampInit, RampTypeOK, Zero
<1>2. RampTypeOK /\ [RampNext]_rampVars => RampTypeOK'
  <2> SUFFICES ASSUME RampTypeOK, [RampNext]_rampVars PROVE RampTypeOK'
    OBVIOUS
  <2> USE DEF RampTypeOK, Becomes
  <2>1. ASSUME NEW g \in Gigs, Admit(g) PROVE RampTypeOK'
    BY <2>1 DEF Admit
  <2>2. ASSUME NEW g \in Gigs, AskRamp(g) PROVE RampTypeOK'
    BY <2>2 DEF AskRamp
  <2>3. ASSUME NEW g \in Gigs, AskOperator(g) PROVE RampTypeOK'
    BY <2>3 DEF AskOperator
  <2>4. ASSUME NEW g \in Gigs, Fail(g) PROVE RampTypeOK'
    BY <2>4, CountsAreRecords DEF Fail, Reputations
  <2>5. ASSUME NEW g \in Gigs, NoClient(g) PROVE RampTypeOK'
    BY <2>5 DEF NoClient
  <2>6. ASSUME NEW g \in Gigs, Submit(g) PROVE RampTypeOK'
    BY <2>6 DEF Submit
  <2>7. ASSUME NEW g \in Gigs, Tally(g) PROVE RampTypeOK'
    BY <2>7, CountsAreRecords DEF Tally, Reputations
  <2>8. ASSUME NEW g \in Gigs, Credit(g) PROVE RampTypeOK'
    <3>1. Won(record) \in Reputations
      BY CountsAreRecords DEF Reputations
    <3>2. record' \in Reputations
      BY <2>8, <3>1 DEF Credit, Reputations
    <3> QED
      BY <2>8, <3>2 DEF Credit, Reputations
  <2>9. CASE UNCHANGED rampVars
    BY <2>9 DEF rampVars
  <2> QED
    BY <2>1, <2>2, <2>3, <2>4, <2>5, <2>6, <2>7, <2>8, <2>9 DEF RampNext
<1> QED
  BY <1>1, <1>2, PTL DEF RampSpec

-----------------------------------------------------------------------------
(* The ramp is earned. *)

LEMMA PaidInvHolds == RampSpec => []PaidInv
<1>1. RampInit => PaidInv
  BY DEF RampInit, PaidInv, Zero
<1>2. RampTypeOK /\ PaidInv /\ [RampNext]_rampVars => PaidInv'
  <2> SUFFICES ASSUME RampTypeOK, PaidInv, [RampNext]_rampVars PROVE PaidInv'
    OBVIOUS
  <2> USE DEF RampTypeOK, PaidInv, Becomes
  <2>1. ASSUME NEW g \in Gigs, Admit(g) PROVE PaidInv'
    BY <2>1 DEF Admit
  <2>2. ASSUME NEW g \in Gigs, AskRamp(g) PROVE PaidInv'
    BY <2>2 DEF AskRamp
  <2>3. ASSUME NEW g \in Gigs, AskOperator(g) PROVE PaidInv'
    BY <2>3 DEF AskOperator
  <2>4. ASSUME NEW g \in Gigs, Fail(g) PROVE PaidInv'
    BY <2>4, CountsAreRecords DEF Fail, Reputations
  <2>5. ASSUME NEW g \in Gigs, NoClient(g) PROVE PaidInv'
    BY <2>5 DEF NoClient
  <2>6. ASSUME NEW g \in Gigs, Submit(g) PROVE PaidInv'
    BY <2>6 DEF Submit
  <2>7. ASSUME NEW g \in Gigs, Tally(g) PROVE PaidInv'
    BY <2>7, CountsAreRecords DEF Tally, Reputations
  <2>8. ASSUME NEW g \in Gigs, Credit(g) PROVE PaidInv'
    <3>1. g \in sent' /\ proposal'[g] = "paid"
      BY <2>8 DEF Credit
    <3> QED
      BY <2>8, <3>1 DEF Credit
  <2>9. CASE UNCHANGED rampVars
    BY <2>9 DEF rampVars
  <2> QED
    BY <2>1, <2>2, <2>3, <2>4, <2>5, <2>6, <2>7, <2>8, <2>9 DEF RampNext
<1> QED
  BY <1>1, <1>2, RampTypeCorrect, PTL DEF RampSpec

\* The operator is only passed over on a platform with a win on record.
LEMMA RateNeedsAWin ==
  ASSUME NEW r \in [attempts : Nat, wins : Nat, losses : Nat], ~HumanNeeded(r)
  PROVE  r.wins # 0
<1>1. r.attempts >= 1 /\ RateNeeded >= 1 /\ RateNeeded \in Nat /\ r.attempts \in Nat
  BY RampAssumption DEF HumanNeeded
<1>2. RateNeeded * r.attempts >= 1
  BY <1>1
<1>3. r.wins * 100 >= 1
  BY <1>1, <1>2 DEF HumanNeeded
<1> QED
  BY <1>3

\* No number of submissions, refusals or errors opens the ramp: the loop is let
\* past the human only where a gig that was sent has been paid (requires_human).
THEOREM RampOpensOnPayments == RampSpec => RampIsEarned
<1>1. RampTypeOK /\ PaidInv /\ [RampNext]_rampVars =>
        [\A g \in Gigs : proposal[g] = "admitted" /\ proposal'[g] = "cleared" =>
           \E paid \in sent : proposal[paid] = "paid"]_rampVars
  <2> SUFFICES ASSUME RampTypeOK, PaidInv, RampNext,
                      NEW g \in Gigs,
                      proposal[g] = "admitted", proposal'[g] = "cleared"
               PROVE  \E paid \in sent : proposal[paid] = "paid"
    BY DEF rampVars
  <2>1. AskRamp(g)
    BY DEF RampTypeOK, RampNext, Admit, AskRamp, AskOperator, Fail, NoClient, Submit,
           Tally, Credit, Becomes
  <2>2. ~HumanNeeded(record)
    BY <2>1 DEF AskRamp, Becomes, RampTypeOK
  <2>3. record.wins # 0
    BY <2>2, RateNeedsAWin DEF RampTypeOK
  <2> QED
    BY <2>3 DEF PaidInv
<1> QED
  BY <1>1, RampTypeCorrect, PaidInvHolds, PTL DEF RampSpec, RampIsEarned

-----------------------------------------------------------------------------
(* At most half the attempts are won. *)

LEMMA TalliedIsFinite ==
  /\ IsFiniteSet(Tallied) /\ IsFiniteSet(Paid)
  /\ Cardinality(Tallied) \in Nat /\ Cardinality(Paid) \in Nat
  /\ Cardinality(Paid) <= Cardinality(Tallied)
<1>1. Paid \subseteq Tallied /\ Tallied \subseteq Gigs
  BY DEF Paid, Tallied
<1>2. IsFiniteSet(Tallied)
  BY <1>1, RampAssumption, FS_Subset
<1> QED
  BY <1>1, <1>2, FS_Subset, FS_CardinalityType

LEMMA TallyInvHolds == RampSpec => []TallyInv
<1>1. RampInit => TallyInv
  <2> SUFFICES ASSUME RampInit PROVE TallyInv
    OBVIOUS
  <2>1. Tallied = {}
    BY DEF RampInit, Tallied
  <2> QED
    BY <2>1, FS_EmptySet DEF RampInit, TallyInv, Zero
<1>2. RampTypeOK /\ TallyInv /\ [RampNext]_rampVars => TallyInv'
  <2> SUFFICES ASSUME RampTypeOK, TallyInv, [RampNext]_rampVars PROVE TallyInv'
    OBVIOUS
  <2>n. Cardinality(Tallied) \in Nat
    BY TalliedIsFinite
  <2>1. ASSUME NEW g \in Gigs, Admit(g) \/ AskRamp(g) \/ AskOperator(g) \/ NoClient(g)
                               \/ Submit(g)
        PROVE  TallyInv'
    <3>1. Tallied' = Tallied
      BY <2>1 DEF Tallied, Admit, AskRamp, AskOperator, NoClient, Submit, Becomes, RampTypeOK
    <3> QED
      BY <2>1, <3>1 DEF TallyInv, Admit, AskRamp, AskOperator, NoClient, Submit
  <2>2. ASSUME NEW g \in Gigs, Fail(g) PROVE TallyInv'
    <3>1. Tallied' = Tallied
      BY <2>2 DEF Tallied, Fail, Becomes, RampTypeOK
    <3> QED
      BY <2>2, <2>n, <3>1, CountsAreRecords DEF TallyInv, Fail, RampTypeOK, Reputations
  <2>3. ASSUME NEW g \in Gigs, Tally(g) PROVE TallyInv'
    <3>1. record'.attempts = record.attempts + 1 /\ record'.wins = record.wins
      BY <2>3, CountsAreRecords DEF Tally, RampTypeOK, Reputations
    <3>2. Tallied' = Tallied \cup {g} \/ Tallied' = Tallied
      BY <2>3 DEF Tallied, Tally, Becomes, RampTypeOK
    <3>f. IsFiniteSet(Tallied)
      BY TalliedIsFinite
    <3>a. Cardinality(Tallied \cup {g}) =
            IF g \in Tallied THEN Cardinality(Tallied) ELSE Cardinality(Tallied) + 1
      BY <3>f, FS_AddElement
    <3>c. Cardinality(Tallied \cup {g}) \in Nat
          /\ Cardinality(Tallied \cup {g}) <= Cardinality(Tallied) + 1
      BY <2>n, <3>a
    <3>3. Cardinality(Tallied') <= Cardinality(Tallied) + 1
      BY <3>2, <3>c, <2>n
    <3>4. Cardinality(Tallied') \in Nat
      BY <3>2, <3>c, <2>n
    <3> QED
      BY <2>3, <2>n, <3>1, <3>3, <3>4 DEF TallyInv, Tally, RampTypeOK
  <2>4. ASSUME NEW g \in Gigs, Credit(g) PROVE TallyInv'
    <3>1. Tallied' = Tallied
      BY <2>4 DEF Tallied, Credit, Becomes, RampTypeOK
    <3>2. \/ record' = record
          \/ record'.attempts = record.attempts + 1 /\ record'.wins = record.wins + 1
      BY <2>4, CountsAreRecords DEF Credit, RampTypeOK, Reputations
    <3>3. credits' = credits + 1
      BY <2>4 DEF Credit
    <3> QED
      BY <2>n, <3>1, <3>2, <3>3 DEF TallyInv, RampTypeOK
  <2>5. CASE UNCHANGED rampVars
    BY <2>5 DEF rampVars, TallyInv, Tallied
  <2> QED
    BY <2>1, <2>2, <2>3, <2>4, <2>5 DEF RampNext
<1> QED
  BY <1>1, <1>2, RampTypeCorrect, PTL DEF RampSpec

\* As long as each payment is verified once, at most half the attempts on the
\* record are wins, however the proposals ended (record_attempt, record_win).
THEOREM WinsStayHalf == RampSpec => []WinsAreHalf
<1>1. RampTypeOK /\ TallyInv => WinsAreHalf
  BY TalliedIsFinite DEF RampTypeOK, TallyInv, WinsAreHalf, Paid
<1> QED
  BY <1>1, RampTypeCorrect, TallyInvHolds, PTL

-----------------------------------------------------------------------------
(* The providers. *)


\* Past the check of the circuit, of the daily calls, of the budget.
Calling(p) == {c \in Callers : turn[c].provider = p
                               /\ step[c] \in {"budget", "cap", "token", "call"}}
Capped(p) == {c \in Callers : turn[c].provider = p /\ step[c] = "token"}
Paying == {c \in Callers : Billable(turn[c].provider)
                           /\ step[c] \in {"cap", "token", "call"}}

DeadInv == \A p \in Providers :
  /\ circuit[p] = "closed" => failures[p] < Threshold
  /\ circuit[p] # "closed" => failures[p] + Cardinality(Calling(p)) <= Threshold + Others

DailyInv == \A p \in Providers :
  /\ counted[p] = today[p]
  /\ Billable(p) => today[p] + Cardinality(Capped(p)) <= DailyCalls + Others

BudgetInv == spent + Cardinality(Paying) <= Budget + Others

-----------------------------------------------------------------------------
(* Where a step takes its caller. *)

Steps == {"idle", "circuit", "budget", "cap", "token", "call"}
Turns == [attempt : 1 .. Attempts, provider : Providers]
CallersOK == step \in [Callers -> Steps] /\ turn \in [Callers -> Turns]
Leaves(c) == /\ step'[c] \in {"circuit", "idle"}
             /\ \A d \in Callers \ {c} : step'[d] = step[d] /\ turn'[d] = turn[d]

LEMMA ConstantTypes ==
  /\ {Local, Cloud, MaxCalls, Attempts, Threshold, DailyCalls, Budget} \subseteq Nat
  /\ Local + Cloud >= 1 /\ Attempts >= 1 /\ Threshold >= 1 /\ DailyCalls >= 1
  /\ Budget >= 1 /\ First \in Turns /\ 1 \in Providers
  BY FailoverAssumption DEF First, Turns, Providers

LEMMA SomeCallers ==
  IsFiniteSet(Callers) /\ Cardinality(Callers) \in Nat /\ Cardinality(Callers) >= 1
    /\ Others \in Nat /\ Cardinality(Callers) = Others + 1
<1>1. IsFiniteSet(Callers) /\ Callers # {}
  BY FailoverAssumption
<1>2. Cardinality(Callers) \in Nat
  BY <1>1, FS_CardinalityType
<1>3. Cardinality(Callers) # 0
  BY <1>1, FS_EmptySet
<1> QED
  BY <1>1, <1>2, <1>3 DEF Others

LEMMA SkipLeaves ==
  ASSUME NEW c \in Callers, CallersOK, Skip(c)
  PROVE  CallersOK' /\ Leaves(c)
<1> USE DEF CallersOK
<1>1. CASE turn[c].provider < Local + Cloud
  <2>1. step' = [step EXCEPT ![c] = "circuit"]
    BY <1>1 DEF Skip, Goes
  <2>2. turn' = [turn EXCEPT ![c].provider = @ + 1]
    BY <1>1 DEF Skip
  <2>3. turn[c] \in Turns
    OBVIOUS
  <2>4. [turn[c] EXCEPT !.provider = @ + 1] \in Turns
    BY <1>1, <2>3, ConstantTypes DEF Turns, Providers
  <2>5. turn' \in [Callers -> Turns] /\ \A d \in Callers \ {c} : turn'[d] = turn[d]
    BY <2>2, <2>4
  <2> QED
    BY <2>1, <2>5 DEF Leaves, Steps
<1>2. CASE ~(turn[c].provider < Local + Cloud) /\ turn[c].attempt < Attempts
  <2>1. step' = [step EXCEPT ![c] = "circuit"]
    BY <1>2 DEF Skip, Goes
  <2>2. turn' = [turn EXCEPT ![c] = [attempt |-> turn[c].attempt + 1, provider |-> 1]]
    BY <1>2 DEF Skip
  <2>3. turn[c] \in Turns
    OBVIOUS
  <2>4. [attempt |-> turn[c].attempt + 1, provider |-> 1] \in Turns
    BY <1>2, <2>3, ConstantTypes DEF Turns, Providers
  <2>5. turn' \in [Callers -> Turns] /\ \A d \in Callers \ {c} : turn'[d] = turn[d]
    BY <2>2, <2>4
  <2> QED
    BY <2>1, <2>5 DEF Leaves, Steps
<1>3. CASE ~(turn[c].provider < Local + Cloud) /\ ~(turn[c].attempt < Attempts)
  <2>1. step' = [step EXCEPT ![c] = "idle"] /\ turn' = [turn EXCEPT ![c] = First]
    BY <1>3 DEF Skip, Goes
  <2> QED
    BY <2>1, ConstantTypes DEF Leaves, Steps
<1> QED
  BY <1>1, <1>2, <1>3

\* A caller that leaves a provider is on the way to none.
LEMMA LeavesAll ==
  ASSUME NEW c \in Callers, CallersOK, CallersOK', Leaves(c)
  PROVE  /\ \A p \in Providers : Calling(p)' = Calling(p) \ {c}
         /\ \A p \in Providers : Capped(p)' = Capped(p) \ {c}
         /\ Paying' = Paying \ {c}
  BY DEF CallersOK, Leaves, Calling, Capped, Paying, Billable

\* A caller that passes a check stays with its provider.
Passes(c, to) == step' = [step EXCEPT ![c] = to] /\ turn' = turn

LEMMA PassesOne ==
  ASSUME NEW c \in Callers, NEW to \in Steps, CallersOK, Passes(c, to)
  PROVE  /\ CallersOK'
         /\ \A p \in Providers \ {turn[c].provider} :
              Calling(p)' = Calling(p) /\ Capped(p)' = Capped(p)
         /\ step[c] # "circuit" /\ to \notin {"idle", "circuit"} /\ step[c] # "idle" =>
              \A p \in Providers : Calling(p)' = Calling(p)
         /\ to # "token" => \A p \in Providers : Capped(p)' = Capped(p) \ {c}
         /\ step[c] \in {"cap", "token", "call"} /\ to \in {"cap", "token", "call"} =>
              Paying' = Paying
         /\ to \notin {"cap", "token", "call"} \/ ~Billable(turn[c].provider) =>
              Paying' = Paying \ {c}
<1> USE DEF CallersOK, Passes, Steps
<1>1. CallersOK' /\ turn' = turn /\ step'[c] = to
      /\ \A d \in Callers \ {c} : step'[d] = step[d]
  OBVIOUS
<1>2. \A p \in Providers \ {turn[c].provider} :
        Calling(p)' = Calling(p) /\ Capped(p)' = Capped(p)
  BY <1>1 DEF Calling, Capped
<1>3. step[c] # "circuit" /\ to \notin {"idle", "circuit"} /\ step[c] # "idle" =>
        \A p \in Providers : Calling(p)' = Calling(p)
  BY <1>1 DEF Calling
<1>4. to # "token" => \A p \in Providers : Capped(p)' = Capped(p) \ {c}
  BY <1>1 DEF Capped
<1>5. step[c] \in {"cap", "token", "call"} /\ to \in {"cap", "token", "call"} =>
        Paying' = Paying
  BY <1>1 DEF Paying
<1>6. to \notin {"cap", "token", "call"} \/ ~Billable(turn[c].provider) =>
        Paying' = Paying \ {c}
  BY <1>1 DEF Paying
<1> QED
  BY <1>1, <1>2, <1>3, <1>4, <1>5, <1>6

\* Those on the way, as numbers.
LEMMA Counting ==
  ASSUME NEW S, S \subseteq Callers
  PROVE  /\ IsFiniteSet(S) /\ Cardinality(S) \in Nat
         /\ Cardinality(S) <= Others + 1
         /\ \A c \in Callers : /\ Cardinality(S \ {c}) \in Nat
                               /\ Cardinality(S \ {c}) <= Cardinality(S)
                               /\ Cardinality(S \ {c}) <= Others
                               /\ c \in S => Cardinality(S \ {c}) = Cardinality(S) - 1
<1>1. IsFiniteSet(S) /\ Cardinality(S) <= Cardinality(Callers)
  BY SomeCallers, FS_Subset
<1>2. Cardinality(S) \in Nat
  BY <1>1, FS_CardinalityType
<1>3. ASSUME NEW c \in Callers
      PROVE  /\ Cardinality(S \ {c}) \in Nat /\ Cardinality(S \ {c}) <= Cardinality(S)
             /\ Cardinality(S \ {c}) <= Others
             /\ c \in S => Cardinality(S \ {c}) = Cardinality(S) - 1
  <2>1. Cardinality(S \ {c}) = IF c \in S THEN Cardinality(S) - 1 ELSE Cardinality(S)
    BY <1>1, FS_RemoveElement
  <2>2. IsFiniteSet(S \ {c})
    BY <1>1, FS_RemoveElement
  <2>3. Cardinality(S \ {c}) \in Nat
    BY <2>2, FS_CardinalityType
  <2>4. IsFiniteSet(Callers \ {c}) /\ Cardinality(Callers \ {c}) = Cardinality(Callers) - 1
    BY SomeCallers, FS_RemoveElement
  <2>5. Cardinality(S \ {c}) <= Cardinality(Callers \ {c})
    <3>1. S \ {c} \subseteq Callers \ {c}
      OBVIOUS
    <3> QED
      BY <2>4, <3>1, FS_Subset
  <2> QED
    BY <1>2, <2>1, <2>3, <2>4, <2>5, SomeCallers
<1> QED
  BY <1>1, <1>2, <1>3, SomeCallers

-----------------------------------------------------------------------------

\* Callers, breaker and counters keep their types.
THEOREM FailoverTypeCorrect == FailoverSpec => []FailoverTypeOK
<1>1. FailoverInit => FailoverTypeOK
  BY ConstantTypes DEF FailoverInit, FailoverTypeOK, Turns
<1>2. FailoverTypeOK /\ [FailoverNext]_failoverVars => FailoverTypeOK'
  <2> SUFFICES ASSUME FailoverTypeOK, [FailoverNext]_failoverVars PROVE FailoverTypeOK'
    OBVIOUS
  <2> USE DEF FailoverTypeOK
  <2>0. CallersOK
    BY DEF CallersOK, Steps, Turns
  <2>c. ASSUME NEW c \in Callers, Skip(c)
        PROVE  /\ step' \in [Callers -> {"idle", "circuit", "budget", "cap", "token", "call"}]
               /\ turn' \in [Callers -> [attempt : 1 .. Attempts, provider : Providers]]
    BY <2>0, <2>c, SkipLeaves DEF CallersOK, Steps, Turns
  <2>p. ASSUME NEW c \in Callers PROVE turn[c].provider \in Providers
    OBVIOUS
  <2>1. ASSUME NEW c \in Callers, Request(c) PROVE FailoverTypeOK'
    BY <2>1 DEF Request, Goes, breakerVars
  <2>2. ASSUME NEW c \in Callers, CheckCircuit(c) PROVE FailoverTypeOK'
    <3>1. failures' \in [Providers -> Nat] /\ circuit' \in [Providers -> {"closed", "open", "lapsed"}]
      BY <2>2, <2>p DEF CheckCircuit, Rested, breakerVars
    <3>2. /\ step' \in [Callers -> {"idle", "circuit", "budget", "cap", "token", "call"}]
          /\ turn' \in [Callers -> [attempt : 1 .. Attempts, provider : Providers]]
      BY <2>2, <2>c DEF CheckCircuit, Goes
    <3> QED
      BY <2>2, <3>1, <3>2 DEF CheckCircuit
  <2>3. ASSUME NEW c \in Callers, CheckBudget(c) \/ CheckCap(c) PROVE FailoverTypeOK'
    <3>1. /\ step' \in [Callers -> {"idle", "circuit", "budget", "cap", "token", "call"}]
          /\ turn' \in [Callers -> [attempt : 1 .. Attempts, provider : Providers]]
      BY <2>3, <2>c DEF CheckBudget, CheckCap, Goes
    <3> QED
      BY <2>3, <3>1 DEF CheckBudget, CheckCap, breakerVars
  <2>4. ASSUME NEW c \in Callers, Acquire(c) PROVE FailoverTypeOK'
    <3>1. /\ step' \in [Callers -> {"idle", "circuit", "budget", "cap", "token", "call"}]
          /\ turn' \in [Callers -> [attempt : 1 .. Attempts, provider : Providers]]
      BY <2>4, <2>c DEF Acquire, Goes
    <3>2. counted' \in [Providers -> Nat] /\ today' \in [Providers -> Nat]
      BY <2>4, <2>p DEF Acquire
    <3> QED
      BY <2>4, <3>1, <3>2 DEF Acquire, breakerVars
  <2>5. ASSUME NEW c \in Callers, Answered(c) PROVE FailoverTypeOK'
    <3>1. /\ step' \in [Callers -> {"idle", "circuit", "budget", "cap", "token", "call"}]
          /\ turn' \in [Callers -> [attempt : 1 .. Attempts, provider : Providers]]
      BY <2>5, <2>c, ConstantTypes DEF Answered, Goes, Turns
    <3>2. failures' \in [Providers -> Nat] /\ circuit' \in [Providers -> {"closed", "open", "lapsed"}]
      BY <2>5, <2>p DEF Answered, RecordSuccess, RecordFailure, breakerVars
    <3>3. spent' \in Nat
      BY <2>5 DEF Answered
    <3> QED
      BY <2>5, <3>1, <3>2, <3>3 DEF Answered
  <2>6. ASSUME NEW p \in Providers, Lapse(p) PROVE FailoverTypeOK'
    BY <2>6 DEF Lapse
  <2>7. CASE NextDay \/ Age
    BY <2>7 DEF NextDay, Age, breakerVars
  <2>8. CASE Reboot
    BY <2>8, ConstantTypes DEF Reboot, Turns
  <2>9. CASE UNCHANGED failoverVars
    BY <2>9 DEF failoverVars, breakerVars
  <2> QED
    BY <2>1, <2>2, <2>3, <2>4, <2>5, <2>6, <2>7, <2>8, <2>9 DEF FailoverNext
<1> QED
  BY <1>1, <1>2, PTL DEF FailoverSpec

-----------------------------------------------------------------------------
(* The circuit breaker. *)

\* A caller that leaves without a word to the breaker.
LEMMA DeadInvLeaves ==
  ASSUME FailoverTypeOK, FailoverTypeOK', DeadInv, NEW c \in Callers, Leaves(c),
         UNCHANGED breakerVars
  PROVE  DeadInv'
<1>1. CallersOK /\ CallersOK'
  BY DEF FailoverTypeOK, CallersOK, Steps, Turns
<1> SUFFICES ASSUME NEW p \in Providers, circuit[p] # "closed"
             PROVE  failures[p] + Cardinality(Calling(p)') <= Threshold + Others
  BY DEF DeadInv, breakerVars
<1>2. Calling(p)' = Calling(p) \ {c}
  BY <1>1, LeavesAll
<1>3. /\ Cardinality(Calling(p)) \in Nat /\ Cardinality(Calling(p) \ {c}) \in Nat
      /\ Cardinality(Calling(p) \ {c}) <= Cardinality(Calling(p))
  BY Counting DEF Calling
<1>4. failures[p] \in Nat /\ Threshold \in Nat /\ Others \in Nat
  BY ConstantTypes, SomeCallers DEF FailoverTypeOK
<1> QED
  BY <1>2, <1>3, <1>4 DEF DeadInv

LEMMA DeadInvPasses ==
  ASSUME FailoverTypeOK, DeadInv, NEW c \in Callers, NEW to \in Steps, Passes(c, to),
         step[c] \notin {"idle", "circuit"}, to \notin {"idle", "circuit"},
         UNCHANGED breakerVars
  PROVE  DeadInv'
<1>1. CallersOK
  BY DEF FailoverTypeOK, CallersOK, Steps, Turns
<1>2. \A p \in Providers : Calling(p)' = Calling(p)
  BY <1>1, PassesOne
<1> QED
  BY <1>2 DEF DeadInv, breakerVars

\* The breaker hears that a call has failed.
LEMMA DeadInvFails ==
  ASSUME FailoverTypeOK, FailoverTypeOK', DeadInv, NEW c \in Callers,
         step[c] = "call", RecordFailure(turn[c].provider), Leaves(c)
  PROVE  DeadInv'
<1>p. PICK p \in Providers : p = turn[c].provider
  BY DEF FailoverTypeOK
<1>1. CallersOK /\ CallersOK'
  BY DEF FailoverTypeOK, CallersOK, Steps, Turns
<1>2. \A q \in Providers : Calling(q)' = Calling(q) \ {c}
  BY <1>1, LeavesAll
<1>3. ASSUME NEW q \in Providers
      PROVE  /\ Cardinality(Calling(q)) \in Nat /\ Cardinality(Calling(q) \ {c}) \in Nat
             /\ Cardinality(Calling(q) \ {c}) <= Cardinality(Calling(q))
             /\ Cardinality(Calling(q) \ {c}) <= Others
             /\ c \in Calling(q) => Cardinality(Calling(q) \ {c}) = Cardinality(Calling(q)) - 1
  BY Counting DEF Calling
<1>4. c \in Calling(p)
  BY <1>p DEF Calling
<1>5. Threshold \in Nat /\ Others \in Nat /\ \A q \in Providers : failures[q] \in Nat
  BY ConstantTypes, SomeCallers DEF FailoverTypeOK
<1>6. /\ failures' = [failures EXCEPT ![p] = failures[p] + 1]
      /\ circuit' = [circuit EXCEPT ![p] = IF failures[p] + 1 >= Threshold THEN "open" ELSE @]
  BY <1>p DEF RecordFailure
<1>7. failures \in [Providers -> Nat] /\ circuit \in [Providers -> {"closed", "open", "lapsed"}]
  BY DEF FailoverTypeOK
<1>8. ASSUME NEW q \in Providers, q # p
      PROVE  /\ circuit'[q] = "closed" => failures'[q] < Threshold
             /\ circuit'[q] # "closed" => failures'[q] + Cardinality(Calling(q)') <= Threshold + Others
  <2>1. failures'[q] = failures[q] /\ circuit'[q] = circuit[q]
    BY <1>6, <1>7, <1>8
  <2> QED
    BY <2>1, <1>2, <1>3, <1>5 DEF DeadInv
<1>9. /\ circuit'[p] = "closed" => failures'[p] < Threshold
      /\ circuit'[p] # "closed" => failures'[p] + Cardinality(Calling(p)') <= Threshold + Others
  <2>1. failures'[p] = failures[p] + 1
        /\ circuit'[p] = IF failures[p] + 1 >= Threshold THEN "open" ELSE circuit[p]
    BY <1>1, <1>6, <1>7
  <2>2. CASE circuit[p] = "closed"
    <3>1. failures[p] < Threshold
      BY <1>1, <2>2 DEF DeadInv
    <3> QED
      BY <1>1, <1>2, <1>3, <1>5, <2>1, <2>2, <3>1
  <2>3. CASE circuit[p] # "closed"
    <3>1. failures[p] + Cardinality(Calling(p)) <= Threshold + Others
      BY <1>1, <2>3 DEF DeadInv
    <3> QED
      BY <1>1, <1>2, <1>3, <1>4, <1>5, <2>1, <2>3, <3>1
  <2> QED
    BY <2>2, <2>3
<1> QED
  BY <1>8, <1>9 DEF DeadInv

\* The breaker hears that a call has succeeded.
LEMMA DeadInvSucceeds ==
  ASSUME FailoverTypeOK, FailoverTypeOK', DeadInv, NEW c \in Callers,
         RecordSuccess(turn[c].provider), Leaves(c)
  PROVE  DeadInv'
<1>p. PICK p \in Providers : p = turn[c].provider
  BY DEF FailoverTypeOK
<1>1. CallersOK /\ CallersOK'
  BY DEF FailoverTypeOK, CallersOK, Steps, Turns
<1>2. \A q \in Providers : Calling(q)' = Calling(q) \ {c}
  BY <1>1, LeavesAll
<1>3. ASSUME NEW q \in Providers
      PROVE  /\ Cardinality(Calling(q)) \in Nat /\ Cardinality(Calling(q) \ {c}) \in Nat
             /\ Cardinality(Calling(q) \ {c}) <= Cardinality(Calling(q))
  BY Counting DEF Calling
<1>4. Threshold \in Nat /\ Threshold >= 1 /\ Others \in Nat /\ \A q \in Providers : failures[q] \in Nat
  BY ConstantTypes, SomeCallers DEF FailoverTypeOK
<1>5. /\ failures' = [failures EXCEPT ![p] = 0] /\ circuit' = [circuit EXCEPT ![p] = "closed"]
      /\ failures \in [Providers -> Nat] /\ circuit \in [Providers -> {"closed", "open", "lapsed"}]
  BY <1>p DEF RecordSuccess, FailoverTypeOK
<1>6. failures'[p] = 0 /\ circuit'[p] = "closed"
  BY <1>1, <1>5
<1>7. ASSUME NEW q \in Providers, q # p
      PROVE  /\ circuit'[q] = "closed" => failures'[q] < Threshold
             /\ circuit'[q] # "closed" => failures'[q] + Cardinality(Calling(q)') <= Threshold + Others
  <2>1. failures'[q] = failures[q] /\ circuit'[q] = circuit[q]
    BY <1>5, <1>7
  <2> QED
    BY <2>1, <1>2, <1>3, <1>4 DEF DeadInv
<1> QED
  BY <1>4, <1>6, <1>7 DEF DeadInv

\* A failing provider is called no more often than the threshold says, but for the
\* calls that had passed the check when its circuit opened (is_open, record_failure).
THEOREM DeadProvidersAreLeft == FailoverSpec => []DeadProviderIsLeftAlone
<1>1. FailoverInit => DeadInv
  BY ConstantTypes DEF FailoverInit, DeadInv
<1>2. FailoverTypeOK /\ FailoverTypeOK' /\ DeadInv /\ [FailoverNext]_failoverVars => DeadInv'
  <2> SUFFICES ASSUME FailoverTypeOK, FailoverTypeOK', DeadInv, [FailoverNext]_failoverVars
               PROVE  DeadInv'
    OBVIOUS
  <2>0. CallersOK
    BY DEF FailoverTypeOK, CallersOK, Steps, Turns
  <2>s. ASSUME NEW c \in Callers, Skip(c), UNCHANGED breakerVars PROVE DeadInv'
    BY <2>0, <2>s, SkipLeaves, DeadInvLeaves
  <2>1. ASSUME NEW c \in Callers, Request(c) PROVE DeadInv'
    <3>1. Leaves(c) /\ UNCHANGED breakerVars
      BY <2>0, <2>1 DEF Request, Goes, Leaves, CallersOK
    <3> QED
      BY <3>1, DeadInvLeaves
  <2>2. ASSUME NEW c \in Callers, CheckCircuit(c) PROVE DeadInv'
    <3> DEFINE p == turn[c].provider
    <3>1. p \in Providers
      BY <2>0 DEF CallersOK, Turns
    <3>2. CASE IsOpen(p)
      <4>1. Skip(c) /\ UNCHANGED breakerVars
        BY <2>2, <3>2 DEF CheckCircuit, IsOpen, Rested
      <4> QED
        BY <4>1, <2>s
    <3>3. CASE ~IsOpen(p)
      <4>1. Passes(c, "budget")
        BY <2>2, <3>3 DEF CheckCircuit, Goes, Passes
      <4>2. \A q \in Providers \ {p} : Calling(q)' = Calling(q)
        BY <2>0, <4>1, PassesOne DEF Steps
      <4>3. \A q \in Providers \ {p} : failures'[q] = failures[q] /\ circuit'[q] = circuit[q]
        BY <2>2, <3>1 DEF CheckCircuit, Rested, FailoverTypeOK, breakerVars
      <4>4. circuit'[p] = "closed" /\ failures'[p] < Threshold
        BY <2>2, <3>1, <3>3, ConstantTypes
        DEF CheckCircuit, Rested, IsOpen, FailoverTypeOK, breakerVars, DeadInv
      <4> HIDE DEF p
      <4> QED
        BY <4>2, <4>3, <4>4 DEF DeadInv
    <3> QED
      BY <3>2, <3>3
  <2>3. ASSUME NEW c \in Callers, CheckBudget(c) PROVE DeadInv'
    <3>1. \/ Skip(c) /\ UNCHANGED breakerVars
          \/ Passes(c, "cap") /\ step[c] = "budget" /\ UNCHANGED breakerVars
      BY <2>3 DEF CheckBudget, Goes, Passes
    <3> QED
      BY <3>1, <2>s, DeadInvPasses DEF Steps
  <2>4. ASSUME NEW c \in Callers, CheckCap(c) PROVE DeadInv'
    <3>1. \/ Skip(c) /\ UNCHANGED breakerVars
          \/ Passes(c, "token") /\ step[c] = "cap" /\ UNCHANGED breakerVars
      BY <2>4 DEF CheckCap, Goes, Passes
    <3> QED
      BY <3>1, <2>s, DeadInvPasses DEF Steps
  <2>5. ASSUME NEW c \in Callers, Acquire(c) PROVE DeadInv'
    <3>1. \/ Skip(c) /\ UNCHANGED breakerVars
          \/ Passes(c, "call") /\ step[c] = "token" /\ UNCHANGED breakerVars
      BY <2>5 DEF Acquire, Goes, Passes
    <3> QED
      BY <3>1, <2>s, DeadInvPasses DEF Steps
  <2>6. ASSUME NEW c \in Callers, Answered(c) PROVE DeadInv'
    <3>1. CASE RecordSuccess(turn[c].provider) /\ Goes(c, "idle")
               /\ turn' = [turn EXCEPT ![c] = First]
      <4>1. Leaves(c)
        BY <2>0, <3>1 DEF Goes, Leaves, CallersOK
      <4> QED
        BY <3>1, <4>1, DeadInvSucceeds
    <3>2. CASE RecordFailure(turn[c].provider) /\ Skip(c)
      <4>1. Leaves(c) /\ step[c] = "call"
        BY <2>0, <2>6, <3>2, SkipLeaves DEF Answered
      <4> QED
        BY <3>2, <4>1, DeadInvFails
    <3>3. CASE UNCHANGED breakerVars /\ Skip(c)
      BY <3>3, <2>s
    <3> QED
      BY <2>6, <3>1, <3>2, <3>3 DEF Answered
  <2>7. ASSUME NEW p \in Providers, Lapse(p) PROVE DeadInv'
    <3>1. \A q \in Providers : Calling(q)' = Calling(q)
      BY <2>7 DEF Lapse, Calling
    <3>2. \A q \in Providers : failures'[q] = failures[q]
                              /\ (circuit'[q] = "closed" <=> circuit[q] = "closed")
      BY <2>7 DEF Lapse, FailoverTypeOK
    <3> QED
      BY <3>1, <3>2 DEF DeadInv
  <2>8. CASE NextDay \/ Age \/ UNCHANGED failoverVars
    BY <2>8 DEF NextDay, Age, failoverVars, breakerVars, DeadInv, Calling
  <2>9. CASE Reboot
    BY <2>9, ConstantTypes DEF Reboot, DeadInv
  <2> QED
    BY <2>1, <2>2, <2>3, <2>4, <2>5, <2>6, <2>7, <2>8, <2>9 DEF FailoverNext
<1>3. FailoverTypeOK /\ DeadInv => DeadProviderIsLeftAlone
  <2> SUFFICES ASSUME FailoverTypeOK, DeadInv, NEW p \in Providers
               PROVE  failures[p] <= Threshold + Others
    BY DEF DeadProviderIsLeftAlone
  <2>1. Cardinality(Calling(p)) \in Nat
    BY Counting DEF Calling
  <2> QED
    BY <2>1, ConstantTypes, SomeCallers DEF FailoverTypeOK, DeadInv
<1> QED
  BY <1>1, <1>2, <1>3, FailoverTypeCorrect, PTL DEF FailoverSpec

-----------------------------------------------------------------------------
(* The daily calls. *)

\* A step in which nobody gets past the daily check, and nothing is counted.
LEMMA DailyInvShrinks ==
  ASSUME FailoverTypeOK, DailyInv, UNCHANGED <<counted, today>>,
         \A p \in Providers : Capped(p)' \subseteq Capped(p)
  PROVE  DailyInv'
<1> SUFFICES ASSUME NEW p \in Providers, Billable(p)
             PROVE  today[p] + Cardinality(Capped(p)') <= DailyCalls + Others
  BY DEF DailyInv
<1>1. IsFiniteSet(Capped(p)) /\ Cardinality(Capped(p)) \in Nat
  BY Counting DEF Capped
<1>2. Capped(p)' \subseteq Capped(p)
  OBVIOUS
<1> DEFINE rest == Capped(p)'
<1> HIDE DEF rest
<1>3. Cardinality(rest) <= Cardinality(Capped(p)) /\ IsFiniteSet(rest)
  BY <1>1, <1>2, FS_Subset DEF rest
<1>4. Cardinality(rest) \in Nat
  BY <1>3, FS_CardinalityType
<1> QED
  BY <1>1, <1>3, <1>4, ConstantTypes, SomeCallers DEF rest, DailyInv, FailoverTypeOK

\* A caller gets past the daily check.
LEMMA DailyInvPasses ==
  ASSUME FailoverTypeOK, DailyInv, UNCHANGED <<counted, today>>, NEW c \in Callers,
         Passes(c, "token"),
         Billable(turn[c].provider) => counted[turn[c].provider] < DailyCalls
  PROVE  DailyInv'
<1>p. PICK p \in Providers : p = turn[c].provider
  BY DEF FailoverTypeOK
<1>1. CallersOK
  BY DEF FailoverTypeOK, CallersOK, Steps, Turns
<1>2. \A q \in Providers \ {p} : Capped(q)' = Capped(q)
  BY <1>1, <1>p, PassesOne DEF Steps
<1>3. ASSUME Billable(p) PROVE today[p] + Cardinality(Capped(p)') <= DailyCalls + Others
  <2>1. Capped(p)' \subseteq Callers
    BY DEF Capped
  <2> DEFINE past == Capped(p)'
  <2> HIDE DEF past
  <2>2. Cardinality(past) \in Nat /\ Cardinality(past) <= Others + 1
    BY <2>1, Counting DEF past
  <2>3. today[p] < DailyCalls /\ today[p] \in Nat
    BY <1>3, <1>p DEF DailyInv, FailoverTypeOK
  <2> QED
    BY <2>2, <2>3, ConstantTypes, SomeCallers DEF past
<1> QED
  BY <1>2, <1>3 DEF DailyInv

\* A call is counted.
LEMMA DailyInvCounts ==
  ASSUME FailoverTypeOK, FailoverTypeOK', DailyInv, NEW c \in Callers, Passes(c, "call"),
         step[c] = "token",
         counted' = [counted EXCEPT ![turn[c].provider] = @ + 1],
         today' = [today EXCEPT ![turn[c].provider] = @ + 1]
  PROVE  DailyInv'
<1>p. PICK p \in Providers : p = turn[c].provider
  BY DEF FailoverTypeOK
<1>1. CallersOK
  BY DEF FailoverTypeOK, CallersOK, Steps, Turns
<1>2. \A q \in Providers : Capped(q)' = Capped(q) \ {c}
  BY <1>1, PassesOne DEF Steps
<1>3. \A q \in Providers \ {p} : Capped(q)' = Capped(q)
  BY <1>1, <1>p, PassesOne DEF Steps
<1>4. /\ \A q \in Providers \ {p} : counted'[q] = counted[q] /\ today'[q] = today[q]
      /\ counted'[p] = counted[p] + 1 /\ today'[p] = today[p] + 1
      /\ counted[p] = today[p] /\ today[p] \in Nat
  BY <1>p DEF FailoverTypeOK, DailyInv
<1>5. c \in Capped(p)
  BY <1>p DEF Capped
<1>6. /\ Cardinality(Capped(p)) \in Nat
      /\ Cardinality(Capped(p) \ {c}) = Cardinality(Capped(p)) - 1
  BY <1>5, Counting DEF Capped
<1>7. ASSUME Billable(p) PROVE today'[p] + Cardinality(Capped(p)') <= DailyCalls + Others
  <2>1. today[p] + Cardinality(Capped(p)) <= DailyCalls + Others
    BY <1>7 DEF DailyInv
  <2>2. Cardinality(Capped(p)') = Cardinality(Capped(p)) - 1
    BY <1>2, <1>6
  <2> DEFINE before == Cardinality(Capped(p))
             after == Cardinality(Capped(p)')
  <2>3. before \in Nat /\ after = before - 1 /\ today[p] + before <= DailyCalls + Others
    BY <1>6, <2>1, <2>2
  <2> HIDE DEF before, after
  <2>4. today'[p] + after <= DailyCalls + Others
    BY <1>4, <2>3, ConstantTypes, SomeCallers
  <2> QED
    BY <2>4 DEF after
<1>8. ASSUME NEW q \in Providers, q # p
      PROVE  /\ counted'[q] = today'[q]
             /\ Billable(q) => today'[q] + Cardinality(Capped(q)') <= DailyCalls + Others
  BY <1>3, <1>4, <1>8 DEF DailyInv
<1> QED
  BY <1>4, <1>7, <1>8 DEF DailyInv

\* The calls of a day exceed the cap by no more than those that had been checked and
\* not yet counted, whatever the restarts (check, acquire).
THEOREM DailyCapHolds == FailoverSpec => []DailyCallsHold
<1>1. FailoverInit => DailyInv
  <2> SUFFICES ASSUME FailoverInit, NEW p \in Providers
               PROVE  counted[p] = today[p] /\ today[p] + Cardinality(Capped(p)) <= DailyCalls + Others
    BY DEF DailyInv
  <2>1. Capped(p) = {} /\ today[p] = 0 /\ counted[p] = 0
    BY DEF FailoverInit, Capped
  <2> QED
    BY <2>1, FS_EmptySet, ConstantTypes, SomeCallers
<1>2. FailoverTypeOK /\ FailoverTypeOK' /\ DailyInv /\ [FailoverNext]_failoverVars => DailyInv'
  <2> SUFFICES ASSUME FailoverTypeOK, FailoverTypeOK', DailyInv, [FailoverNext]_failoverVars
               PROVE  DailyInv'
    OBVIOUS
  <2>0. CallersOK /\ CallersOK'
    BY DEF FailoverTypeOK, CallersOK, Steps, Turns
  <2>l. ASSUME NEW c \in Callers, Leaves(c), UNCHANGED <<counted, today>> PROVE DailyInv'
    <3>1. \A p \in Providers : Capped(p)' \subseteq Capped(p)
      BY <2>0, <2>l, LeavesAll
    <3> QED
      BY <3>1, <2>l, DailyInvShrinks
  <2>s. ASSUME NEW c \in Callers, Skip(c), UNCHANGED <<counted, today>> PROVE DailyInv'
    BY <2>0, <2>s, <2>l, SkipLeaves
  <2>t. ASSUME NEW c \in Callers, NEW to \in Steps \ {"token"}, Passes(c, to),
               UNCHANGED <<counted, today>>
        PROVE  DailyInv'
    <3>1. \A p \in Providers : Capped(p)' \subseteq Capped(p)
      BY <2>0, <2>t, PassesOne
    <3> QED
      BY <3>1, <2>t, DailyInvShrinks
  <2>1. ASSUME NEW c \in Callers, Request(c) PROVE DailyInv'
    <3>1. Passes(c, "circuit") /\ UNCHANGED <<counted, today>>
      BY <2>1 DEF Request, Goes, Passes
    <3> QED
      BY <3>1, <2>t DEF Steps
  <2>2. ASSUME NEW c \in Callers, CheckCircuit(c) PROVE DailyInv'
    <3>1. (Skip(c) \/ Passes(c, "budget")) /\ UNCHANGED <<counted, today>>
      BY <2>2 DEF CheckCircuit, Goes, Passes
    <3> QED
      BY <3>1, <2>s, <2>t DEF Steps
  <2>3. ASSUME NEW c \in Callers, CheckBudget(c) PROVE DailyInv'
    <3>1. (Skip(c) \/ Passes(c, "cap")) /\ UNCHANGED <<counted, today>>
      BY <2>3 DEF CheckBudget, Goes, Passes
    <3> QED
      BY <3>1, <2>s, <2>t DEF Steps
  <2>4. ASSUME NEW c \in Callers, CheckCap(c) PROVE DailyInv'
    <3> DEFINE p == turn[c].provider
    <3>1. CASE Billable(p) /\ counted[p] >= DailyCalls
      BY <2>4, <3>1, <2>s DEF CheckCap
    <3>2. CASE ~(Billable(p) /\ counted[p] >= DailyCalls)
      <4>1. Passes(c, "token") /\ UNCHANGED <<counted, today>>
        BY <2>4, <3>2 DEF CheckCap, Goes, Passes
      <4>2. counted[p] \in Nat
        BY DEF FailoverTypeOK
      <4>3. Billable(p) => counted[p] < DailyCalls
        BY <3>2, <4>2, ConstantTypes
      <4> QED
        BY <4>1, <4>3, DailyInvPasses
    <3> QED
      BY <3>1, <3>2
  <2>5. ASSUME NEW c \in Callers, Acquire(c) PROVE DailyInv'
    <3>1. CASE Skip(c) /\ UNCHANGED <<counted, today>>
      BY <3>1, <2>s
    <3>2. CASE ~(Skip(c) /\ UNCHANGED <<counted, today>>)
      <4>1. /\ Passes(c, "call") /\ step[c] = "token"
            /\ counted' = [counted EXCEPT ![turn[c].provider] = @ + 1]
            /\ today' = [today EXCEPT ![turn[c].provider] = @ + 1]
        BY <2>5, <3>2 DEF Acquire, Goes, Passes
      <4> QED
        BY <4>1, DailyInvCounts
    <3> QED
      BY <3>1, <3>2
  <2>6. ASSUME NEW c \in Callers, Answered(c) PROVE DailyInv'
    <3>1. UNCHANGED <<counted, today>>
      BY <2>6 DEF Answered
    <3>2. Leaves(c)
      <4>1. CASE Skip(c)
        BY <2>0, <4>1, SkipLeaves
      <4>2. CASE Goes(c, "idle") /\ turn' = [turn EXCEPT ![c] = First]
        BY <2>0, <4>2 DEF Goes, Leaves, CallersOK
      <4> QED
        BY <2>6, <4>1, <4>2 DEF Answered
    <3> QED
      BY <3>1, <3>2, <2>l
  <2>7. CASE (\E p \in Providers : Lapse(p)) \/ Age \/ UNCHANGED failoverVars
    <3>1. UNCHANGED <<counted, today, step, turn>>
      BY <2>7 DEF Lapse, Age, failoverVars
    <3> QED
      BY <3>1 DEF DailyInv, Capped
  <2>8. CASE NextDay
    <3> SUFFICES ASSUME NEW p \in Providers
                 PROVE  counted'[p] = today'[p]
                        /\ today'[p] + Cardinality(Capped(p)') <= DailyCalls + Others
      BY DEF DailyInv
    <3>1. counted'[p] = 0 /\ today'[p] = 0
      BY <2>8 DEF NextDay
    <3>2. Capped(p)' \subseteq Callers
      BY DEF Capped
    <3> DEFINE past == Capped(p)'
    <3> HIDE DEF past
    <3>3. Cardinality(past) \in Nat /\ Cardinality(past) <= Others + 1
      BY <3>2, Counting DEF past
    <3> QED
      BY <3>1, <3>3, ConstantTypes, SomeCallers DEF past
  <2>9. CASE Reboot
    <3>1. \A p \in Providers : Capped(p)' \subseteq Capped(p)
      BY <2>9 DEF Reboot, Capped
    <3> QED
      BY <2>9, <3>1, DailyInvShrinks DEF Reboot
  <2> QED
    BY <2>1, <2>2, <2>3, <2>4, <2>5, <2>6, <2>7, <2>8, <2>9 DEF FailoverNext
<1>3. FailoverTypeOK /\ DailyInv => DailyCallsHold
  <2> SUFFICES ASSUME FailoverTypeOK, DailyInv, NEW p \in Providers, Billable(p)
               PROVE  today[p] <= DailyCalls + Others
    BY DEF DailyCallsHold
  <2>1. Cardinality(Capped(p)) \in Nat
    BY Counting DEF Capped
  <2> QED
    BY <2>1, ConstantTypes, SomeCallers DEF FailoverTypeOK, DailyInv
<1> QED
  BY <1>1, <1>2, <1>3, FailoverTypeCorrect, PTL DEF FailoverSpec

-----------------------------------------------------------------------------
(* The budget. *)

\* A step in which nobody gets past the check of the budget and nothing is spent.
LEMMA BudgetInvShrinks ==
  ASSUME FailoverTypeOK, FailoverTypeOK', BudgetInv, spent' <= spent, Paying' \subseteq Paying
  PROVE  BudgetInv'
<1>1. IsFiniteSet(Paying) /\ Cardinality(Paying) \in Nat
  BY Counting DEF Paying
<1> DEFINE rest == Paying'
<1> HIDE DEF rest
<1>2. Cardinality(rest) <= Cardinality(Paying) /\ IsFiniteSet(rest)
  BY <1>1, FS_Subset DEF rest
<1>3. Cardinality(rest) \in Nat
  BY <1>2, FS_CardinalityType
<1>4. spent' + Cardinality(rest) <= Budget + Others
  BY <1>1, <1>2, <1>3, ConstantTypes, SomeCallers DEF BudgetInv, FailoverTypeOK
<1> QED
  BY <1>4 DEF rest, BudgetInv

\* The spend passes the budget by no more than the calls that were on the way when it
\* was reached (should_skip, log_llm_call).
THEOREM BudgetIsKept == FailoverSpec => []BudgetHolds
<1>1. FailoverInit => BudgetInv
  <2> SUFFICES ASSUME FailoverInit PROVE BudgetInv
    OBVIOUS
  <2>1. Paying = {} /\ spent = 0
    BY DEF FailoverInit, Paying
  <2> QED
    BY <2>1, FS_EmptySet, ConstantTypes, SomeCallers DEF BudgetInv
<1>2. FailoverTypeOK /\ FailoverTypeOK' /\ BudgetInv /\ [FailoverNext]_failoverVars => BudgetInv'
  <2> SUFFICES ASSUME FailoverTypeOK, FailoverTypeOK', BudgetInv, [FailoverNext]_failoverVars
               PROVE  BudgetInv'
    OBVIOUS
  <2>0. CallersOK /\ CallersOK' /\ spent \in Nat /\ spent' \in Nat
    BY DEF FailoverTypeOK, CallersOK, Steps, Turns
  <2>l. ASSUME NEW c \in Callers, Leaves(c), UNCHANGED spent PROVE BudgetInv'
    <3>1. Paying' \subseteq Paying
      BY <2>0, <2>l, LeavesAll
    <3> QED
      BY <3>1, <2>0, <2>l, BudgetInvShrinks
  <2>s. ASSUME NEW c \in Callers, Skip(c), UNCHANGED spent PROVE BudgetInv'
    BY <2>0, <2>s, <2>l, SkipLeaves
  <2>t. ASSUME NEW c \in Callers, NEW to \in Steps, Passes(c, to), UNCHANGED spent,
               \/ to \notin {"cap", "token", "call"}
               \/ step[c] \in {"cap", "token", "call"}
               \/ ~Billable(turn[c].provider)
        PROVE  BudgetInv'
    <3>1. Paying' \subseteq Paying
      BY <2>0, <2>t, PassesOne
    <3> QED
      BY <3>1, <2>0, <2>t, BudgetInvShrinks
  <2>1. ASSUME NEW c \in Callers, Request(c) PROVE BudgetInv'
    <3>1. Passes(c, "circuit") /\ UNCHANGED spent
      BY <2>1 DEF Request, Goes, Passes
    <3> QED
      BY <3>1, <2>t DEF Steps
  <2>2. ASSUME NEW c \in Callers, CheckCircuit(c) PROVE BudgetInv'
    <3>1. (Skip(c) \/ Passes(c, "budget")) /\ UNCHANGED spent
      BY <2>2 DEF CheckCircuit, Goes, Passes
    <3> QED
      BY <3>1, <2>s, <2>t DEF Steps
  <2>3. ASSUME NEW c \in Callers, CheckBudget(c) PROVE BudgetInv'
    <3>1. CASE Exceeded(turn[c].provider)
      BY <2>3, <3>1, <2>s DEF CheckBudget
    <3>2. CASE ~Exceeded(turn[c].provider)
      <4>1. Passes(c, "cap") /\ UNCHANGED spent
        BY <2>3, <3>2 DEF CheckBudget, Goes, Passes
      <4>2. CASE ~Billable(turn[c].provider)
        BY <4>1, <4>2, <2>t DEF Steps
      <4>3. CASE Billable(turn[c].provider)
        <5>1. spent < Budget
          BY <2>0, <3>2, <4>3, ConstantTypes DEF Exceeded
        <5>2. Paying' \subseteq Callers
          BY DEF Paying
        <5> DEFINE past == Paying'
        <5> HIDE DEF past
        <5>3. Cardinality(past) \in Nat /\ Cardinality(past) <= Others + 1
          BY <5>2, Counting DEF past
        <5>4. spent' + Cardinality(past) <= Budget + Others
          BY <2>0, <4>1, <5>1, <5>3, ConstantTypes, SomeCallers
        <5> QED
          BY <5>4 DEF past, BudgetInv
      <4> QED
        BY <4>2, <4>3
    <3> QED
      BY <3>1, <3>2
  <2>4. ASSUME NEW c \in Callers, CheckCap(c) PROVE BudgetInv'
    <3>1. (Skip(c) \/ (Passes(c, "token") /\ step[c] = "cap")) /\ UNCHANGED spent
      BY <2>4 DEF CheckCap, Goes, Passes
    <3> QED
      BY <3>1, <2>s, <2>t DEF Steps
  <2>5. ASSUME NEW c \in Callers, Acquire(c) PROVE BudgetInv'
    <3>1. (Skip(c) \/ (Passes(c, "call") /\ step[c] = "token")) /\ UNCHANGED spent
      BY <2>5 DEF Acquire, Goes, Passes
    <3> QED
      BY <3>1, <2>s, <2>t DEF Steps
  <2>6. ASSUME NEW c \in Callers, Answered(c) PROVE BudgetInv'
    <3>1. Leaves(c)
      <4>1. CASE Skip(c)
        BY <2>0, <4>1, SkipLeaves
      <4>2. CASE Goes(c, "idle") /\ turn' = [turn EXCEPT ![c] = First]
        BY <2>0, <4>2 DEF Goes, Leaves, CallersOK
      <4> QED
        BY <2>6, <4>1, <4>2 DEF Answered
    <3>2. Paying' = Paying \ {c}
      BY <2>0, <3>1, LeavesAll
    <3>3. CASE ~Billable(turn[c].provider)
      BY <2>6, <3>1, <3>3, <2>l DEF Answered
    <3>4. CASE Billable(turn[c].provider)
      <4>1. c \in Paying /\ spent' = spent + 1
        BY <2>6, <3>4 DEF Answered, Paying
      <4>2. /\ Cardinality(Paying) \in Nat
            /\ Cardinality(Paying \ {c}) = Cardinality(Paying) - 1
        BY <4>1, Counting DEF Paying
      <4> QED
        BY <2>0, <3>2, <4>1, <4>2, ConstantTypes, SomeCallers DEF BudgetInv
    <3> QED
      BY <3>3, <3>4
  <2>7. CASE (\E p \in Providers : Lapse(p)) \/ NextDay \/ UNCHANGED failoverVars
    <3>1. UNCHANGED <<spent, step, turn>>
      BY <2>7 DEF Lapse, NextDay, failoverVars
    <3> QED
      BY <3>1 DEF BudgetInv, Paying
  <2>8. CASE Age
    <3>1. spent' <= spent /\ Paying' \subseteq Paying
      BY <2>0, <2>8 DEF Age, Paying
    <3> QED
      BY <3>1, BudgetInvShrinks
  <2>9. CASE Reboot
    <3>1. spent' <= spent /\ Paying' \subseteq Paying
      BY <2>0, <2>9 DEF Reboot, Paying
    <3> QED
      BY <3>1, BudgetInvShrinks
  <2> QED
    BY <2>1, <2>2, <2>3, <2>4, <2>5, <2>6, <2>7, <2>8, <2>9 DEF FailoverNext
<1>3. FailoverTypeOK /\ BudgetInv => BudgetHolds
  <2> SUFFICES ASSUME FailoverTypeOK, BudgetInv PROVE BudgetHolds
    OBVIOUS
  <2>1. Cardinality(Paying) \in Nat
    BY Counting DEF Paying
  <2> QED
    BY <2>1, ConstantTypes, SomeCallers DEF FailoverTypeOK, BudgetInv, BudgetHolds
<1> QED
  BY <1>1, <1>2, <1>3, FailoverTypeCorrect, PTL DEF FailoverSpec
=============================================================================
