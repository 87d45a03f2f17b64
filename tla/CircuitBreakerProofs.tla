------------------------ MODULE CircuitBreakerProofs ------------------------
(***************************************************************************)
(* Proofs about CircuitBreaker, for any number of overlapping calls, any   *)
(* threshold and any reset time.                                           *)
(***************************************************************************)
EXTENDS Connector, TLAPS

(* While the circuit is closed, the breaker's own count is the history's:  *)
(* it is what makes StreakOpens inductive.                                 *)
Synced == ~open => failures = streak

IInv == TypeOK /\ Synced /\ StreakOpens /\ TrialAfterReset

LEMMA CountType ==
    \A n \in 0..FailThreshold : Count(n) \in 0..FailThreshold
BY CircuitAssumption DEF CircuitAssumption, Count

LEMMA InitIInv == Init => IInv
<1> SUFFICES ASSUME Init PROVE IInv
    OBVIOUS
<1> USE DEF Init
<1>1. /\ failures \in 0..FailThreshold
      /\ elapsed \in 0..ResetTicks
      /\ streak \in 0..FailThreshold
  BY CircuitAssumption DEF CircuitAssumption
<1>2. open \in BOOLEAN /\ halfOpen \in BOOLEAN /\ up \in BOOLEAN
  BY Zenon
<1>3. call \in [Calls -> {"none", "closed", "trial"}]
  OBVIOUS
<1>4. ~(streak >= FailThreshold) /\ failures = streak
  BY CircuitAssumption DEF CircuitAssumption
<1>5. ~halfOpen
  BY Zenon
<1> QED BY <1>1, <1>2, <1>3, <1>4, <1>5, Zenon
        DEF IInv, TypeOK, Synced, StreakOpens, TrialAfterReset

LEMMA StepIInv == IInv /\ [Next]_vars => IInv'
<1> SUFFICES ASSUME IInv, [Next]_vars PROVE IInv'
    OBVIOUS
<1> USE CircuitAssumption DEF CircuitAssumption, IInv, TypeOK
<1>1. ASSUME NEW c \in Calls, Begin(c) PROVE IInv'
  BY <1>1 DEF Begin, ResetOver, Synced, StreakOpens, TrialAfterReset
<1>2. ASSUME NEW c \in Calls, OnSuccess(c) PROVE IInv'
  <2> USE <1>2 DEF OnSuccess, NoFailures
  <2>1. /\ failures' \in 0..FailThreshold
        /\ elapsed' \in 0..ResetTicks
        /\ streak' \in 0..FailThreshold
        /\ call' \in [Calls -> {"none", "closed", "trial"}]
    OBVIOUS
  <2>2. open' \in BOOLEAN /\ halfOpen' \in BOOLEAN /\ up' \in BOOLEAN
    BY Zenon
  <2>3. ~(streak' >= FailThreshold) /\ failures' = streak'
    OBVIOUS
  <2>4. ~halfOpen'
    BY Zenon
  <2> QED BY <2>1, <2>2, <2>3, <2>4, Zenon DEF Synced, StreakOpens, TrialAfterReset
<1>3. ASSUME NEW c \in Calls, OnFailure(c) PROVE IInv'
  <2>1. TypeOK'
    <3>1. /\ failures' \in 0..FailThreshold
          /\ elapsed' \in 0..ResetTicks
          /\ streak' \in 0..FailThreshold
          /\ call' \in [Calls -> {"none", "closed", "trial"}]
      BY <1>3, CountType DEF OnFailure
    <3>2. open' \in BOOLEAN /\ halfOpen' \in BOOLEAN /\ up' \in BOOLEAN
      BY <1>3, Zenon DEF OnFailure
    <3> QED BY <3>1, <3>2
  <2>2. CASE halfOpen
    BY <1>3, <2>1, <2>2 DEF OnFailure, Synced, StreakOpens, TrialAfterReset
  <2>3. CASE ~halfOpen
    <3>1. Synced' /\ StreakOpens'
      BY <1>3, <2>3, CountType DEF OnFailure, TooMany, Synced, StreakOpens
    <3>2. TrialAfterReset'
      BY <1>3, <2>3 DEF OnFailure, TrialAfterReset
    <3> QED BY <2>1, <3>1, <3>2
  <2> QED BY <2>2, <2>3
<1>4. ASSUME NEW c \in Calls, Cancelled(c) PROVE IInv'
  BY <1>4 DEF Cancelled, Synced, StreakOpens, TrialAfterReset
<1>5. CASE Tick
  BY <1>5 DEF Tick, Synced, StreakOpens, TrialAfterReset
<1>6. CASE Outage
  BY <1>6 DEF Outage, Synced, StreakOpens, TrialAfterReset
<1>7. CASE UNCHANGED vars
  BY <1>7 DEF vars, Synced, StreakOpens, TrialAfterReset
<1> QED BY <1>1, <1>2, <1>3, <1>4, <1>5, <1>6, <1>7 DEF Next

(* The variables of a breaker keep their types, however calls overlap. *)
THEOREM TypeCorrect == Spec => []TypeOK
<1>1. IInv => TypeOK
  BY DEF IInv
<1> QED BY <1>1, InitIInv, StepIInv, PTL DEF Spec

(* N failed calls with no answered one between them leave the circuit      *)
(* open, however many calls are under way and in whatever order they end.  *)
THEOREM StreakAlwaysOpens == Spec => []StreakOpens
<1>1. IInv => StreakOpens
  BY DEF IInv
<1> QED BY <1>1, InitIInv, StepIInv, PTL DEF Spec

(* A trial call is under way only after the reset time. *)
THEOREM TrialsWait == Spec => []TrialAfterReset
<1>1. IInv => TrialAfterReset
  BY DEF IInv
<1> QED BY <1>1, InitIInv, StepIInv, PTL DEF Spec

(* The circuit opens at no other moment than at the end of such a streak.  *)
THEOREM OpensOnlyAfterStreak == Spec => OpensAfterStreak
<1> DEFINE Opening == ~open /\ open' => streak' >= FailThreshold
<1>1. IInv /\ [Next]_vars => [Opening]_vars
  <2> SUFFICES ASSUME IInv, Next, ~open, open' PROVE streak' >= FailThreshold
      BY DEF vars
  <2>1. PICK c \in Calls : OnFailure(c)
    BY DEF Next, Begin, OnSuccess, Cancelled, Tick, Outage
  <2>2. ~halfOpen
    BY DEF IInv, TrialAfterReset
  <2>3. failures' = streak' /\ TooMany(failures')
    BY <2>1, <2>2 DEF IInv, Synced, OnFailure
  <2> QED BY <2>3 DEF TooMany
<1> QED BY <1>1, InitIInv, StepIInv, PTL DEF Spec, OpensAfterStreak

-----------------------------------------------------------------------------
(* up stands for Works in every reachable state. *)
UpIsWorks ==
    /\ client \in {"smartup", "aslbelgisi"}
    /\ remote \in Remote
    /\ up = ~Transient(client, remote)

LEMMA WorksNow == UpIsWorks => up = Works
  BY DEF UpIsWorks, Works, Transient, Remote

LEMMA ConnectorStart == ConnectorInit => UpIsWorks /\ Promise!Init
  BY DEF ConnectorInit, Init, UpIsWorks, Transient, Remote, Works, Promise!Init

LEMMA UpIsWorksStep == UpIsWorks /\ [ConnectorNext]_connectorVars => UpIsWorks'
<1> SUFFICES ASSUME UpIsWorks, [ConnectorNext]_connectorVars
             PROVE  UpIsWorks'
  OBVIOUS
<1> USE DEF UpIsWorks
<1>1. CASE UNCHANGED <<client, remote, up>>
  BY <1>1 DEF Transient
<1>2. CASE RemoteChanges
  BY <1>2 DEF RemoteChanges, Transient
<1>3. ASSUME NEW c \in Calls,
             BeginRequest(c) \/ Retry(c) \/ EndRequest(c) \/ CancelRequest(c)
      PROVE  UNCHANGED <<client, remote, up>>
  BY <1>3 DEF BeginRequest, Retry, EndRequest, CancelRequest, Begin, OnSuccess, OnFailure,
              Cancelled, vars
<1>4. ConnectorTick => UNCHANGED <<client, remote, up>>
  BY DEF ConnectorTick, Tick
<1>5. UNCHANGED connectorVars => UNCHANGED <<client, remote, up>>
  BY DEF connectorVars, vars
<1> QED
  BY <1>1, <1>2, <1>3, <1>4, <1>5 DEF ConnectorNext

LEMMA PromiseStep ==
    ASSUME UpIsWorks, UpIsWorks', [ConnectorNext]_connectorVars
    PROVE  [Promise!Next]_(Promise!vars)
<1>0. up = Works /\ up' = Works'
  BY WorksNow DEF UpIsWorks, Works, Transient, Remote
<1>1. ASSUME NEW c \in Calls, BeginRequest(c)
      PROVE  Promise!Begin(c)
  BY <1>0, <1>1 DEF BeginRequest, Begin, ResetOver, Promise!Begin, Promise!ResetOver
<1>2. ASSUME NEW c \in Calls, Retry(c)
      PROVE  UNCHANGED Promise!vars
  BY <1>0, <1>2 DEF Retry, vars, Promise!vars
<1>3. ASSUME NEW c \in Calls, EndRequest(c)
      PROVE  Promise!OnSuccess(c) \/ Promise!OnFailure(c)
  BY <1>0, <1>3 DEF EndRequest, OnSuccess, OnFailure, Promise!OnSuccess, Promise!OnFailure,
       NoFailures, Promise!NoFailures, Count, Promise!Count, TooMany, Promise!TooMany
<1>4. ASSUME NEW c \in Calls, CancelRequest(c)
      PROVE  Promise!Cancelled(c)
  BY <1>0, <1>4 DEF CancelRequest, Cancelled, Promise!Cancelled
<1>5. ConnectorTick => Promise!Tick
  BY <1>0 DEF ConnectorTick, Tick, Promise!Tick
<1>6. RemoteChanges => Promise!Outage \/ UNCHANGED Promise!vars
<2> SUFFICES ASSUME RemoteChanges PROVE Promise!Outage \/ UNCHANGED Promise!vars
  OBVIOUS
<2>1. UNCHANGED <<failures, open, elapsed, halfOpen, call, streak>>
  BY DEF RemoteChanges, breaker
<2>2. Works' = Works \/ Works' = ~Works
  BY DEF Works
<2> QED BY <2>1, <2>2 DEF Promise!Outage, Promise!vars
<1>7. UNCHANGED connectorVars => UNCHANGED Promise!vars
  BY <1>0 DEF connectorVars, vars, Promise!vars
<1> QED
  BY <1>1, <1>2, <1>3, <1>4, <1>5, <1>6, <1>7 DEF ConnectorNext, Promise!Next

THEOREM ConnectorImplementsBreaker == ConnectorSpec => BreakerKeepsPromise
<1>1. ConnectorInit => UpIsWorks /\ Promise!Init
  BY ConnectorStart
<1>2. UpIsWorks /\ [ConnectorNext]_connectorVars => UpIsWorks'
  BY UpIsWorksStep
<1>3. UpIsWorks /\ UpIsWorks' /\ [ConnectorNext]_connectorVars => [Promise!Next]_(Promise!vars)
  BY PromiseStep
<1> QED
  BY <1>1, <1>2, <1>3, PTL DEF ConnectorSpec, BreakerKeepsPromise, Promise!Spec
=============================================================================
