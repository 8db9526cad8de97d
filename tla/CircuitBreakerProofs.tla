------------------------ MODULE CircuitBreakerProofs ------------------------
(***************************************************************************)
(* Proofs about CircuitBreaker, for any number of concurrent requests and  *)
(* any threshold.                                                          *)
(***************************************************************************)
EXTENDS CircuitBreaker, TLAPS

\* TypeOK with ClosedIsBelowThreshold is inductive: a HalfOpen breaker that
\* closes starts from zero, and a closed one counts one failure at a time.
IInv == TypeOK /\ ClosedIsBelowThreshold

LEMMA InitIInv == Init => IInv
BY BreakerAssumption
   DEF Init, IInv, TypeOK, ClosedIsBelowThreshold, States, Points

\* Every step of a request, of the administrator and of time preserves it.
LEMMA NextIInv == IInv /\ [Next]_vars => IInv'
<1> SUFFICES ASSUME IInv, [Next]_vars PROVE IInv'
  OBVIOUS
<1> USE BreakerAssumption
    DEF IInv, TypeOK, ClosedIsBelowThreshold, States, Points, Goto
<1>1. ASSUME NEW c \in Callers, Allow(c) PROVE IInv'
  BY <1>1 DEF Allow
<1>2. ASSUME NEW c \in Callers, AllowUpgrade(c) PROVE IInv'
  BY <1>2 DEF AllowUpgrade
<1>3. ASSUME NEW c \in Callers, AllowRecheck(c) PROVE IInv'
  BY <1>3 DEF AllowRecheck
<1>4. ASSUME NEW c \in Callers, RecordSuccess(c) PROVE IInv'
  BY <1>4 DEF RecordSuccess
<1>5. ASSUME NEW c \in Callers, RecordFailure(c) PROVE IInv'
  <2> DEFINE opens == \/ state = "Closed" /\ failures + 1 >= FailureThreshold
                      \/ state = "HalfOpen"
  <2>1. failures' = failures + 1 /\ elapsed' \in BOOLEAN
        /\ pc' \in [Callers -> Points]
    BY <1>5 DEF RecordFailure
  <2>2. CASE opens
    <3>1. state' = "Open"
      BY <1>5, <2>2 DEF RecordFailure
    <3>2. TypeOK'
      BY <2>1, <3>1
    <3>3. ClosedIsBelowThreshold'
      BY <3>1
    <3> QED
      BY <3>2, <3>3
  <2>3. CASE ~opens
    <3>1. state' = state
      BY <1>5, <2>3 DEF RecordFailure
    <3>2. TypeOK'
      BY <2>1, <3>1
    <3>3. ClosedIsBelowThreshold'
      BY <2>1, <2>3, <3>1
    <3> QED
      BY <3>2, <3>3
  <2> QED
    BY <2>2, <2>3
<1>6. CASE Reset
  BY <1>6 DEF Reset
<1>7. CASE Elapse
  BY <1>7 DEF Elapse
<1>8. CASE UNCHANGED vars
  BY <1>8 DEF vars
<1> QED
  BY <1>1, <1>2, <1>3, <1>4, <1>5, <1>6, <1>7, <1>8 DEF Next, Request

THEOREM Invariance == Spec => []IInv
BY InitIInv, NextIInv, PTL DEF Spec

\* The breaker's state is well typed.
THEOREM TypeCorrect == Spec => []TypeOK
<1>1. IInv => TypeOK
  BY DEF IInv
<1> QED
  BY <1>1, Invariance, PTL

\* A closed breaker has counted fewer failures than the threshold.
THEOREM ClosedBelowThreshold == Spec => []ClosedIsBelowThreshold
<1>1. IInv => ClosedIsBelowThreshold
  BY DEF IInv
<1> QED
  BY <1>1, Invariance, PTL

\* No request passes an Open breaker, for any interleaving of the three lock
\* sections of Allow.
THEOREM OpenBlocks == Spec => NothingPassesWhileOpen
<1>1. IInv /\ [Next]_vars => [state = "Open" => InFlight' \subseteq InFlight]_vars
  <2> SUFFICES ASSUME IInv, Next, state = "Open"
               PROVE  InFlight' \subseteq InFlight
    OBVIOUS
  <2> USE DEF IInv, TypeOK, InFlight, Goto
  <2>1. ASSUME NEW c \in Callers, Request(c) PROVE InFlight' \subseteq InFlight
    <3>1. CASE Allow(c)
      BY <3>1 DEF Allow
    <3>2. CASE AllowUpgrade(c)
      BY <3>2 DEF AllowUpgrade
    <3>3. CASE AllowRecheck(c)
      BY <3>3 DEF AllowRecheck
    <3>4. CASE RecordSuccess(c)
      BY <3>4 DEF RecordSuccess
    <3>5. CASE RecordFailure(c)
      BY <3>5 DEF RecordFailure
    <3> QED
      BY <2>1, <3>1, <3>2, <3>3, <3>4, <3>5 DEF Request
  <2>2. CASE Reset \/ Elapse
    BY <2>2 DEF Reset, Elapse
  <2> QED
    BY <2>1, <2>2 DEF Next
<1> QED
  BY <1>1, Invariance, PTL DEF Spec, NothingPassesWhileOpen

\* An Open breaker leaves Open only after openDuration, to HalfOpen, or when
\* an administrator resets it.
THEOREM OpenWaits == Spec => OpenUntilElapsed
<1>1. [Next]_vars =>
        [state = "Open" /\ state' # "Open" =>
           \/ state' = "HalfOpen" /\ elapsed
           \/ Reset]_vars
  <2> SUFFICES ASSUME Next, state = "Open", state' # "Open"
               PROVE  (state' = "HalfOpen" /\ elapsed) \/ Reset
    OBVIOUS
  <2> QED
    BY DEF Next, Request, Allow, AllowUpgrade, AllowRecheck, RecordSuccess,
           RecordFailure, Elapse
<1> QED
  BY <1>1, PTL DEF Spec, OpenUntilElapsed

=============================================================================
