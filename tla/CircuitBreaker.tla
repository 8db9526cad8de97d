--------------------------- MODULE CircuitBreaker ---------------------------
(***************************************************************************)
(* The orchestrator's circuit breaker around the payment engine, and the   *)
(* RouteRequest calls that go through it.  Allow gives up its read lock    *)
(* before it takes the write lock and gives that up before it reads the    *)
(* state again, so it is three actions; the other methods hold the lock    *)
(* throughout.                                                             *)
(*                                                                         *)
(* Time is one bit: `elapsed` says whether more than openDuration (30 s)   *)
(* has passed since lastFailureTime.                                       *)
(***************************************************************************)
EXTENDS Integers, FiniteSets

CONSTANTS
  Callers,            \* goroutines serving RouteRequest
  FailureThreshold    \* failureThreshold (5 in the code)

ASSUME BreakerAssumption == FailureThreshold \in Nat \ {0}

VARIABLES
  state,      \* cb.state
  failures,   \* cb.failures
  elapsed,    \* time.Since(cb.lastFailureTime) > cb.openDuration
  pc          \* where each caller is

vars == <<state, failures, elapsed, pc>>

States == {"Closed", "Open", "HalfOpen"}

\* idle: not in the breaker; upgrade: between RUnlock and Lock; recheck:
\* between Unlock and the second RLock; call: InitiatePayment in progress.
Points == {"idle", "upgrade", "recheck", "call"}

Init ==
  /\ state = "Closed"
  /\ failures = 0
  /\ elapsed = TRUE          \* lastFailureTime is the zero time
  /\ pc = [c \in Callers |-> "idle"]

Goto(c, point) == pc' = [pc EXCEPT ![c] = point]

\* Allow under the read lock.  A denied request is answered CIRCUIT_OPEN.
Allow(c) ==
  /\ pc[c] = "idle"
  /\ \/ state \in {"Closed", "HalfOpen"} /\ Goto(c, "call")
     \/ state = "Open" /\ elapsed /\ Goto(c, "upgrade")
     \/ state = "Open" /\ ~elapsed /\ UNCHANGED pc
  /\ UNCHANGED <<state, failures, elapsed>>

\* Mutant: the state is not set to HalfOpen.
AllowUpgradeStays(c) ==
  /\ pc[c] = "upgrade"
  /\ failures' = IF state = "Open" /\ elapsed THEN 0 ELSE failures
  /\ Goto(c, "recheck")
  /\ UNCHANGED <<state, elapsed>>

\* Allow under the write lock.
\* Under the write lock the state is tested again.
AllowUpgrade(c) ==
  /\ pc[c] = "upgrade"
  /\ \/ /\ state = "Open" /\ elapsed
        /\ state' = "HalfOpen" /\ failures' = 0
     \/ /\ ~(state = "Open" /\ elapsed)
        /\ UNCHANGED <<state, failures>>
  /\ Goto(c, "recheck")
  /\ UNCHANGED elapsed

\* Allow under the second read lock: only HalfOpen lets the request through.
AllowRecheck(c) ==
  /\ pc[c] = "recheck"
  /\ Goto(c, IF state = "HalfOpen" THEN "call" ELSE "idle")
  /\ UNCHANGED <<state, failures, elapsed>>

RecordSuccess(c) ==
  /\ pc[c] = "call"
  /\ state' = IF state = "HalfOpen" THEN "Closed" ELSE state
  /\ failures' = IF state = "Open" THEN failures ELSE 0
  /\ Goto(c, "idle")
  /\ UNCHANGED elapsed

\* Mutant: the failure that reaches the threshold does not open the breaker.
RecordFailureOffByOne(c) ==
  /\ pc[c] = "call"
  /\ failures' = failures + 1
  /\ elapsed' = FALSE
  /\ state' = IF \/ state = "Closed" /\ failures + 1 > FailureThreshold
                 \/ state = "HalfOpen"
                THEN "Open" ELSE state
  /\ Goto(c, "idle")

RecordFailure(c) ==
  /\ pc[c] = "call"
  /\ failures' = failures + 1
  /\ elapsed' = FALSE
  /\ state' = IF \/ state = "Closed" /\ failures + 1 >= FailureThreshold
                 \/ state = "HalfOpen"
                THEN "Open" ELSE state
  /\ Goto(c, "idle")

\* The ResetCircuitBreaker RPC.
Reset ==
  /\ state' = "Closed"
  /\ failures' = 0
  /\ UNCHANGED <<elapsed, pc>>

\* openDuration passes without a failure.
Elapse ==
  /\ ~elapsed
  /\ elapsed' = TRUE
  /\ UNCHANGED <<state, failures, pc>>

Request(c) ==
  \/ Allow(c)
  \/ AllowUpgrade(c)
  \/ AllowRecheck(c)
  \/ RecordSuccess(c)
  \/ RecordFailure(c)

Next ==
  \/ \E c \in Callers : Request(c)
  \/ Reset
  \/ Elapse

Spec == Init /\ [][Next]_vars

\* Time passes, and requests keep arriving and finish.
FairSpec == Spec /\ WF_vars(Elapse) /\ \A c \in Callers : WF_vars(Request(c))

----------------------------------------------------------------------------
(* Properties *)

\* Type invariant of the breaker's state.
TypeOK ==
  /\ state \in States
  /\ failures \in Nat
  /\ elapsed \in BOOLEAN
  /\ pc \in [Callers -> Points]

\* A closed breaker has counted fewer failures than the threshold, whatever
\* late results, probes and resets came in between: RecordFailure opens it on
\* the failure that reaches the threshold, and everything that closes it
\* starts the count again.
ClosedIsBelowThreshold == state = "Closed" => failures < FailureThreshold

\* The failure count cannot run away: requests in flight when the breaker
\* opens can still fail, but no more than those.
InFlight == {c \in Callers : pc[c] = "call"}

FailuresAreBounded ==
  failures + Cardinality(InFlight) <= FailureThreshold - 1 + Cardinality(Callers)
    \/ state # "Open"

\* While the breaker is Open no request is let through to the payment engine,
\* although Allow lets go of its lock twice while deciding.
NothingPassesWhileOpen ==
  [][state = "Open" => InFlight' \subseteq InFlight]_vars

\* An Open breaker leaves that state only when openDuration has passed since
\* the last failure, and then only to HalfOpen, or by an explicit Reset.
OpenUntilElapsed ==
  [][state = "Open" /\ state' # "Open" =>
       \/ state' = "HalfOpen" /\ elapsed
       \/ Reset]_vars

\* An Open breaker is not stuck: with time passing and requests arriving it
\* eventually probes the payment engine again.
OpenEndsEventually == state = "Open" ~> state # "Open"

=============================================================================
