--------------------------- MODULE RoutedPayments ---------------------------
(***************************************************************************)
(* RouteRequest on one replica: the router and the circuit breaker that    *)
(* its requests share.  A request that has to pay goes through Allow and   *)
(* reports the outcome of InitiatePayment to the breaker.                  *)
(***************************************************************************)
EXTENDS CircuitBreaker

CONSTANTS
  Phones, Tenants, Sessions, References, BadPhone, PhoneLimit, DefaultLimit,
  TenantLimits, Admins, MaxCount, NoTenant

VARIABLES at, req, count, ttl, payments, tenants, admin, admitted, faulty, deleted

R == INSTANCE Router WITH Requests <- Callers, pc <- at

rvars == <<at, req, count, ttl, payments, tenants, admin, admitted, faulty, deleted>>
allvars == <<vars, rvars>>

RoutedInit == Init /\ R!Init

\* Allow has answered: no sends the menu out without a payment.
Denied(r) == IF pc'[r] = "idle" THEN R!PaymentRefused(r) ELSE UNCHANGED rvars

AskBreaker(r) ==
  /\ at[r] = "pay"
  /\ \/ Allow(r) /\ Denied(r)
     \/ AllowUpgrade(r) /\ UNCHANGED rvars
     \/ AllowRecheck(r) /\ Denied(r)

Report(r) ==
  \/ RecordSuccess(r) /\ R!PaymentSucceeds(r)
  \/ RecordFailure(r) /\ R!PaymentFails(r)

\* A caller gives up; within the call to the payment engine that is a failure.
GiveUp(r) == at[r] # "pay" /\ R!RequestDies(r)

Other(r) == R!Arrive(r) \/ R!BeforePayment(r) \/ R!Redial(r) \/ GiveUp(r)

RoutedNext ==
  \/ \E r \in Callers : AskBreaker(r) \/ Report(r)
  \/ UNCHANGED vars /\ \E r \in Callers : Other(r)
  \/ UNCHANGED vars /\ \E key \in R!Keys : R!KeyExpires(key)
  \/ UNCHANGED vars /\ R!Administration
  \/ UNCHANGED rvars /\ (Reset \/ Elapse)

RoutedSpec == RoutedInit /\ [][RoutedNext]_allvars

----------------------------------------------------------------------------
(* Properties *)

\* Every call that the breaker let through is reported to it: a request that
\* has its answer, or is not yet at its payment, is not in the breaker.
EveryCallIsReported == \A r \in Callers : pc[r] # "idle" => at[r] = "pay"

\* The router's properties, of the requests of one replica.
AdmittedIsBounded == R!AdmittedIsBounded


DeletedIsInactive == R!DeletedIsInactive

=============================================================================
