------------------------------ MODULE MCRouter ------------------------------
(* Two subscribers that dial and redial; two that dial and pay through the  *)
(* breaker within the life of a counter; one while two administrators       *)
(* change the tenant; or the breaker alone under three callers that never   *)
(* stop.                                                                    *)
EXTENDS RoutedPayments

CONSTANTS R1, R2, R3, A1, A2

VARIABLES
  workload,    \* "traffic", "payments", "admins" or "breaker", chosen once
  overlapped   \* whether a call began while another one was under way

mcvars == <<allvars, workload, overlapped>>

MCInit ==
  /\ RoutedInit /\ overlapped = FALSE
  /\ workload \in {"traffic", "payments", "admins", "breaker"}
  /\ workload = "payments" => faulty /\ \A t \in Tenants : tenants[t] # NoTenant /\ tenants[t].limit = 0
  /\ workload = "breaker" => ~faulty /\ \A t \in Tenants : tenants[t] = NoTenant

UnderWay(calls) == {a \in Admins : calls[a].call \in {"update", "delete"}}

\* Two calls are under way, or the row is written under a third one's feet.
Overlap ==
  \/ Cardinality(UnderWay(admin')) > 1
  \/ /\ UnderWay(admin) \cap UnderWay(admin') # {}
     /\ tenants' # tenants

Bounded ==
  /\ at'[R3] = "idle"
  /\ \/ workload = "traffic" /\ UNCHANGED <<admin, vars>> /\ \A r \in Callers : at'[r] # "pay"
     \/ workload = "payments" /\ UNCHANGED <<admin, ttl>>
     \/ workload = "admins" /\ UNCHANGED vars /\ at'[R2] = "idle" /\ at'[R1] # "pay" /\ ~faulty

BreakerAlone == workload = "breaker" /\ Next /\ UNCHANGED rvars

MCNext ==
  /\ (RoutedNext /\ Bounded) \/ BreakerAlone
  /\ UNCHANGED workload
  /\ overlapped' = (overlapped \/ Overlap)

Routed(A) == workload # "breaker" /\ A

MCSpec ==
  /\ MCInit /\ [][MCNext]_mcvars
  /\ \A r \in {R1, R2} :
       /\ WF_allvars(Routed(AskBreaker(r) \/ Report(r)))
       /\ WF_allvars(Routed(UNCHANGED vars /\ R!BeforePayment(r)))
       /\ WF_allvars(Routed(UNCHANGED vars /\ R!Redial(r)))
  /\ \A key \in R!Keys : WF_allvars(Routed(UNCHANGED vars /\ R!KeyExpires(key)))
  /\ WF_allvars(workload = "breaker" /\ Elapse /\ UNCHANGED rvars)
  /\ \A r \in Callers : WF_allvars(workload = "breaker" /\ Request(r) /\ UNCHANGED rvars)

(* A tenant whose deletion was confirmed is inactive until a call asks for *)
(* the contrary, as long as administrators change a tenant one at a time.  *)
DeletedStaysInactive == ~overlapped => DeletedIsInactive

(* While Redis works, a counter over its limit goes away, so that a        *)
(* refused subscriber gets through again.                                  *)
LimitedRecovers == R!LimitedRecovers

(* An open breaker probes the payment engine again, as long as requests    *)
(* that have to pay keep arriving.                                         *)
OpenEnds == workload = "breaker" /\ state = "Open" ~> state # "Open"

(* Outside of the router, any caller may be in the breaker.                *)
CallsAreReported == workload = "breaker" \/ EveryCallIsReported
=============================================================================
