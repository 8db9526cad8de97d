------------------------------- MODULE Router -------------------------------
(***************************************************************************)
(* RouteRequest of the orchestrator, with the counters of its rate limiter *)
(* in Redis, and the tenants it looks up, which administrators change.     *)
(* Session service, tenant application and payment engine answer anything  *)
(* they may; a payment is made once for each key.  RoutedPayments puts the *)
(* circuit breaker in front of the payment engine.                         *)
(***************************************************************************)
EXTENDS Integers, Sequences, FiniteSets

CONSTANTS
  Requests,      \* calls of RouteRequest, on any replica
  Phones, Tenants, Sessions, References,
  BadPhone,      \* a number NewPhoneNumber refuses
  PhoneLimit,    \* 60 in RouteRequest
  DefaultLimit,  \* 100, for a tenant whose limit is 0
  TenantLimits,  \* values of RateLimitRPS
  Admins,        \* calls of UpdateTenant, DeleteTenant and RegisterTenant
  MaxCount,      \* bound on the counters of callers that redial
  NoTenant

VARIABLES
  pc, req,       \* each request: where it is, and what it knows
  count, ttl,    \* Redis: the counters, and which of them expire
  payments,      \* payments made, with their idempotency keys
  tenants,       \* app.application_registry
  admin,         \* each administrator's call
  admitted,      \* requests each counter let pass in its life
  faulty,        \* whether Redis calls fail and requests die in this behaviour
  deleted        \* tenants whose deletion was confirmed and not revoked

limiter == <<count, ttl, admitted>>
vars == <<pc, req, payments, tenants, admin, deleted, faulty, limiter>>

Keys == Phones \cup Tenants
NoRequest == [phone |-> BadPhone, tenant |-> NoTenant, session |-> NoTenant,
              limit |-> 0, ref |-> NoTenant, answer |-> "none"]
NoCall == [call |-> "none", tenant |-> NoTenant, row |-> NoTenant, active |-> "keep"]

\* A request that was answered.
Answer(r, answer) ==
  /\ pc' = [pc EXCEPT ![r] = "done"]
  /\ req' = [req EXCEPT ![r].answer = answer]

Goto(r, label) == pc' = [pc EXCEPT ![r] = label] /\ UNCHANGED req

-----------------------------------------------------------------------------
(* The limiter.                                                            *)

\* Mutant: one request more than the limit passes.
WithinOneMore(n, limit) == n <= limit + 1

Within(n, limit) == n <= limit

\* A caller that read n goes on at next, or is refused.
Decide(r, key, n, limit, next) ==
  IF Within(n, limit)
    THEN /\ admitted' = [admitted EXCEPT ![key] = @ + 1]
         /\ Goto(r, next)
    ELSE Answer(r, "limited") /\ UNCHANGED admitted

\* INCR; the first caller has still to set the expiry.
Incr(r, key, limit, expire, next) ==
  /\ count' = [count EXCEPT ![key] = @ + 1]
  /\ UNCHANGED ttl
  /\ IF count[key] = 0 THEN Goto(r, expire) /\ UNCHANGED admitted
                       ELSE Decide(r, key, count[key] + 1, limit, next)

\* INCR fails: the request passes uncounted.
FailOpen(r, next) == faulty /\ Goto(r, next) /\ UNCHANGED limiter

\* Mutant: EXPIRE is never sent.
ExpireForgotten(r, key, limit, next) ==
  UNCHANGED <<count, ttl>> /\ Decide(r, key, 1, limit, next)

\* EXPIRE, whose error is ignored.
Expire(r, key, limit, next) ==
  /\ \/ ttl' = [ttl EXCEPT ![key] = TRUE]
     \/ faulty /\ UNCHANGED ttl
  /\ UNCHANGED count
  /\ Decide(r, key, 1, limit, next)

\* A minute after EXPIRE the counter is gone.
KeyExpires(key) ==
  /\ ttl[key]
  /\ ttl' = [ttl EXCEPT ![key] = FALSE]
  /\ count' = [count EXCEPT ![key] = 0]
  /\ admitted' = [admitted EXCEPT ![key] = 0]
  /\ UNCHANGED <<pc, req, payments, tenants, admin, deleted, faulty>>

-----------------------------------------------------------------------------
(* RouteRequest                                                            *)

others == <<payments, tenants, admin, deleted, faulty>>

Arrive(r) ==
  /\ pc[r] = "idle"
  /\ \E phone \in Phones \cup {BadPhone}, t \in Tenants, s \in Sessions :
       /\ req' = [req EXCEPT ![r].phone = phone, ![r].tenant = t, ![r].session = s,
                             ![r].answer = IF phone = BadPhone THEN "invalid" ELSE "none"]
       /\ pc' = [pc EXCEPT ![r] = IF phone = BadPhone THEN "done" ELSE "phone"]
  /\ UNCHANGED <<limiter, others>>

AllowPhone(r) ==
  /\ pc[r] = "phone"
  /\ \/ Incr(r, req[r].phone, PhoneLimit, "expirePhone", "lookup")
     \/ FailOpen(r, "lookup")
  /\ UNCHANGED others

ExpirePhone(r) ==
  /\ pc[r] = "expirePhone"
  /\ Expire(r, req[r].phone, PhoneLimit, "lookup")
  /\ UNCHANGED others

\* The tenant of the service code: it must exist and be active.
Lookup(r) ==
  /\ pc[r] = "lookup"
  /\ LET row == tenants[req[r].tenant]
     IN IF row = NoTenant THEN Answer(r, "tenant")
          ELSE IF ~row.active THEN Answer(r, "tenant")
          ELSE /\ pc' = [pc EXCEPT ![r] = "tenant"]
               /\ req' = [req EXCEPT ![r].limit = IF row.limit = 0 THEN DefaultLimit ELSE row.limit]
  /\ UNCHANGED <<limiter, others>>

AllowTenant(r) ==
  /\ pc[r] = "tenant"
  /\ \/ Incr(r, req[r].tenant, req[r].limit, "expireTenant", "session")
     \/ FailOpen(r, "session")
  /\ UNCHANGED others

ExpireTenant(r) ==
  /\ pc[r] = "expireTenant"
  /\ Expire(r, req[r].tenant, req[r].limit, "session")
  /\ UNCHANGED others

\* The session is reconstructed, or the request fails.
ReconstructSession(r) ==
  /\ pc[r] = "session"
  /\ Goto(r, "menu") \/ Answer(r, "session")
  /\ UNCHANGED <<limiter, others>>

\* The tenant's application answers with or without a payment, or not.
HandleMenu(r) ==
  /\ pc[r] = "menu"
  /\ \/ Answer(r, "menu")
     \/ Answer(r, "ok")
     \/ \E ref \in References :
          /\ req' = [req EXCEPT ![r].ref = ref]
          /\ pc' = [pc EXCEPT ![r] = "pay"]
  /\ UNCHANGED <<limiter, others>>


IdempotencyKey(r) == <<req[r].session, req[r].ref>>

\* The payment engine makes a payment for a key it has not seen.
MakePayment(r) ==
  payments' = IF \E p \in payments : p.key = IdempotencyKey(r) THEN payments
                ELSE payments \cup {[key |-> IdempotencyKey(r), session |-> req[r].session,
                                     ref |-> req[r].ref]}

\* The breaker does not let the request through.
PaymentRefused(r) ==
  /\ pc[r] = "pay"
  /\ Answer(r, "CIRCUIT_OPEN")
  /\ UNCHANGED <<limiter, others>>

PaymentSucceeds(r) ==
  /\ pc[r] = "pay"
  /\ Answer(r, "paid") /\ MakePayment(r)
  /\ UNCHANGED <<limiter, tenants, admin, deleted, faulty>>

\* The call fails, before or after the engine has made the payment.
PaymentFails(r) ==
  /\ pc[r] = "pay"
  /\ Answer(r, "FAILED")
  /\ UNCHANGED payments \/ MakePayment(r)
  /\ UNCHANGED <<limiter, tenants, admin, deleted, faulty>>

InitiatePayment(r) == PaymentRefused(r) \/ PaymentSucceeds(r) \/ PaymentFails(r)

\* The replica dies or the caller's context is cancelled.
RequestDies(r) ==
  /\ faulty
  /\ pc[r] \notin {"idle", "done"}
  /\ Answer(r, "lost")
  /\ UNCHANGED <<limiter, others>>

\* The same subscriber dials again; MaxCount bounds the counters.
Redial(r) ==
  /\ pc[r] = "done" /\ req[r].phone # BadPhone
  /\ count[req[r].phone] < MaxCount /\ count[req[r].tenant] < MaxCount
  /\ pc' = [pc EXCEPT ![r] = "phone"]
  /\ req' = [req EXCEPT ![r].ref = NoTenant, ![r].answer = "none"]
  /\ UNCHANGED <<limiter, others>>

-----------------------------------------------------------------------------
(* Tenants.  Each call reads the row and writes it back.                   *)

\* GetByID; UpdateTenant changes Active only when the request has the field.
ReadTenant(a) ==
  /\ admin[a] = NoCall
  /\ \E t \in Tenants, call \in {"update", "delete"}, active \in {"keep", "on", "off"} :
       /\ tenants[t] # NoTenant
       /\ call = "delete" => active = "off"
       /\ admin' = [admin EXCEPT ![a] =
            [call |-> call, tenant |-> t, row |-> tenants[t], active |-> active]]
  /\ UNCHANGED <<pc, req, limiter, payments, tenants, deleted, faulty>>

\* Save writes the whole row, whatever it holds by now.
Save(t, active, limit) == tenants' = [tenants EXCEPT ![t] = [active |-> active, limit |-> limit]]

CallDone(a) ==
  /\ admin' = [admin EXCEPT ![a] = [NoCall EXCEPT !.call = "done"]]
  /\ UNCHANGED <<pc, req, limiter, payments, faulty>>

UpdateTenant(a) ==
  /\ admin[a].call = "update"
  /\ \E limit \in TenantLimits :
       Save(admin[a].tenant,
            IF admin[a].active = "keep" THEN admin[a].row.active ELSE admin[a].active = "on", limit)
  /\ deleted' = IF admin[a].active = "on" THEN deleted \ {admin[a].tenant} ELSE deleted
  /\ CallDone(a)

DeleteTenant(a) ==
  /\ admin[a].call = "delete"
  /\ Save(admin[a].tenant, FALSE, admin[a].row.limit)
  /\ deleted' = deleted \cup {admin[a].tenant}
  /\ CallDone(a)

\* RegisterTenant writes an active row, over an old one if there is one.
RegisterTenant(a) ==
  /\ admin[a] = NoCall
  /\ \E t \in Tenants, limit \in TenantLimits :
       Save(t, TRUE, limit) /\ deleted' = deleted \ {t}
  /\ CallDone(a)

-----------------------------------------------------------------------------

Init ==
  /\ pc = [r \in Requests |-> "idle"]
  /\ req = [r \in Requests |-> NoRequest]
  /\ count = [key \in Keys |-> 0]
  /\ ttl = [key \in Keys |-> FALSE]
  /\ payments = {}
  /\ tenants \in [Tenants -> {NoTenant} \cup [active : {TRUE}, limit : TenantLimits]]
  /\ admin = [a \in Admins |-> NoCall]
  /\ admitted = [key \in Keys |-> 0]
  /\ faulty \in BOOLEAN
  /\ deleted = {}

BeforePayment(r) ==
  \/ AllowPhone(r) \/ ExpirePhone(r) \/ Lookup(r) \/ AllowTenant(r) \/ ExpireTenant(r)
  \/ ReconstructSession(r) \/ HandleMenu(r)

RequestStep(r) == BeforePayment(r) \/ InitiatePayment(r)

Administration ==
  \E a \in Admins : ReadTenant(a) \/ UpdateTenant(a) \/ DeleteTenant(a) \/ RegisterTenant(a)

Next ==
  \/ \E r \in Requests : Arrive(r) \/ RequestStep(r) \/ RequestDies(r) \/ Redial(r)
  \/ \E key \in Keys : KeyExpires(key)
  \/ Administration

Spec == Init /\ [][Next]_vars

\* Handlers run on, Redis expires keys, and a refused subscriber redials.
FairSpec ==
  /\ Spec
  /\ \A r \in Requests : WF_vars(RequestStep(r)) /\ WF_vars(Redial(r))
  /\ \A key \in Keys : WF_vars(KeyExpires(key))

-----------------------------------------------------------------------------
(* Properties.                                                             *)

(* The variables hold what the code's types allow.                         *)
TypeOK ==
  /\ \A r \in Requests : req[r].limit \in {0, DefaultLimit} \cup TenantLimits
  /\ count \in [Keys -> Nat] /\ ttl \in [Keys -> BOOLEAN]
  /\ \A t \in Tenants : tenants[t] = NoTenant \/ tenants[t].limit \in TenantLimits

\* The largest limit a tenant can have.
Largest(S) == CHOOSE n \in S : \A k \in S : k <= n

(* In the life of one counter, whatever the interleaving of the replicas,  *)
(* no more requests pass than the limit allows (those that pass because    *)
(* Redis failed are not counted).                                          *)
AdmittedIsBounded ==
  /\ \A p \in Phones : admitted[p] <= PhoneLimit
  /\ \A t \in Tenants : admitted[t] <= Largest(TenantLimits \cup {DefaultLimit})


(* While Redis works, a counter over its limit goes away, so that a        *)
(* refused subscriber gets through again: the caller that created the      *)
(* counter does set its expiry.                                            *)
LimitedRecovers ==
  \A p \in Phones : ~faulty /\ count[p] > PhoneLimit ~> count[p] <= PhoneLimit

(* A tenant whose deletion was confirmed is inactive until a request asks  *)
(* for the contrary.                                                       *)
DeletedIsInactive == \A t \in deleted : ~tenants[t].active
=============================================================================
