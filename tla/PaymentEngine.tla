--------------------------- MODULE PaymentEngine ---------------------------
(***************************************************************************)
(* The Rust payment engine: concurrent InitiatePayment and ProcessCallback *)
(* handlers over one payments table and one outbox table, and the mobile   *)
(* money provider they call.  One action per await of a handler: between   *)
(* two awaits other handlers run, the handler's future may be dropped, the *)
(* process may crash, or the database may return an error.                 *)
(*                                                                         *)
(* A payment is identified with the InitiatePayment call that creates it:  *)
(* the orchestrator sends an empty payment_id, for which the gRPC layer    *)
(* draws a fresh UUID.  A provider reference <<p, k>> names the charge the *)
(* provider accepts on the k-th attempt for payment p.  Amounts, phone     *)
(* numbers and timestamps are abstracted to whether validation succeeds.   *)
(***************************************************************************)
EXTENDS Integers, Sequences, FiniteSets

CONSTANTS
  Payments,      \* the InitiatePayment calls, hence the payments they create
  Keys,          \* idempotency keys
  KeyOf,         \* KeyOf[p]: the idempotency key that call p carries
  Callbacks,     \* the ProcessCallback calls the engine receives
  MaxAttempts,   \* call_provider_with_retry's max_attempts (3 in the code)
  NoRef,         \* provider_reference = None
  NoPayment      \* no payment looked up yet

Refs == Payments \X (1 .. MaxAttempts)

ASSUME PaymentAssumption ==
  /\ KeyOf \in [Payments -> Keys]
  /\ MaxAttempts \in Nat \ {0}
  /\ NoRef \notin Refs
  /\ NoPayment \notin Payments

VARIABLES
  payments,   \* payment_engine.payments: payments[p], status "none" if absent
  outbox,     \* events.cdc_outbox, in insertion order
  pc,         \* where InitiatePayment call p is
  copy,       \* the handler's in-memory `payment`
  attempt,    \* completed provider attempts of call p
  charges,    \* references of the charges the provider has accepted
  settled,    \* settled[r]: how the provider settled charge r, or "none"
  cpc,        \* where ProcessCallback call h is
  cref,       \* the callback's provider_reference
  cstatus,    \* the callback's status, as a ProviderStatus
  cpay,       \* the payment the gRPC layer looked up for it
  ccopy       \* the callback handler's in-memory `payment`

initVars == <<pc, copy, attempt>>
cbVars   == <<cpc, cref, cstatus, cpay, ccopy>>
provider == <<charges, settled>>
vars == <<payments, outbox, initVars, provider, cbVars>>

----------------------------------------------------------------------------
(* domain/payment.rs and domain/provider.rs *)

Status == {"Pending", "Processing", "Completed", "Failed", "Cancelled",
           "Refunded"}
ProviderStatus == {"Pending", "Processing", "Completed", "Failed",
                   "Cancelled", "Refunded", "Unknown"}

Row == [status : Status, ref : Refs \union {NoRef}]
NoRow == [status |-> "none", ref |-> NoRef]

Open == {"Pending", "Processing"}

NewPayment == [status |-> "Pending", ref |-> NoRef]

MarkProcessing(pay) ==
  IF pay.status \in Open THEN [pay EXCEPT !.status = "Processing"] ELSE pay

\* Mutants: the callback's reference is dropped; the guard is dropped.
MarkCompletedKeepsRef(pay, ref) ==
  IF pay.status \in Open THEN [pay EXCEPT !.status = "Completed"] ELSE pay

MarkCompletedUnguarded(pay, ref) == [status |-> "Completed", ref |-> ref]

MarkCompleted(pay, ref) ==
  IF pay.status \in Open THEN [status |-> "Completed", ref |-> ref] ELSE pay

MarkFailed(pay) ==
  IF pay.status \in Open THEN [pay EXCEPT !.status = "Failed"] ELSE pay

MarkCancelled(pay) ==
  IF pay.status \in Open THEN [pay EXCEPT !.status = "Cancelled"] ELSE pay

MarkRefunded(pay) ==
  IF pay.status = "Completed" THEN [pay EXCEPT !.status = "Refunded"] ELSE pay

\* apply_provider_status swallows the errors of the mark_* methods: a
\* transition that is not allowed leaves the payment as it was.
ApplyProviderStatus(pay, status, ref) ==
  CASE status = "Completed"  -> MarkCompleted(pay, ref)
    [] status = "Failed"     -> MarkFailed(pay)
    [] status = "Cancelled"  -> MarkCancelled(pay)
    [] status = "Refunded"   -> MarkRefunded(pay)
    [] status = "Processing" -> MarkProcessing(pay)
    [] OTHER                 -> pay

----------------------------------------------------------------------------
(* infrastructure/postgres.rs and infrastructure/outbox.rs *)

Exists(p) == payments[p].status # "none"

FindByIdempotencyKey(key) == {p \in Payments : Exists(p) /\ KeyOf[p] = key}

\* INSERT ... ON CONFLICT (payment_id) DO UPDATE: the row becomes the
\* handler's copy, whatever the row holds by now.
SavePayment(p, pay) == payments' = [payments EXCEPT ![p] = pay]

GetPaymentByProviderRef(ref) == {p \in Payments : payments[p].ref = ref}

GetPaymentById(p) == {q \in {p} : Exists(q)}

\* The lookup of both the gRPC layer and the handler: by provider reference,
\* otherwise by payment_id when the callback has one (`ids` is then {p}).
Lookup(ref, ids) ==
  IF GetPaymentByProviderRef(ref) # {}
    THEN GetPaymentByProviderRef(ref)
    ELSE UNION {GetPaymentById(p) : p \in ids}

AppendOutbox(type, p, status) ==
  outbox' = Append(outbox, [type |-> type, payment |-> p, status |-> status])

----------------------------------------------------------------------------
(* application/initiate.rs: InitiatePaymentHandler::handle *)

\* Mutant: no idempotency check.
CheckIdempotencyDropped(p) ==
  /\ pc[p] = "idle"
  /\ pc' = [pc EXCEPT ![p] = "save"]
  /\ copy' = [copy EXCEPT ![p] = NewPayment]
  /\ UNCHANGED <<payments, outbox, attempt, provider, cbVars>>

\* Idempotency check, then Payment::new, which validates the request.
CheckIdempotency(p) ==
  /\ pc[p] = "idle"
  /\ \/ /\ FindByIdempotencyKey(KeyOf[p]) # {}
        /\ pc' = [pc EXCEPT ![p] = "rejected"]
        /\ UNCHANGED copy
     \/ /\ FindByIdempotencyKey(KeyOf[p]) = {}
        /\ \/ /\ pc' = [pc EXCEPT ![p] = "error"]     \* validate() fails
              /\ UNCHANGED copy
           \/ /\ pc' = [pc EXCEPT ![p] = "save"]
              /\ copy' = [copy EXCEPT ![p] = NewPayment]
  /\ UNCHANGED <<payments, outbox, attempt, provider, cbVars>>

\* Mutant: the provider is called before the Pending row is saved.
SavePendingSkipped(p) ==
  /\ pc[p] = "save"
  /\ pc' = [pc EXCEPT ![p] = "call"]
  /\ UNCHANGED <<payments, outbox, copy, attempt, provider, cbVars>>

SavePending(p) ==
  /\ pc[p] = "save"
  /\ SavePayment(p, copy[p])
  /\ pc' = [pc EXCEPT ![p] = "call"]
  /\ UNCHANGED <<outbox, copy, attempt, provider, cbVars>>

\* The provider accepts the request of the current attempt.
ProviderAccept(p) ==
  /\ pc[p] = "call"
  /\ charges' = charges \union {<<p, attempt[p] + 1>>}
  /\ pc' = [pc EXCEPT ![p] = "accepted"]
  /\ UNCHANGED <<payments, outbox, copy, attempt, settled, cbVars>>

\* The provider's answer arrives: mark_processing and the reference are set
\* on the in-memory payment; the answer's own status is not looked at.
ProviderReply(p) ==
  /\ pc[p] = "accepted"
  /\ copy' = [copy EXCEPT ![p] =
       [MarkProcessing(copy[p]) EXCEPT !.ref = <<p, attempt[p] + 1>>]]
  /\ pc' = [pc EXCEPT ![p] = "save_processing"]
  /\ UNCHANGED <<payments, outbox, attempt, provider, cbVars>>

\* The attempt ends in an error: the provider refused, or it accepted and
\* the answer was lost, late or unreadable.  The loop retries blindly.
ProviderError(p) ==
  /\ pc[p] \in {"call", "accepted"}
  /\ attempt' = [attempt EXCEPT ![p] = @ + 1]
  /\ IF attempt[p] + 1 < MaxAttempts
       THEN pc' = [pc EXCEPT ![p] = "call"] /\ UNCHANGED copy
       ELSE /\ pc' = [pc EXCEPT ![p] = "save_failed"]
            /\ copy' = [copy EXCEPT ![p] = MarkFailed(@)]
  /\ UNCHANGED <<payments, outbox, provider, cbVars>>

SaveProcessing(p) ==
  /\ pc[p] = "save_processing"
  /\ SavePayment(p, copy[p])
  /\ pc' = [pc EXCEPT ![p] = "emit_initiated"]
  /\ UNCHANGED <<outbox, copy, attempt, provider, cbVars>>

EmitInitiated(p) ==
  /\ pc[p] = "emit_initiated"
  /\ AppendOutbox("PaymentInitiated", p, copy[p].status)
  /\ pc' = [pc EXCEPT ![p] = "ok"]
  /\ UNCHANGED <<payments, copy, attempt, provider, cbVars>>

\* Mutant: the error is returned before the outbox is written.
SaveFailedOnly(p) ==
  /\ pc[p] = "save_failed"
  /\ SavePayment(p, copy[p])
  /\ pc' = [pc EXCEPT ![p] = "error"]
  /\ UNCHANGED <<outbox, copy, attempt, provider, cbVars>>

SaveFailed(p) ==
  /\ pc[p] = "save_failed"
  /\ SavePayment(p, copy[p])
  /\ pc' = [pc EXCEPT ![p] = "emit_failed"]
  /\ UNCHANGED <<outbox, copy, attempt, provider, cbVars>>

EmitFailed(p) ==
  /\ pc[p] = "emit_failed"
  /\ AppendOutbox("PaymentFailed", p, copy[p].status)
  /\ pc' = [pc EXCEPT ![p] = "error"]
  /\ UNCHANGED <<payments, copy, attempt, provider, cbVars>>

Initiating(p) == pc[p] \notin {"idle", "rejected", "error", "ok", "stopped"}

\* A database error returned by `?`, a dropped future or a crash ends the
\* handler at an await; nothing resumes it.
StopInitiate(p) ==
  /\ Initiating(p)
  /\ pc' = [pc EXCEPT ![p] = "stopped"]
  /\ UNCHANGED <<payments, outbox, copy, attempt, provider, cbVars>>

----------------------------------------------------------------------------
(* The provider settles an accepted charge once. *)

Settle(r, outcome) ==
  /\ r \in charges
  /\ settled[r] = "none"
  /\ settled' = [settled EXCEPT ![r] = outcome]
  /\ UNCHANGED <<payments, outbox, initVars, charges, cbVars>>

Outcomes == {"Success", "Failed", "Cancelled"}

\* What the provider may report of charge r: its outcome once settled, and
\* "still pending" or "timed out", which may be delivered late.
Reports(r) == {"Pending", "Timeout"} \union (Outcomes \intersect {settled[r]})

----------------------------------------------------------------------------
(* ports/grpc.rs: process_callback, then application/callback.rs: handle *)

MapCallbackStatus(report) ==
  CASE report = "Success"   -> "Completed"
    [] report = "Failed"    -> "Failed"
    [] report = "Timeout"   -> "Failed"
    [] report = "Cancelled" -> "Cancelled"
    [] report = "Pending"   -> "Pending"

\* The gRPC layer finds the payment, to learn its tenant and id.  The
\* callback carries the payment_id or leaves it empty.
ProcessCallback(h, r, report, ids) ==
  /\ cpc[h] = "idle"
  /\ r \in charges
  /\ report \in Reports(r)
  /\ \/ /\ Lookup(r, ids) = {}
        /\ cpc' = [cpc EXCEPT ![h] = "notfound"]
        /\ UNCHANGED <<cref, cstatus, cpay>>
     \/ \E p \in Lookup(r, ids) :
          /\ cpc' = [cpc EXCEPT ![h] = "read"]
          /\ cref' = [cref EXCEPT ![h] = r]
          /\ cstatus' = [cstatus EXCEPT ![h] = MapCallbackStatus(report)]
          /\ cpay' = [cpay EXCEPT ![h] = p]
  /\ UNCHANGED <<payments, outbox, initVars, provider, ccopy>>

\* The handler reads the row and applies the status to its copy.  Rows are
\* never deleted, so this second lookup finds a row and its NotFound error
\* cannot occur.
ReadPayment(h) ==
  /\ cpc[h] = "read"
  /\ \E p \in Lookup(cref[h], {cpay[h]}) :
       /\ cpay' = [cpay EXCEPT ![h] = p]
       /\ ccopy' = [ccopy EXCEPT ![h] =
                      ApplyProviderStatus(payments[p], cstatus[h], cref[h])]
  /\ cpc' = [cpc EXCEPT ![h] = "save"]
  /\ UNCHANGED <<payments, outbox, initVars, provider, cref, cstatus>>

SaveCallback(h) ==
  /\ cpc[h] = "save"
  /\ SavePayment(cpay[h], ccopy[h])
  /\ cpc' = [cpc EXCEPT ![h] = "emit"]
  /\ UNCHANGED <<outbox, initVars, provider, cref, cstatus, cpay, ccopy>>

\* The event is named after the callback, not after the transition made.
CallbackEvent(status) ==
  CASE status = "Completed" -> "PaymentCompleted"
    [] status = "Failed"    -> "PaymentFailed"
    [] status = "Cancelled" -> "PaymentCancelled"
    [] status = "Refunded"  -> "PaymentRefunded"
    [] OTHER                -> "PaymentStatusUpdated"

EmitCallback(h) ==
  /\ cpc[h] = "emit"
  /\ AppendOutbox(CallbackEvent(cstatus[h]), cpay[h], ccopy[h].status)
  /\ cpc' = [cpc EXCEPT ![h] = "accepted"]
  /\ UNCHANGED <<payments, initVars, provider, cref, cstatus, cpay, ccopy>>

Handling(h) == cpc[h] \in {"read", "save", "emit"}

StopCallback(h) ==
  /\ Handling(h)
  /\ cpc' = [cpc EXCEPT ![h] = "stopped"]
  /\ UNCHANGED <<payments, outbox, initVars, provider, cref, cstatus, cpay,
                 ccopy>>

----------------------------------------------------------------------------

Init ==
  /\ payments = [p \in Payments |-> NoRow]
  /\ outbox = <<>>
  /\ pc = [p \in Payments |-> "idle"]
  /\ copy = [p \in Payments |-> NewPayment]
  /\ attempt = [p \in Payments |-> 0]
  /\ charges = {}
  /\ settled = [r \in Refs |-> "none"]
  /\ cpc = [h \in Callbacks |-> "idle"]
  /\ cref = [h \in Callbacks |-> NoRef]
  /\ cstatus = [h \in Callbacks |-> "Unknown"]
  /\ cpay = [h \in Callbacks |-> NoPayment]
  /\ ccopy = [h \in Callbacks |-> NewPayment]

InitiateStep(p) ==
  \/ CheckIdempotency(p)
  \/ SavePending(p)
  \/ ProviderAccept(p)
  \/ ProviderReply(p)
  \/ ProviderError(p)
  \/ SaveProcessing(p)
  \/ EmitInitiated(p)
  \/ SaveFailed(p)
  \/ EmitFailed(p)

CallbackStep(h) ==
  \/ ReadPayment(h)
  \/ SaveCallback(h)
  \/ EmitCallback(h)

Deliver(h) == \E r \in charges : \E report \in Reports(r) :
                \E ids \in {{}, {r[1]}} : ProcessCallback(h, r, report, ids)

\* Every step of a run in which no handler is cut short.
Steps ==
  \/ \E p \in Payments : InitiateStep(p)
  \/ \E h \in Callbacks : Deliver(h) \/ CallbackStep(h)
  \/ \E r \in charges, outcome \in Outcomes : Settle(r, outcome)

Stop ==
  \/ \E p \in Payments : StopInitiate(p)
  \/ \E h \in Callbacks : StopCallback(h)

Next == Steps \/ Stop

Spec == Init /\ [][Next]_vars

----------------------------------------------------------------------------
(* Handlers that do not overlap: the client of one idempotency key waits   *)
(* for its call to return before the next one, and a callback arrives when *)
(* no other handler holds a copy of the same payment.                      *)

Holds(h, p) == cpc[h] \in {"read", "save", "emit"} /\ cpay[h] = p

NoOverlap ==
  /\ \A p, q \in Payments : p # q /\ KeyOf[p] = KeyOf[q]
                              => ~(Initiating(p) /\ Initiating(q))
  /\ \A p \in Payments : \A h \in Callbacks :
       Holds(h, p) => /\ ~Initiating(p)
                      /\ \A g \in Callbacks \ {h} : ~Holds(g, p)

----------------------------------------------------------------------------
(* Properties *)

EventTypes == {"PaymentInitiated", "PaymentCompleted", "PaymentFailed",
               "PaymentCancelled", "PaymentRefunded", "PaymentStatusUpdated"}

Event == [type : EventTypes, payment : Payments, status : Status]

InitiatePoints == {"idle", "rejected", "save", "call", "accepted",
                   "save_processing", "emit_initiated", "save_failed",
                   "emit_failed", "ok", "error", "stopped"}
CallbackPoints == {"idle", "notfound", "read", "save", "emit", "accepted",
                   "stopped"}

\* Type invariant of the engine's state.
TypeOK ==
  /\ payments \in [Payments -> Row \union {NoRow}]
  /\ outbox \in Seq(Event)
  /\ pc \in [Payments -> InitiatePoints]
  /\ copy \in [Payments -> Row]
  /\ attempt \in [Payments -> 0 .. MaxAttempts]
  /\ charges \subseteq Refs
  /\ settled \in [Refs -> Outcomes \union {"none"}]
  /\ cpc \in [Callbacks -> CallbackPoints]
  /\ cref \in [Callbacks -> Refs \union {NoRef}]
  /\ cstatus \in [Callbacks -> ProviderStatus]
  /\ cpay \in [Callbacks -> Payments \union {NoPayment}]
  /\ ccopy \in [Callbacks -> Row]

\* Every charge the provider has accepted belongs to a payment that is on
\* record: `handle` persists the Pending row before its first provider call,
\* and no crash, failed save or concurrent handler can leave a charge without
\* a row to reconcile it with.
ChargeIsOnRecord == \A r \in charges : Exists(r[1])

\* A row that says Completed names, in provider_reference, a charge of that
\* payment which the provider settled successfully: with retries leaving
\* several charges behind, late and duplicated callbacks and blind upserts,
\* mark_completed's reference and status still travel together.
CompletedIsSettled ==
  \A p \in Payments : payments[p].status = "Completed" =>
    /\ payments[p].ref \in charges
    /\ payments[p].ref[1] = p
    /\ settled[payments[p].ref] = "Success"

\* An InitiatePayment call that returned Ok left exactly one PaymentInitiated
\* event in the outbox, its payment is on record and the provider holds a
\* charge for it; a call that has not returned Ok left no such event, however
\* it ended.
InitiatedEvents(p) ==
  {i \in 1 .. Len(outbox) : /\ outbox[i].type = "PaymentInitiated"
                            /\ outbox[i].payment = p}

AckedIsAnnounced ==
  \A p \in Payments :
    /\ Cardinality(InitiatedEvents(p)) = IF pc[p] = "ok" THEN 1 ELSE 0
    /\ pc[p] = "ok" => Exists(p) /\ \E r \in charges : r[1] = p

\* Once no handler is at work on a payment that got past Pending, the outbox
\* holds an event with the status its row has: whatever the provider's
\* acknowledgment or callback left in the table was also announced.
Quiet(p) ==
  /\ ~Initiating(p)
  /\ \A h \in Callbacks : ~Holds(h, p)

RowIsAnnounced ==
  \A p \in Payments : Quiet(p) /\ payments[p].status \notin {"none", "Pending"} =>
    \E i \in 1 .. Len(outbox) : /\ outbox[i].payment = p
                                /\ outbox[i].status = payments[p].status

\* At most one payment exists for an idempotency key.
OnePaymentPerKey ==
  \A p, q \in Payments :
    Exists(p) /\ Exists(q) /\ KeyOf[p] = KeyOf[q] => p = q

\* The provider accepts at most one charge for a payment.
OneChargePerPayment == \A r, s \in charges : r[1] = s[1] => r = s

\* The payments table as PaymentLifecycle sees it.
rowStatus == [p \in Payments |-> payments[p].status]

Lifecycle == INSTANCE PaymentLifecycle WITH status <- rowStatus

============================================================================
