------------------------ MODULE PaymentEngineProofs ------------------------
(***************************************************************************)
(* Proofs about PaymentEngine, for any number of payments, callbacks,      *)
(* idempotency keys and provider attempts.                                 *)
(***************************************************************************)
EXTENDS PaymentEngine, TLAPS

----------------------------------------------------------------------------
(* What the domain methods return. *)

\* The mark_* methods and apply_provider_status keep a payment well formed.
LEMMA ApplyType ==
  ASSUME NEW pay \in Row, NEW status \in ProviderStatus, NEW ref \in Refs
  PROVE  ApplyProviderStatus(pay, status, ref) \in Row
BY DEF ApplyProviderStatus, MarkCompleted, MarkFailed, MarkCancelled,
       MarkRefunded, MarkProcessing, Row, Status, ProviderStatus, Open

\* apply_provider_status makes a payment Completed only for a Completed
\* report, whose reference it then stores, and otherwise leaves both alone.
LEMMA ApplyCompleted ==
  ASSUME NEW pay \in Row, NEW status \in ProviderStatus, NEW ref \in Refs,
         ApplyProviderStatus(pay, status, ref).status = "Completed"
  PROVE  \/ status = "Completed"
            /\ ApplyProviderStatus(pay, status, ref).ref = ref
         \/ ApplyProviderStatus(pay, status, ref) = pay
BY DEF ApplyProviderStatus, MarkCompleted, MarkFailed, MarkCancelled,
       MarkRefunded, MarkProcessing, Row, Status, ProviderStatus, Open

\* The reference is the stored one or the callback's.
LEMMA ApplyRef ==
  ASSUME NEW pay \in Row, NEW status \in ProviderStatus, NEW ref \in Refs
  PROVE  ApplyProviderStatus(pay, status, ref).ref \in {pay.ref, ref}
BY DEF ApplyProviderStatus, MarkCompleted, MarkFailed, MarkCancelled,
       MarkRefunded, MarkProcessing, Row, Status, ProviderStatus, Open

----------------------------------------------------------------------------
(* The inductive invariant.  TypeOK alone is not inductive: the callback   *)
(* handler types its copy only because the row it looked up exists, which  *)
(* rests on the reference it carries being that of an accepted charge.     *)

\* A payment past its first save has a row; attempts are within the bound.
InitiateInv ==
  \A p \in Payments :
    /\ pc[p] \in {"call", "accepted", "save_processing", "emit_initiated",
                  "save_failed", "emit_failed", "ok"} => Exists(p)
    /\ pc[p] \in {"idle", "save"} => attempt[p] = 0
    /\ pc[p] \in {"call", "accepted"} => attempt[p] < MaxAttempts
    /\ copy[p].status # "Completed"

\* A callback at work carries the reference of an accepted charge of the
\* payment it found, and reports what the provider did with it.
CallbackInv ==
  \A h \in Callbacks : Handling(h) =>
    /\ cref[h] \in charges
    /\ cpay[h] \in Payments
    /\ Exists(cpay[h])
    /\ cref[h][1] = cpay[h]
    /\ cstatus[h] = "Completed" => settled[cref[h]] = "Success"

\* References stored in rows and in copies belong to their own payment.
Own(p, ref) == ref = NoRef \/ ref[1] = p

OwnRefs ==
  /\ \A p \in Payments : Own(p, payments[p].ref) /\ Own(p, copy[p].ref)
  /\ \A h \in Callbacks : cpc[h] \in {"save", "emit"}
                            => Own(cpay[h], ccopy[h].ref)

\* A Completed row, or a Completed copy about to be saved, is backed by a
\* charge of that payment which the provider settled successfully.
Backed(p, pay) ==
  pay.status = "Completed" => /\ pay.ref \in charges
                              /\ pay.ref[1] = p
                              /\ settled[pay.ref] = "Success"

BackedInv ==
  /\ \A p \in Payments : Backed(p, payments[p])
  /\ \A h \in Callbacks : cpc[h] \in {"save", "emit"}
                            => Backed(cpay[h], ccopy[h])

IInv == /\ TypeOK
        /\ ChargeIsOnRecord
        /\ InitiateInv
        /\ CallbackInv
        /\ OwnRefs
        /\ BackedInv

\* A record that is a Row has a status, so a saved copy is never NoRow.
LEMMA RowExists ==
  ASSUME NEW pay \in Row
  PROVE  pay.status # "none" /\ pay.status \in Status
         /\ pay.ref \in Refs \union {NoRef}
BY DEF Row, Status

\* An existing row is well formed, and so is one that stores a reference.
LEMMA ExistingRow ==
  ASSUME TypeOK, NEW p \in Payments,
         Exists(p) \/ payments[p].ref # NoRef
  PROVE  payments[p] \in Row /\ Exists(p)
BY DEF TypeOK, Exists, NoRow, Row, Status

\* What the two lookups of a callback can find.
LEMMA LookupFinds ==
  ASSUME TypeOK, PaymentAssumption, OwnRefs,
         NEW ref \in Refs, NEW ids \in SUBSET Payments,
         \A q \in ids : q = ref[1],
         NEW p \in Lookup(ref, ids)
  PROVE  p \in Payments /\ p = ref[1] /\ payments[p] \in Row /\ Exists(p)
<1>1. CASE p \in GetPaymentByProviderRef(ref)
  <2>1. p \in Payments /\ payments[p].ref = ref
    BY <1>1 DEF GetPaymentByProviderRef
  <2>2. payments[p].ref # NoRef
    BY <2>1, PaymentAssumption DEF PaymentAssumption
  <2> QED
    BY <2>1, <2>2, ExistingRow DEF OwnRefs, Own
<1>2. CASE p \in UNION {GetPaymentById(q) : q \in ids}
  <2>1. PICK q \in ids : p \in GetPaymentById(q)
    BY <1>2
  <2>2. p = q /\ Exists(p) /\ p \in Payments
    BY <2>1 DEF GetPaymentById
  <2> QED
    BY <2>1, <2>2, ExistingRow
<1> QED
  BY <1>1, <1>2 DEF Lookup

LEMMA InitIInv == PaymentAssumption /\ Init => IInv
<1> SUFFICES ASSUME PaymentAssumption, Init PROVE IInv
  OBVIOUS
<1>1. NewPayment \in Row
  BY DEF NewPayment, Row, Status
<1>2. TypeOK
  BY <1>1 DEF Init, TypeOK, PaymentAssumption, ProviderStatus,
              InitiatePoints, CallbackPoints
<1>3. InitiateInv /\ CallbackInv /\ ChargeIsOnRecord
  BY DEF Init, InitiateInv, CallbackInv, Handling, ChargeIsOnRecord, NewPayment
<1>4. OwnRefs /\ BackedInv
  BY DEF Init, OwnRefs, BackedInv, Own, Backed, NoRow, NewPayment
<1> QED
  BY <1>2, <1>3, <1>4 DEF IInv

----------------------------------------------------------------------------
(* Each action preserves the invariant. *)

\* A fresh payment is well formed, Pending and without a reference.
LEMMA NewPaymentFacts ==
  NewPayment \in Row /\ NewPayment.status = "Pending" /\ NewPayment.ref = NoRef
BY DEF NewPayment, Row, Status

\* mark_failed and mark_processing never complete a payment.
LEMMA MarkFacts ==
  ASSUME NEW pay \in Row, pay.status # "Completed"
  PROVE  /\ MarkFailed(pay) \in Row
         /\ MarkFailed(pay).ref = pay.ref
         /\ MarkFailed(pay).status # "Completed"
         /\ MarkProcessing(pay) \in Row
         /\ MarkProcessing(pay).status # "Completed"
BY DEF MarkFailed, MarkProcessing, Open, Row, Status

\* save_payment writes one row, which then exists; no row disappears.
LEMMA SaveFacts ==
  ASSUME TypeOK, NEW p \in Payments, NEW pay \in Row, SavePayment(p, pay)
  PROVE  /\ payments' \in [Payments -> Row \union {NoRow}]
         /\ payments'[p] = pay
         /\ \A q \in Payments : q # p => payments'[q] = payments[q]
         /\ \A q \in Payments : Exists(q) => Exists(q)'
         /\ Exists(p)'
BY RowExists DEF TypeOK, SavePayment, Exists

\* append_outbox adds one well-formed event.
LEMMA AppendFacts ==
  ASSUME TypeOK, NEW p \in Payments, NEW status \in Status,
         NEW type \in EventTypes,
         AppendOutbox(type, p, status)
  PROVE  outbox' \in Seq(Event)
<1>1. [type |-> type, payment |-> p, status |-> status] \in Event
  BY DEF Event
<1>2. outbox \in Seq(Event)
  BY DEF TypeOK
<1> QED
  BY <1>1, <1>2 DEF AppendOutbox

\* Charges are references of payments.
LEMMA ChargeOf ==
  ASSUME TypeOK, NEW r \in charges
  PROVE  r \in Refs /\ r[1] \in Payments
BY DEF TypeOK, Refs

\* The idempotency check and the validation write nothing.
LEMMA CheckStep ==
  ASSUME IInv, NEW p \in Payments, CheckIdempotency(p)
  PROVE  IInv'
<1> USE PaymentAssumption DEF IInv, CheckIdempotency, cbVars, provider
<1>c. copy' = copy \/ copy' = [copy EXCEPT ![p] = NewPayment]
  OBVIOUS
<1>a. /\ copy' \in [Payments -> Row]
      /\ \A q \in Payments : copy'[q] \in {copy[q], NewPayment}
  <2> HIDE DEF CheckIdempotency
  <2>1. copy \in [Payments -> Row]
    BY DEF TypeOK
  <2> QED
    BY <1>c, <2>1, NewPaymentFacts
<1>d. \E x \in {"rejected", "error", "save"} : pc' = [pc EXCEPT ![p] = x]
  OBVIOUS
<1>b. pc' \in [Payments -> InitiatePoints]
  <2> HIDE DEF CheckIdempotency
  <2>1. pc \in [Payments -> InitiatePoints]
    BY DEF TypeOK
  <2> QED
    BY <1>d, <2>1 DEF InitiatePoints
<1>1. TypeOK'
  BY <1>a, <1>b DEF TypeOK, InitiatePoints, CallbackPoints
<1>2. ChargeIsOnRecord'
  BY NewPaymentFacts DEF ChargeIsOnRecord, Exists, TypeOK
<1>3. InitiateInv'
  BY NewPaymentFacts DEF InitiateInv, Exists, TypeOK
<1>4. CallbackInv'
  BY NewPaymentFacts DEF CallbackInv, Handling, Exists
<1>5. OwnRefs'
  BY NewPaymentFacts DEF OwnRefs, Own, TypeOK
<1>6. BackedInv'
  BY NewPaymentFacts DEF BackedInv, Backed, TypeOK
<1> QED
  BY <1>1, <1>2, <1>3, <1>4, <1>5, <1>6

\* The first save creates the row.
LEMMA SavePendingStep ==
  ASSUME IInv, NEW p \in Payments, SavePending(p)
  PROVE  IInv'
<1> USE PaymentAssumption DEF IInv, SavePending, cbVars, provider
<1>a. copy[p] \in Row
  BY DEF TypeOK
<1>b. /\ payments' \in [Payments -> Row \union {NoRow}]
      /\ payments'[p] = copy[p]
      /\ \A q \in Payments : q # p => payments'[q] = payments[q]
      /\ \A q \in Payments : Exists(q) => Exists(q)'
      /\ Exists(p)'
  BY <1>a, SaveFacts
<1> USE <1>a, <1>b
<1>1. TypeOK'
  BY DEF TypeOK, InitiatePoints, CallbackPoints
<1>2. ChargeIsOnRecord'
  BY ChargeOf DEF ChargeIsOnRecord
<1>3. InitiateInv'
  BY DEF InitiateInv, TypeOK
<1>4. CallbackInv'
  BY DEF CallbackInv, Handling
<1>5. OwnRefs'
  BY DEF OwnRefs, Own
<1>6. BackedInv'
  BY DEF BackedInv, Backed, InitiateInv
<1> QED
  BY <1>1, <1>2, <1>3, <1>4, <1>5, <1>6

\* An accepted charge belongs to a payment that has its row.
LEMMA AcceptStep ==
  ASSUME IInv, NEW p \in Payments, ProviderAccept(p)
  PROVE  IInv'
<1> USE PaymentAssumption DEF IInv, ProviderAccept, cbVars
<1>a. <<p, attempt[p] + 1>> \in Refs /\ <<p, attempt[p] + 1>>[1] = p
  BY DEF TypeOK, InitiateInv, Refs
<1>b. Exists(p)
  BY DEF InitiateInv
<1>1. TypeOK'
  BY <1>a, <1>b DEF TypeOK, InitiatePoints, CallbackPoints
<1>2. ChargeIsOnRecord'
  BY <1>a, <1>b DEF ChargeIsOnRecord, Exists, TypeOK
<1>3. InitiateInv'
  BY <1>a, <1>b DEF InitiateInv, Exists, TypeOK
<1>4. CallbackInv'
  BY <1>a, <1>b DEF CallbackInv, Handling, Exists
<1>5. OwnRefs'
  BY <1>a, <1>b DEF OwnRefs, Own, TypeOK
<1>6. BackedInv'
  BY <1>a, <1>b DEF BackedInv, Backed, TypeOK
<1> QED
  BY <1>1, <1>2, <1>3, <1>4, <1>5, <1>6

\* The provider's answer changes the copy only.
LEMMA ReplyStep ==
  ASSUME IInv, NEW p \in Payments, ProviderReply(p)
  PROVE  IInv'
<1> USE PaymentAssumption DEF IInv, ProviderReply, cbVars, provider
<1>a. <<p, attempt[p] + 1>> \in Refs /\ <<p, attempt[p] + 1>>[1] = p
  BY DEF TypeOK, InitiateInv, Refs
<1>m. MarkProcessing(copy[p]) \in Row
      /\ MarkProcessing(copy[p]).status # "Completed"
  BY MarkFacts DEF TypeOK, InitiateInv
<1>n. copy'[p] = [MarkProcessing(copy[p]) EXCEPT !.ref = <<p, attempt[p] + 1>>]
  BY DEF TypeOK
<1>b. copy'[p] \in Row /\ copy'[p].ref = <<p, attempt[p] + 1>>
      /\ copy'[p].status # "Completed"
  BY <1>a, <1>m, <1>n DEF Row
<1>c. \A q \in Payments : q # p => copy'[q] = copy[q]
  BY DEF TypeOK
<1>d. copy' \in [Payments -> Row]
  BY <1>b, <1>c DEF TypeOK
<1>1. TypeOK'
  BY <1>a, <1>b, <1>c, <1>d DEF TypeOK, InitiatePoints, CallbackPoints
<1>2. ChargeIsOnRecord'
  BY <1>a, <1>b, <1>c, <1>d DEF ChargeIsOnRecord, Exists, TypeOK
<1>3. InitiateInv'
  BY <1>a, <1>b, <1>c, <1>d DEF InitiateInv, Exists, TypeOK
<1>4. CallbackInv'
  BY <1>a, <1>b, <1>c, <1>d DEF CallbackInv, Handling, Exists
<1>5. OwnRefs'
  BY <1>a, <1>b, <1>c, <1>d DEF OwnRefs, Own, TypeOK
<1>6. BackedInv'
  BY <1>a, <1>b, <1>c, <1>d DEF BackedInv, Backed, TypeOK
<1> QED
  BY <1>1, <1>2, <1>3, <1>4, <1>5, <1>6

\* A failed attempt is counted; the last one fails the copy.
LEMMA ErrorStep ==
  ASSUME IInv, NEW p \in Payments, ProviderError(p)
  PROVE  IInv'
<1> USE PaymentAssumption DEF IInv, ProviderError, cbVars, provider
<1>a. MarkFailed(copy[p]) \in Row /\ MarkFailed(copy[p]).ref = copy[p].ref
      /\ MarkFailed(copy[p]).status # "Completed"
  BY MarkFacts DEF TypeOK, InitiateInv
<1>b. attempt[p] + 1 \in 0 .. MaxAttempts
  BY DEF TypeOK, InitiateInv
<1>c. \A q \in Payments : copy'[q].ref = copy[q].ref
  BY <1>a DEF TypeOK
<1>d. /\ copy' = copy \/ copy' = [copy EXCEPT ![p] = MarkFailed(copy[p])]
      /\ \E x \in {"call", "save_failed"} : pc' = [pc EXCEPT ![p] = x]
      /\ attempt' = [attempt EXCEPT ![p] = attempt[p] + 1]
      /\ UNCHANGED <<payments, outbox, charges, settled, cpc, cref, cstatus,
                     cpay, ccopy>>
  OBVIOUS
<1>1. TypeOK'
  <2> HIDE DEF ProviderError
  <2>1. copy' \in [Payments -> Row]
    BY <1>a, <1>d DEF TypeOK
  <2>2. pc' \in [Payments -> InitiatePoints]
    BY <1>d DEF TypeOK, InitiatePoints
  <2>3. attempt' \in [Payments -> 0 .. MaxAttempts]
    BY <1>b, <1>d DEF TypeOK
  <2> QED
    BY <2>1, <2>2, <2>3, <1>d DEF TypeOK
<1>2. ChargeIsOnRecord'
  BY <1>a, <1>b DEF ChargeIsOnRecord, Exists, TypeOK
<1>3. InitiateInv'
  BY <1>a, <1>b DEF InitiateInv, Exists, TypeOK
<1>4. CallbackInv'
  BY <1>a, <1>b DEF CallbackInv, Handling, Exists
<1>5. OwnRefs'
  BY <1>c DEF OwnRefs, Own
<1>6. BackedInv'
  BY <1>a, <1>b DEF BackedInv, Backed, TypeOK
<1> QED
  BY <1>1, <1>2, <1>3, <1>4, <1>5, <1>6

\* The second save overwrites the row.
LEMMA SaveProcessingStep ==
  ASSUME IInv, NEW p \in Payments, SaveProcessing(p)
  PROVE  IInv'
<1> USE PaymentAssumption DEF IInv, SaveProcessing, cbVars, provider
<1>a. copy[p] \in Row
  BY DEF TypeOK
<1>b. /\ payments' \in [Payments -> Row \union {NoRow}]
      /\ payments'[p] = copy[p]
      /\ \A q \in Payments : q # p => payments'[q] = payments[q]
      /\ \A q \in Payments : Exists(q) => Exists(q)'
      /\ Exists(p)'
  BY <1>a, SaveFacts
<1> USE <1>a, <1>b
<1>1. TypeOK'
  BY DEF TypeOK, InitiatePoints, CallbackPoints
<1>2. ChargeIsOnRecord'
  BY ChargeOf DEF ChargeIsOnRecord
<1>3. InitiateInv'
  BY DEF InitiateInv, TypeOK
<1>4. CallbackInv'
  BY DEF CallbackInv, Handling
<1>5. OwnRefs'
  BY DEF OwnRefs, Own
<1>6. BackedInv'
  BY DEF BackedInv, Backed, InitiateInv
<1> QED
  BY <1>1, <1>2, <1>3, <1>4, <1>5, <1>6

\* The failure save overwrites the row.
LEMMA SaveFailedStep ==
  ASSUME IInv, NEW p \in Payments, SaveFailed(p)
  PROVE  IInv'
<1> USE PaymentAssumption DEF IInv, SaveFailed, cbVars, provider
<1>a. copy[p] \in Row
  BY DEF TypeOK
<1>b. /\ payments' \in [Payments -> Row \union {NoRow}]
      /\ payments'[p] = copy[p]
      /\ \A q \in Payments : q # p => payments'[q] = payments[q]
      /\ \A q \in Payments : Exists(q) => Exists(q)'
      /\ Exists(p)'
  BY <1>a, SaveFacts
<1> USE <1>a, <1>b
<1>1. TypeOK'
  BY DEF TypeOK, InitiatePoints, CallbackPoints
<1>2. ChargeIsOnRecord'
  BY ChargeOf DEF ChargeIsOnRecord
<1>3. InitiateInv'
  BY DEF InitiateInv, TypeOK
<1>4. CallbackInv'
  BY DEF CallbackInv, Handling
<1>5. OwnRefs'
  BY DEF OwnRefs, Own
<1>6. BackedInv'
  BY DEF BackedInv, Backed, InitiateInv
<1> QED
  BY <1>1, <1>2, <1>3, <1>4, <1>5, <1>6

\* The PaymentInitiated event.
LEMMA EmitInitiatedStep ==
  ASSUME IInv, NEW p \in Payments, EmitInitiated(p)
  PROVE  IInv'
<1> USE PaymentAssumption DEF IInv, EmitInitiated, cbVars, provider
<1>a. copy[p].status \in Status
  BY RowExists DEF TypeOK
<1>b. outbox' \in Seq(Event)
  BY <1>a, AppendFacts DEF EventTypes
<1>1. TypeOK'
  BY <1>b DEF TypeOK, InitiatePoints, CallbackPoints
<1>2. ChargeIsOnRecord'
  BY DEF ChargeIsOnRecord, Exists, TypeOK
<1>3. InitiateInv'
  BY DEF InitiateInv, Exists, TypeOK
<1>4. CallbackInv'
  BY DEF CallbackInv, Handling, Exists
<1>5. OwnRefs'
  BY DEF OwnRefs, Own, TypeOK
<1>6. BackedInv'
  BY DEF BackedInv, Backed, TypeOK
<1> QED
  BY <1>1, <1>2, <1>3, <1>4, <1>5, <1>6

\* The PaymentFailed event of the initiate handler.
LEMMA EmitFailedStep ==
  ASSUME IInv, NEW p \in Payments, EmitFailed(p)
  PROVE  IInv'
<1> USE PaymentAssumption DEF IInv, EmitFailed, cbVars, provider
<1>a. copy[p].status \in Status
  BY RowExists DEF TypeOK
<1>b. outbox' \in Seq(Event)
  BY <1>a, AppendFacts DEF EventTypes
<1>1. TypeOK'
  BY <1>b DEF TypeOK, InitiatePoints, CallbackPoints
<1>2. ChargeIsOnRecord'
  BY DEF ChargeIsOnRecord, Exists, TypeOK
<1>3. InitiateInv'
  BY DEF InitiateInv, Exists, TypeOK
<1>4. CallbackInv'
  BY DEF CallbackInv, Handling, Exists
<1>5. OwnRefs'
  BY DEF OwnRefs, Own, TypeOK
<1>6. BackedInv'
  BY DEF BackedInv, Backed, TypeOK
<1> QED
  BY <1>1, <1>2, <1>3, <1>4, <1>5, <1>6

\* A handler that is cut short.
LEMMA StopInitiateStep ==
  ASSUME IInv, NEW p \in Payments, StopInitiate(p)
  PROVE  IInv'
<1> USE PaymentAssumption DEF IInv, StopInitiate, cbVars, provider
<1>1. TypeOK'
  BY DEF TypeOK, InitiatePoints, CallbackPoints
<1>2. ChargeIsOnRecord'
  BY DEF ChargeIsOnRecord, Exists, TypeOK
<1>3. InitiateInv'
  BY DEF InitiateInv, Exists, TypeOK
<1>4. CallbackInv'
  BY DEF CallbackInv, Handling, Exists
<1>5. OwnRefs'
  BY DEF OwnRefs, Own, TypeOK
<1>6. BackedInv'
  BY DEF BackedInv, Backed, TypeOK
<1> QED
  BY <1>1, <1>2, <1>3, <1>4, <1>5, <1>6

\* A charge is settled once, so a success stays one.
LEMMA SettleStep ==
  ASSUME IInv, NEW r \in charges, NEW outcome \in Outcomes, Settle(r, outcome)
  PROVE  IInv'
<1> USE PaymentAssumption DEF IInv, Settle, cbVars, initVars
<1>a. \A x \in charges : settled[x] = "Success" => settled'[x] = "Success"
  BY ChargeOf DEF TypeOK
<1>b. settled' \in [Refs -> Outcomes \union {"none"}]
  BY ChargeOf DEF TypeOK
<1>1. TypeOK'
  BY <1>b DEF TypeOK, InitiatePoints, CallbackPoints
<1>2. ChargeIsOnRecord'
  BY <1>a DEF ChargeIsOnRecord, Exists, TypeOK
<1>3. InitiateInv'
  BY <1>a DEF InitiateInv, Exists, TypeOK
<1>4. CallbackInv'
  BY <1>a DEF CallbackInv, Handling, Exists
<1>5. OwnRefs'
  BY <1>a DEF OwnRefs, Own, TypeOK
<1>6. BackedInv'
  BY <1>a DEF BackedInv, Backed, TypeOK
<1> QED
  BY <1>1, <1>2, <1>3, <1>4, <1>5, <1>6

\* The gRPC layer finds the payment that owns the reference.
LEMMA ProcessCallbackStep ==
  ASSUME IInv, NEW h \in Callbacks, NEW r \in charges,
         NEW report \in Reports(r), NEW ids \in {{}, {r[1]}}, 
         ProcessCallback(h, r, report, ids)
  PROVE  IInv'
<1> USE PaymentAssumption DEF IInv, provider, initVars
<1>r. r \in Refs /\ r[1] \in Payments
  BY ChargeOf
<1>f. \A p \in Lookup(r, ids) : p \in Payments /\ p = r[1] /\ Exists(p)
  BY <1>r, LookupFinds
<1>s. /\ MapCallbackStatus(report) \in ProviderStatus
      /\ MapCallbackStatus(report) = "Completed" => settled[r] = "Success"
  BY DEF Reports, Outcomes, MapCallbackStatus, ProviderStatus
<1>u. UNCHANGED <<payments, outbox, pc, copy, attempt, charges, settled, ccopy>>
  BY DEF ProcessCallback
<1>c. \/ /\ cpc' = [cpc EXCEPT ![h] = "notfound"]
         /\ UNCHANGED <<cref, cstatus, cpay>>
      \/ \E p \in Lookup(r, ids) :
           /\ cpc' = [cpc EXCEPT ![h] = "read"]
           /\ cref' = [cref EXCEPT ![h] = r]
           /\ cstatus' = [cstatus EXCEPT ![h] = MapCallbackStatus(report)]
           /\ cpay' = [cpay EXCEPT ![h] = p]
  BY DEF ProcessCallback
<1>t. /\ cpc' \in [Callbacks -> CallbackPoints]
      /\ cref' \in [Callbacks -> Refs \union {NoRef}]
      /\ cstatus' \in [Callbacks -> ProviderStatus]
      /\ cpay' \in [Callbacks -> Payments \union {NoPayment}]
  <2>1. CASE cpc' = [cpc EXCEPT ![h] = "notfound"]
             /\ UNCHANGED <<cref, cstatus, cpay>>
    BY <2>1 DEF TypeOK, CallbackPoints
  <2>2. ASSUME NEW p \in Lookup(r, ids),
               /\ cpc' = [cpc EXCEPT ![h] = "read"]
               /\ cref' = [cref EXCEPT ![h] = r]
               /\ cstatus' = [cstatus EXCEPT ![h] = MapCallbackStatus(report)]
               /\ cpay' = [cpay EXCEPT ![h] = p]
        PROVE  <1>t!:
    BY <2>2, <1>r, <1>f, <1>s DEF TypeOK, CallbackPoints
  <2> QED
    BY <2>1, <2>2, <1>c
<1>1. TypeOK'
  BY <1>u, <1>t DEF TypeOK, InitiatePoints, CallbackPoints
<1>2. ChargeIsOnRecord'
  BY <1>u DEF ChargeIsOnRecord, Exists
<1>3. InitiateInv'
  BY <1>u DEF InitiateInv, Exists
<1>i. cpc[h] = "idle"
  BY DEF ProcessCallback
<1>o. \A g \in Callbacks : g # h =>
        /\ cpc'[g] = cpc[g] /\ cref'[g] = cref[g]
        /\ cstatus'[g] = cstatus[g] /\ cpay'[g] = cpay[g]
  BY <1>c DEF TypeOK
<1>w. \/ cpc'[h] = "notfound"
      \/ /\ cpc'[h] = "read"
         /\ cref'[h] = r
         /\ cstatus'[h] = MapCallbackStatus(report)
         /\ cpay'[h] \in Lookup(r, ids)
  BY <1>c DEF TypeOK
<1>4. CallbackInv'
  <2> SUFFICES ASSUME NEW g \in Callbacks, Handling(g)'
               PROVE  /\ cref'[g] \in charges
                      /\ cpay'[g] \in Payments
                      /\ Exists(cpay'[g])
                      /\ cref'[g][1] = cpay'[g]
                      /\ cstatus'[g] = "Completed"
                           => settled[cref'[g]] = "Success"
    BY <1>u DEF CallbackInv, Exists
  <2>1. CASE g = h
    BY <2>1, <1>w, <1>r, <1>f, <1>s DEF Handling
  <2>2. CASE g # h
    BY <2>2, <1>o DEF CallbackInv, Handling
  <2> QED
    BY <2>1, <2>2
<1>5. OwnRefs'
  BY <1>u, <1>o, <1>w DEF OwnRefs, Own
<1>6. BackedInv'
  <2>1. \A g \in Callbacks : cpc'[g] \in {"save", "emit"}
                               => g # h /\ Backed(cpay'[g], ccopy[g])
    BY <1>o, <1>w DEF BackedInv
  <2> QED
    BY <1>u, <2>1 DEF BackedInv, Backed
<1> QED
  BY <1>1, <1>2, <1>3, <1>4, <1>5, <1>6

\* The handler's copy keeps its reference and status together.
LEMMA ReadPaymentStep ==
  ASSUME IInv, NEW h \in Callbacks, ReadPayment(h)
  PROVE  IInv'
<1> USE PaymentAssumption DEF IInv, provider, initVars
<1>h. Handling(h) /\ cpc[h] = "read"
  BY DEF ReadPayment, Handling
<1>r. /\ cref[h] \in charges /\ cref[h] \in Refs
      /\ cpay[h] \in Payments /\ cref[h][1] = cpay[h]
      /\ cstatus[h] = "Completed" => settled[cref[h]] = "Success"
  BY <1>h, ChargeOf DEF CallbackInv
<1>s. cstatus[h] \in ProviderStatus
  BY DEF TypeOK
<1>p. PICK p \in Lookup(cref[h], {cpay[h]}) :
        /\ cpay' = [cpay EXCEPT ![h] = p]
        /\ ccopy' = [ccopy EXCEPT ![h] =
                       ApplyProviderStatus(payments[p], cstatus[h], cref[h])]
  BY DEF ReadPayment
<1>u. /\ cpc' = [cpc EXCEPT ![h] = "save"]
      /\ UNCHANGED <<payments, outbox, pc, copy, attempt, charges, settled,
                     cref, cstatus>>
  BY DEF ReadPayment
<1>f. p = cpay[h] /\ p \in Payments /\ payments[p] \in Row /\ Exists(p)
  BY <1>r, LookupFinds
<1> DEFINE new == ApplyProviderStatus(payments[p], cstatus[h], cref[h])
<1>n. new \in Row
  BY <1>f, <1>r, <1>s, ApplyType
<1>o. Own(p, new.ref)
  BY <1>f, <1>r, <1>s, ApplyRef DEF OwnRefs, Own
<1>b. Backed(p, new)
  <2> SUFFICES ASSUME new.status = "Completed" PROVE Backed(p, new)
    BY DEF Backed
  <2>1. CASE cstatus[h] = "Completed" /\ new.ref = cref[h]
    BY <2>1, <1>r, <1>f DEF Backed
  <2>2. CASE new = payments[p]
    BY <2>2, <1>f DEF BackedInv
  <2> QED
    BY <2>1, <2>2, <1>f, <1>r, <1>s, ApplyCompleted
<1>q. /\ cpay' = cpay
      /\ ccopy' = [ccopy EXCEPT ![h] = new]
  BY <1>p, <1>f DEF TypeOK
<1> HIDE DEF new
<1>1. TypeOK'
  BY <1>q, <1>n, <1>u DEF TypeOK, InitiatePoints, CallbackPoints
<1>2. ChargeIsOnRecord'
  BY <1>u DEF ChargeIsOnRecord, Exists
<1>3. InitiateInv'
  BY <1>u DEF InitiateInv, Exists
<1>4. CallbackInv'
  BY <1>u, <1>q, <1>h DEF CallbackInv, Handling, Exists, TypeOK
<1>5. OwnRefs'
  BY <1>u, <1>q, <1>o, <1>f DEF OwnRefs, Own, TypeOK
<1>6. BackedInv'
  BY <1>u, <1>q, <1>b, <1>f DEF BackedInv, Backed, TypeOK
<1> QED
  BY <1>1, <1>2, <1>3, <1>4, <1>5, <1>6

\* The callback's save overwrites the row with a backed copy.
LEMMA SaveCallbackStep ==
  ASSUME IInv, NEW h \in Callbacks, SaveCallback(h)
  PROVE  IInv'
<1> USE PaymentAssumption DEF IInv, SaveCallback, provider, initVars
<1>a. ccopy[h] \in Row /\ cpay[h] \in Payments
  BY DEF TypeOK, CallbackInv, Handling
<1>b. /\ payments' \in [Payments -> Row \union {NoRow}]
      /\ payments'[cpay[h]] = ccopy[h]
      /\ \A q \in Payments : q # cpay[h] => payments'[q] = payments[q]
      /\ \A q \in Payments : Exists(q) => Exists(q)'
      /\ Exists(cpay[h])'
  BY <1>a, SaveFacts
<1> USE <1>a, <1>b
<1>e. /\ \A q \in Payments : payments'[q] \in {payments[q], ccopy[h]}
      /\ \A q \in Payments : payments'[q] # payments[q] => q = cpay[h]
      /\ \A g \in Callbacks : cpc'[g] \in {"save", "emit"}
                                => cpc[g] \in {"save", "emit"}
      /\ UNCHANGED <<charges, settled, copy, cref, cstatus, cpay, ccopy>>
  BY DEF TypeOK
<1>1. TypeOK'
  BY DEF TypeOK, InitiatePoints, CallbackPoints
<1>2. ChargeIsOnRecord'
  BY ChargeOf DEF ChargeIsOnRecord
<1>3. InitiateInv'
  BY DEF InitiateInv
<1>g. \A g \in Callbacks : Handling(g)' => Handling(g)
  BY DEF TypeOK, Handling
<1>4. CallbackInv'
  <2> HIDE <1>a
  <2> QED
    BY <1>e, <1>g DEF CallbackInv
<1>5. OwnRefs'
  <2>1. Own(cpay[h], ccopy[h].ref)
    BY DEF OwnRefs
  <2>2. \A q \in Payments : Own(q, payments'[q].ref) /\ Own(q, copy[q].ref)
    BY <2>1, <1>e DEF OwnRefs
  <2>3. \A g \in Callbacks : cpc'[g] \in {"save", "emit"}
                               => Own(cpay[g], ccopy[g].ref)
    BY <1>e DEF OwnRefs
  <2> HIDE DEF SaveCallback
  <2> QED
    BY <2>2, <2>3, <1>e DEF OwnRefs, Own
<1>6. BackedInv'
  <2>1. Backed(cpay[h], ccopy[h])
    BY DEF BackedInv
  <2>2. \A q \in Payments : Backed(q, payments'[q])
    <3> TAKE q \in Payments
    <3>1. CASE payments'[q] = payments[q]
      BY <3>1 DEF BackedInv
    <3>2. CASE payments'[q] # payments[q]
      BY <3>2, <2>1, <1>e
    <3> QED
      BY <3>1, <3>2
  <2>3. \A g \in Callbacks : cpc'[g] \in {"save", "emit"}
                               => Backed(cpay[g], ccopy[g])
    BY <1>e DEF BackedInv
  <2> HIDE DEF SaveCallback
  <2> QED
    BY <2>2, <2>3, <1>e DEF BackedInv, Backed
<1> QED
  BY <1>1, <1>2, <1>3, <1>4, <1>5, <1>6

\* The callback's event.
LEMMA EmitCallbackStep ==
  ASSUME IInv, NEW h \in Callbacks, EmitCallback(h)
  PROVE  IInv'
<1> USE PaymentAssumption DEF IInv, EmitCallback, provider, initVars
<1>a. ccopy[h].status \in Status /\ cpay[h] \in Payments
  BY RowExists DEF TypeOK, CallbackInv, Handling
<1>c. CallbackEvent(cstatus[h]) \in EventTypes
  BY DEF CallbackEvent, EventTypes
<1>b. outbox' \in Seq(Event)
  BY <1>a, <1>c, AppendFacts
<1>e. /\ UNCHANGED <<payments, pc, copy, attempt, charges, settled,
                     cref, cstatus, cpay, ccopy>>
      /\ \A g \in Callbacks : Handling(g)' => Handling(g)
      /\ \A g \in Callbacks : cpc'[g] \in {"save", "emit"}
                                => cpc[g] \in {"save", "emit"}
  BY DEF TypeOK, Handling
<1>1. TypeOK'
  BY <1>b DEF TypeOK, InitiatePoints, CallbackPoints
<1> HIDE DEF EmitCallback
<1>2. ChargeIsOnRecord'
  BY <1>e DEF ChargeIsOnRecord, Exists
<1>3. InitiateInv'
  BY <1>e DEF InitiateInv, Exists
<1>4. CallbackInv'
  BY <1>e DEF CallbackInv, Exists
<1>5. OwnRefs'
  BY <1>e DEF OwnRefs, Own
<1>6. BackedInv'
  BY <1>e DEF BackedInv, Backed
<1> QED
  BY <1>1, <1>2, <1>3, <1>4, <1>5, <1>6

\* A callback handler that is cut short.
LEMMA StopCallbackStep ==
  ASSUME IInv, NEW h \in Callbacks, StopCallback(h)
  PROVE  IInv'
<1> USE PaymentAssumption DEF IInv, StopCallback, provider, initVars
<1>e. /\ UNCHANGED <<payments, pc, copy, attempt, charges, settled,
                     cref, cstatus, cpay, ccopy>>
      /\ \A g \in Callbacks : Handling(g)' => Handling(g)
      /\ \A g \in Callbacks : cpc'[g] \in {"save", "emit"}
                                => cpc[g] \in {"save", "emit"}
  BY DEF TypeOK, Handling
<1>1. TypeOK'
  BY DEF TypeOK, InitiatePoints, CallbackPoints
<1> HIDE DEF StopCallback
<1>2. ChargeIsOnRecord'
  BY <1>e DEF ChargeIsOnRecord, Exists
<1>3. InitiateInv'
  BY <1>e DEF InitiateInv, Exists
<1>4. CallbackInv'
  BY <1>e DEF CallbackInv, Exists
<1>5. OwnRefs'
  BY <1>e DEF OwnRefs, Own
<1>6. BackedInv'
  BY <1>e DEF BackedInv, Backed
<1> QED
  BY <1>1, <1>2, <1>3, <1>4, <1>5, <1>6

----------------------------------------------------------------------------
(* The theorems. *)

\* The invariant is inductive.
LEMMA NextIInv == IInv /\ [Next]_vars => IInv'
<1> SUFFICES ASSUME IInv, [Next]_vars PROVE IInv'
  OBVIOUS
<1>1. ASSUME NEW p \in Payments, InitiateStep(p) PROVE IInv'
  BY <1>1, CheckStep, SavePendingStep, AcceptStep, ReplyStep, ErrorStep,
     SaveProcessingStep, EmitInitiatedStep, SaveFailedStep, EmitFailedStep
     DEF InitiateStep
<1>2. ASSUME NEW h \in Callbacks, Deliver(h) PROVE IInv'
  BY <1>2, ProcessCallbackStep DEF Deliver
<1>3. ASSUME NEW h \in Callbacks, CallbackStep(h) PROVE IInv'
  BY <1>3, ReadPaymentStep, SaveCallbackStep, EmitCallbackStep
     DEF CallbackStep
<1>4. ASSUME Stop PROVE IInv'
  BY <1>4, StopInitiateStep, StopCallbackStep DEF Stop
<1>5. CASE UNCHANGED vars
  <2>1. UNCHANGED <<payments, outbox, pc, copy, attempt, charges, settled,
                    cpc, cref, cstatus, cpay, ccopy>>
    BY <1>5 DEF vars, initVars, cbVars, provider
  <2> QED
    <3>1. TypeOK' /\ ChargeIsOnRecord'
      BY <2>1 DEF IInv, TypeOK, ChargeIsOnRecord, Exists
    <3>2. InitiateInv' /\ CallbackInv'
      BY <2>1 DEF IInv, InitiateInv, CallbackInv, Handling, Exists
    <3>3. OwnRefs' /\ BackedInv'
      BY <2>1 DEF IInv, OwnRefs, BackedInv, Own, Backed
    <3> QED
      BY <3>1, <3>2, <3>3 DEF IInv
<1> QED
  BY <1>1, <1>2, <1>3, <1>4, <1>5, SettleStep DEF Next, Steps

\* Every behaviour of the engine satisfies the inductive invariant.
THEOREM Invariance == Spec => []IInv
BY InitIInv, NextIInv, PaymentAssumption, PTL DEF Spec

\* The engine's state is well typed.
THEOREM TypeCorrect == Spec => []TypeOK
<1>1. IInv => TypeOK
  BY DEF IInv
<1> QED
  BY <1>1, Invariance, PTL

\* No charge without a payment on record, for any number of concurrent
\* handlers and any crash.
THEOREM ChargesOnRecord == Spec => []ChargeIsOnRecord
<1>1. IInv => ChargeIsOnRecord
  BY DEF IInv
<1> QED
  BY <1>1, Invariance, PTL

\* A Completed row is backed by a successfully settled charge of its payment.
THEOREM CompletedSettled == Spec => []CompletedIsSettled
<1>1. IInv => CompletedIsSettled
  BY DEF IInv, BackedInv, Backed, CompletedIsSettled
<1> QED
  BY <1>1, Invariance, PTL

============================================================================
