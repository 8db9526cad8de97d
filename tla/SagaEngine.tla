----------------------------- MODULE SagaEngine -----------------------------
(***************************************************************************)
(* The saga engine of the orchestrator for one saga_id: the goroutines     *)
(* that execute it and the CancelSaga calls that may arrive at any time.   *)
(* The id is chosen by the client, so a repeated ExecuteSaga call starts a *)
(* second run under the same id.  The memory repository stores the pointer *)
(* it is given: a run and the CancelSaga calls assign to the fields of one *)
(* shared struct without a lock.                                           *)
(***************************************************************************)
EXTENDS Integers, FiniteSets

CONSTANTS
  Runs,           \* the ExecuteSaga calls with this saga_id
  N,              \* number of steps
  PaymentSteps,   \* steps with Service "payment" and Action "InitiatePayment";
                  \* the others call a service that only reads
  Compensated,    \* steps with a CompensationAction
  Cancels,        \* the CancelSaga calls
  NoRun

Steps == 1 .. N

ASSUME SagaAssumption ==
  /\ N \in Nat \ {0}
  /\ PaymentSteps \subseteq Steps
  /\ Compensated \subseteq Steps
  /\ NoRun \notin Runs

VARIABLES
  repo,         \* the run whose struct the repository holds under the id
  running,      \* the run whose cancel function is in e.running
  status,       \* saga.Status
  step,         \* saga.Steps[k].Status
  output,       \* the steps whose Output holds a payment_id
  done,         \* sagaCtx is cancelled
  pc, i,        \* where the run is, and its loop index
  cpc,          \* where each CancelSaga call is
  charged,      \* steps whose payment the payment engine initiated (external)
  asked,        \* steps for which RefundPayment reached the engine (external)
  refunded      \* steps whose payment it refunded (external)

engine == <<charged, asked, refunded>>
vars == <<repo, running, status, step, output, done, pc, i, cpc, engine>>

Init ==
  /\ repo = NoRun /\ running = NoRun
  /\ status = [r \in Runs |-> "pending"]
  /\ step = [r \in Runs |-> [k \in Steps |-> "pending"]]
  /\ output = [r \in Runs |-> {}]
  /\ done = [r \in Runs |-> FALSE]
  /\ pc = [r \in Runs |-> "start"] /\ i = [r \in Runs |-> 0]
  /\ cpc = [x \in Cancels |-> "idle"]
  /\ charged = [r \in Runs |-> {}]
  /\ asked = [r \in Runs |-> {}]
  /\ refunded = [r \in Runs |-> {}]

Goto(r, label) == pc' = [pc EXCEPT ![r] = label]
SetStatus(r, s) == status' = [status EXCEPT ![r] = s]
SetStep(r, s) == step' = [step EXCEPT ![r][i[r]] = s]

----------------------------------------------------------------------------
(* StartSaga: the saga is stored before its cancel function is.            *)

SaveSaga(r) ==
  /\ pc[r] = "start"
  /\ SetStatus(r, "running")
  /\ repo' = r
  /\ Goto(r, "register")
  /\ UNCHANGED <<running, step, output, done, i, cpc, engine>>


Register(r) ==
  /\ pc[r] = "register"
  /\ running' = r
  /\ Goto(r, "loop")
  /\ i' = [i EXCEPT ![r] = 1]
  /\ UNCHANGED <<repo, status, step, output, done, cpc, engine>>

----------------------------------------------------------------------------
(* executeSaga *)

\* The head of the loop: the run stops when its context is cancelled.
Stopped(r) ==
  /\ pc[r] = "loop" /\ i[r] \in Steps /\ done[r]
  /\ SetStatus(r, "cancelled")
  /\ Goto(r, "end")
  /\ UNCHANGED <<repo, running, step, output, done, i, cpc, engine>>

BeginStep(r) ==
  /\ pc[r] = "loop" /\ i[r] \in Steps /\ ~done[r]
  /\ SetStep(r, "running")
  /\ Goto(r, "execute")
  /\ UNCHANGED <<repo, running, status, output, done, i, cpc, engine>>

\* handler.Execute succeeds: InitiatePayment has an effect and returns the
\* payment_id.
StepSucceeds(r) ==
  /\ pc[r] = "execute"
  /\ SetStep(r, "completed")
  /\ output' = [output EXCEPT ![r] = @ \union (PaymentSteps \intersect {i[r]})]
  /\ charged' = [charged EXCEPT ![r] = @ \union (PaymentSteps \intersect {i[r]})]
  /\ Goto(r, "loop")
  /\ i' = [i EXCEPT ![r] = @ + 1]
  /\ UNCHANGED <<repo, running, status, done, cpc, asked, refunded>>

\* Mutant: the compensation begins before the failed step's predecessor.
StepFailsSkipsOne(r) ==
  /\ pc[r] = "execute"
  /\ SetStep(r, "failed")
  /\ SetStatus(r, "compensating")
  /\ Goto(r, "compensate")
  /\ i' = [i EXCEPT ![r] = IF @ > 1 THEN @ - 2 ELSE 0]
  /\ UNCHANGED <<repo, running, output, done, cpc, engine>>

\* handler.Execute fails: refused, timed out, or cancelled while the call was
\* under way; the payment engine may have initiated the payment all the same.
\* compensate() begins with the failed step itself.
StepFails(r) ==
  /\ pc[r] = "execute"
  /\ SetStep(r, "failed")
  /\ \E effect \in SUBSET (PaymentSteps \intersect {i[r]}) :
       charged' = [charged EXCEPT ![r] = @ \union effect]
  /\ SetStatus(r, "compensating")
  /\ Goto(r, "compensate")
  /\ UNCHANGED <<repo, running, output, done, i, cpc, asked, refunded>>

\* Mutant: the saga is completed one step early.
FinishEarly(r) ==
  /\ pc[r] = "loop" /\ i[r] >= N
  /\ SetStatus(r, "completed")
  /\ Goto(r, "end")
  /\ UNCHANGED <<repo, running, step, output, done, i, cpc, engine>>

Finish(r) ==
  /\ pc[r] = "loop" /\ i[r] = N + 1
  /\ SetStatus(r, "completed")
  /\ Goto(r, "end")
  /\ UNCHANGED <<repo, running, step, output, done, i, cpc, engine>>

\* One round of compensate(): when the step has a CompensationAction and its
\* Output a payment_id, RefundPayment is called with the run's own context,
\* and so reaches the engine only if that is not cancelled.  The engine answers
\* "unimplemented", the error is logged and the loop goes on.  `step` is a copy
\* there: its "compensated" is never stored.
Compensate(r) ==
  /\ pc[r] = "compensate" /\ i[r] \in Steps
  /\ asked' = [asked EXCEPT ![r] = @ \union
                {k \in Compensated \intersect output[r] : k = i[r] /\ ~done[r]}]
  /\ i' = [i EXCEPT ![r] = @ - 1]
  /\ UNCHANGED <<repo, running, status, step, output, done, pc, cpc, charged,
                 refunded>>

FinishCompensation(r) ==
  /\ pc[r] = "compensate" /\ i[r] = 0
  /\ SetStatus(r, "failed")
  /\ Goto(r, "end")
  /\ UNCHANGED <<repo, running, step, output, done, i, cpc, engine>>

\* The deferred delete(e.running, saga.ID), whichever run is there.
Unregister(r) ==
  /\ pc[r] = "end"
  /\ running' = NoRun
  /\ Goto(r, "ended")
  /\ UNCHANGED <<repo, status, step, output, done, i, cpc, engine>>

----------------------------------------------------------------------------
(* CancelSaga: cancel the registered run, then set the status of the       *)
(* stored saga, whatever it is by then.                                    *)

CancelContext(x) ==
  /\ cpc[x] = "idle"
  /\ done' = [r \in Runs |-> done[r] \/ r = running]
  /\ cpc' = [cpc EXCEPT ![x] = "mark"]
  /\ UNCHANGED <<repo, running, status, step, output, pc, i, engine>>

CancelMark(x) ==
  /\ cpc[x] = "mark"
  /\ \/ /\ repo # NoRun
        /\ SetStatus(repo, "cancelled")
        /\ cpc' = [cpc EXCEPT ![x] = "ok"]
     \/ /\ repo = NoRun
        /\ cpc' = [cpc EXCEPT ![x] = "not found"]
        /\ UNCHANGED status
  /\ UNCHANGED <<repo, running, step, output, done, pc, i, engine>>

Run(r) ==
  \/ SaveSaga(r)
  \/ Register(r)
  \/ Stopped(r)
  \/ BeginStep(r)
  \/ StepSucceeds(r)
  \/ StepFails(r)
  \/ Finish(r)
  \/ Compensate(r)
  \/ FinishCompensation(r)
  \/ Unregister(r)

CancelSaga(x) == CancelContext(x) \/ CancelMark(x)

Next ==
  \/ \E r \in Runs : Run(r)
  \/ \E x \in Cancels : CancelSaga(x)

Spec == Init /\ [][Next]_vars

\* Goroutines are scheduled and the calls they make return.
FairSpec == Spec /\ \A r \in Runs : WF_vars(Run(r))

----------------------------------------------------------------------------
(* Properties *)

\* Type invariant of the engine's state for one saga_id.
TypeOK ==
  /\ repo \in Runs \union {NoRun} /\ running \in Runs \union {NoRun}
  /\ status \in [Runs -> {"pending", "running", "compensating", "completed",
                          "failed", "cancelled"}]
  /\ step \in [Runs -> [Steps -> {"pending", "running", "completed", "failed"}]]
  /\ output \in [Runs -> SUBSET Steps]
  /\ done \in [Runs -> BOOLEAN]
  /\ pc \in [Runs -> {"start", "register", "loop", "execute", "compensate",
                      "end", "ended"}]
  /\ i \in [Runs -> 0 .. N + 1]
  /\ cpc \in [Cancels -> {"idle", "mark", "ok", "not found"}]
  /\ charged \in [Runs -> SUBSET Steps]
  /\ asked \in [Runs -> SUBSET Steps]
  /\ refunded \in [Runs -> SUBSET Steps]

\* executeSaga runs its steps one at a time and in order: before a step that
\* has begun every step is completed, so nothing follows a failed step.
StepsInOrder ==
  \A r \in Runs : \A k \in Steps : step[r][k] # "pending" =>
    \A j \in Steps : j < k => step[r][j] = "completed"

\* A stored final status is true of the steps, although the run and CancelSaga
\* both write it: "completed" means that every step completed, "failed" that
\* one of them failed.
FinalStatusIsTrue ==
  \A r \in Runs :
    /\ status[r] = "completed" => \A k \in Steps : step[r][k] = "completed"
    /\ status[r] = "failed" => \E k \in Steps : step[r][k] = "failed"

\* compensate() asks for a refund only of a payment that was initiated, whose
\* step completed, and only because a later step of the run failed.
RefundOnlyCompletedPayments ==
  \A r \in Runs : \A k \in asked[r] :
    /\ k \in charged[r] /\ step[r][k] = "completed"
    /\ \E j \in Steps : j > k /\ step[r][j] = "failed"

RefundsAsked(r) ==
  \A k \in Compensated \intersect PaymentSteps :
    step[r][k] = "completed" => k \in asked[r]

\* A run that failed with its context intact has asked for the refund of every
\* payment step that completed: an error of one compensation skips no other.
UncancelledAsksEveryRefund ==
  \A r \in Runs : pc[r] = "ended" /\ status[r] = "failed" /\ ~done[r] =>
    RefundsAsked(r)


\* No step of a run begins once its context is cancelled.
NoStepAfterCancel ==
  [][\A r \in Runs : done[r] => \A k \in Steps :
       step'[r][k] = "running" => step[r][k] = "running"]_vars

\* A run that is started comes to its end.
RunEnds == \A r \in Runs : pc[r] = "register" ~> pc[r] = "ended"

\* A run that failed has asked for the refund of every completed payment step
\* that has a compensation action.
FailedAsksEveryRefund ==
  \A r \in Runs : pc[r] = "ended" /\ status[r] = "failed" => RefundsAsked(r)

\* After a failed saga has been compensated its payments are refunded.
FailedIsRefunded ==
  \A r \in Runs : pc[r] = "ended" /\ status[r] = "failed" =>
    Compensated \intersect output[r] \subseteq refunded[r]

=============================================================================
