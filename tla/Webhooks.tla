------------------------------ MODULE Webhooks ------------------------------
(***************************************************************************)
(* Webhook subscriptions and deliveries: the WebhookService RPCs and the   *)
(* dispatchers of the orchestrator replicas.  A dispatcher lists the due   *)
(* deliveries, and for each reads the subscription, posts the payload and  *)
(* writes the copy it read back with one attempt more.  Nothing is locked  *)
(* between those steps.                                                    *)
(***************************************************************************)
EXTENDS Integers, FiniteSets, SequencesExt

CONSTANTS
  Subs,          \* subscriptions
  Deliveries,    \* delivery ids
  SubOf,         \* the subscription of each delivery
  Dispatchers,   \* orchestrator replicas
  Updates,       \* UpdateWebhook calls
  BatchSize,     \* LIMIT of the listing
  MaxAttempts,   \* attempts after which a delivery has failed
  MaxReplays,    \* bound: ReplayEvent calls
  MaxLosses,     \* bound: failed writes and restarts
  NoSub

ASSUME WebhookAssumption ==
  /\ SubOf \in [Deliveries -> Subs]
  /\ BatchSize \in Nat \ {0} /\ MaxAttempts \in Nat \ {0}
  /\ MaxReplays \in Nat /\ MaxLosses \in Nat
  /\ NoSub \notin Subs

VARIABLES
  active,     \* is_active of the subscriptions that exist
  created,    \* the delivery rows, in the order of created_at
  status, attempts, due,   \* of each row; due: next_retry_at has passed
  batch,      \* the copies a dispatcher has still to handle
  pc,         \* what a dispatcher does with the first of them
  update,     \* the subscription an UpdateWebhook call has read, or NoSub
  tries,      \* POSTs attempted for each delivery
  acked,      \* deliveries the endpoint answered with 2xx (external)
  replays, losses

rows == <<created, status, attempts, due>>
disp == <<batch, pc>>
endpoint == <<tries, acked>>
bounds == <<replays, losses>>
vars == <<active, rows, disp, update, endpoint, bounds>>

IsActive(s) == s \in DOMAIN active /\ active[s]
Exists(d) == d \in ToSet(created)

Init ==
  /\ active = <<>>
  /\ created = <<>>
  /\ status = [d \in Deliveries |-> "none"]
  /\ attempts = [d \in Deliveries |-> 0]
  /\ due = [d \in Deliveries |-> FALSE]
  /\ batch = [x \in Dispatchers |-> <<>>]
  /\ pc = [x \in Dispatchers |-> "idle"]
  /\ update = [u \in Updates |-> NoSub]
  /\ tries = [d \in Deliveries |-> 0] /\ acked = {}
  /\ replays = 0 /\ losses = 0

----------------------------------------------------------------------------
(* RPCs *)

SetActive(s, value) ==
  active' = [t \in DOMAIN active \union {s} |-> IF t = s THEN value ELSE active[t]]

\* A new webhook has a new id and is active.
RegisterWebhook(s) ==
  /\ s \notin DOMAIN active
  /\ SetActive(s, TRUE)
  /\ UNCHANGED <<rows, disp, update, endpoint, bounds>>

\* DeleteSubscription keeps the row and clears is_active.
DeleteWebhook(s) ==
  /\ s \in DOMAIN active
  /\ SetActive(s, FALSE)
  /\ UNCHANGED <<rows, disp, update, endpoint, bounds>>

\* UpdateWebhook reads the subscription and writes the whole row back.  The
\* copy of an inactive subscription changes nothing that is modelled.
UpdateRead(u, s) ==
  /\ update[u] = NoSub
  /\ IsActive(s)
  /\ update' = [update EXCEPT ![u] = s]
  /\ UNCHANGED <<active, rows, disp, endpoint, bounds>>

UpdateSave(u) ==
  /\ update[u] # NoSub
  /\ SetActive(update[u], TRUE)
  /\ update' = [update EXCEPT ![u] = NoSub]
  /\ UNCHANGED <<rows, disp, endpoint, bounds>>

\* SaveDelivery: an upsert of the whole row.  The trigger of the table raises
\* an error for the update of a delivered row.
SaveDelivery(d, s, n, isDue) ==
  IF status[d] = "delivered"
    THEN UNCHANGED rows
    ELSE /\ status' = [status EXCEPT ![d] = s]
         /\ attempts' = [attempts EXCEPT ![d] = n]
         /\ due' = [due EXCEPT ![d] = isDue]
         /\ created' = IF Exists(d) THEN created ELSE Append(created, d)

\* DeliverEvent, TestWebhook: the subscription must exist but not be active.
\* DispatchEvent inserts the same row for active subscriptions.
DeliverEvent(d) ==
  /\ SubOf[d] \in DOMAIN active
  /\ ~Exists(d)
  /\ SaveDelivery(d, "pending", 0, TRUE)
  /\ UNCHANGED <<active, disp, update, endpoint, bounds>>

ReplayEvent(d) ==
  /\ Exists(d)
  /\ replays < MaxReplays /\ replays' = replays + 1
  /\ SaveDelivery(d, "pending", 0, FALSE)
  /\ UNCHANGED <<active, disp, update, endpoint, losses>>

----------------------------------------------------------------------------
(* The dispatcher *)

\* Mutant: the newest deliveries come first.
PendingNewestFirst ==
  LET all == SelectSeq(created, LAMBDA d : status[d] = "pending" /\ due[d])
  IN  SubSeq(Reverse(all), 1, IF Len(all) < BatchSize THEN Len(all) ELSE BatchSize)

\* ListPendingDeliveries
Pending ==
  LET all == SelectSeq(created, LAMBDA d : status[d] = "pending" /\ due[d])
  IN  SubSeq(all, 1, IF Len(all) < BatchSize THEN Len(all) ELSE BatchSize)

ProcessPending(x) ==
  /\ pc[x] = "idle" /\ Pending # <<>>
  /\ batch' = [batch EXCEPT ![x] =
       [n \in DOMAIN Pending |-> [id |-> Pending[n], attempts |-> attempts[Pending[n]]]]]
  /\ pc' = [pc EXCEPT ![x] = "check"]
  /\ UNCHANGED <<active, rows, update, endpoint, bounds>>

Copy(x) == Head(batch[x])

NextDelivery(x) ==
  /\ batch' = [batch EXCEPT ![x] = Tail(@)]
  /\ pc' = [pc EXCEPT ![x] = IF Len(batch[x]) = 1 THEN "idle" ELSE "check"]

\* dispatchDelivery reads the subscription and passes over an inactive one.
CheckSubscription(x) ==
  /\ pc[x] = "check"
  /\ IF IsActive(SubOf[Copy(x).id])
       THEN pc' = [pc EXCEPT ![x] = "post"] /\ UNCHANGED batch
       ELSE NextDelivery(x)
  /\ UNCHANGED <<active, rows, update, endpoint, bounds>>

\* The POST: answered with 2xx, or not (another status, an error, a timeout
\* although the endpoint had accepted it, no valid URL).
PostAcknowledged(x) ==
  /\ pc[x] = "post"
  /\ tries' = [tries EXCEPT ![Copy(x).id] = @ + 1]
  /\ acked' = acked \union {Copy(x).id}
  /\ pc' = [pc EXCEPT ![x] = "delivered"]
  /\ UNCHANGED <<active, rows, batch, update, bounds>>

PostRefused(x) ==
  /\ pc[x] = "post"
  /\ tries' = [tries EXCEPT ![Copy(x).id] = @ + 1]
  /\ pc' = [pc EXCEPT ![x] = "refused"]
  /\ UNCHANGED <<active, rows, batch, update, acked, bounds>>

\* Mutant: the attempt is counted twice.
RecordAttemptTwice(x) ==
  LET n == Copy(x).attempts + 2
  IN  /\ pc[x] \in {"delivered", "refused"}
      /\ SaveDelivery(Copy(x).id,
           IF pc[x] = "delivered" THEN "delivered"
             ELSE IF n >= MaxAttempts THEN "failed" ELSE "pending",
           n, FALSE)
      /\ NextDelivery(x)
      /\ UNCHANGED <<active, update, endpoint, bounds>>

\* recordAttempt on the copy, and the save of it.
RecordAttempt(x) ==
  LET n == Copy(x).attempts + 1
  IN  /\ pc[x] \in {"delivered", "refused"}
      /\ SaveDelivery(Copy(x).id,
           IF pc[x] = "delivered" THEN "delivered"
             ELSE IF n >= MaxAttempts THEN "failed" ELSE "pending",
           n, FALSE)
      /\ NextDelivery(x)
      /\ UNCHANGED <<active, update, endpoint, bounds>>

\* Reading the subscription or saving the attempt fails, which is only logged.
StepLost(x) ==
  /\ pc[x] \in {"check", "delivered", "refused"}
  /\ losses < MaxLosses /\ losses' = losses + 1
  /\ NextDelivery(x)
  /\ UNCHANGED <<active, rows, update, endpoint, replays>>

\* The batch is left where it is: the replica restarts, or the 30 seconds of
\* the batch are over, after which every read, post and save fails.
Abandon(x) ==
  /\ pc[x] # "idle"
  /\ losses < MaxLosses /\ losses' = losses + 1
  /\ batch' = [batch EXCEPT ![x] = <<>>]
  /\ pc' = [pc EXCEPT ![x] = "idle"]
  /\ UNCHANGED <<active, rows, update, endpoint, replays>>

\* next_retry_at of a pending row passes.
Elapse(d) ==
  /\ status[d] = "pending" /\ ~due[d]
  /\ due' = [due EXCEPT ![d] = TRUE]
  /\ UNCHANGED <<active, created, status, attempts, disp, update, endpoint, bounds>>

Dispatch(x) ==
  \/ ProcessPending(x)
  \/ CheckSubscription(x)
  \/ PostAcknowledged(x)
  \/ PostRefused(x)
  \/ RecordAttempt(x)

Rpc ==
  \/ \E s \in Subs : RegisterWebhook(s) \/ DeleteWebhook(s)
  \/ \E u \in Updates : UpdateSave(u) \/ \E s \in Subs : UpdateRead(u, s)
  \/ \E d \in Deliveries : DeliverEvent(d) \/ ReplayEvent(d)

Next ==
  \/ Rpc
  \/ \E x \in Dispatchers : Dispatch(x) \/ StepLost(x) \/ Abandon(x)
  \/ \E d \in Deliveries : Elapse(d)

Spec == Init /\ [][Next]_vars

\* Time passes, tickers go on, and posts end by their timeout.
FairSpec ==
  /\ Spec
  /\ \A x \in Dispatchers : WF_vars(Dispatch(x))
  /\ \A d \in Deliveries : WF_vars(Elapse(d))

----------------------------------------------------------------------------
(* Properties *)

\* Type invariant of the webhook tables and of the dispatchers.
TypeOK ==
  /\ DOMAIN active \subseteq Subs /\ \A s \in DOMAIN active : active[s] \in BOOLEAN
  /\ IsInjective(created)
  /\ status \in [Deliveries -> {"none", "pending", "delivered", "failed"}]
  /\ attempts \in [Deliveries -> 0 .. MaxAttempts]
  /\ due \in [Deliveries -> BOOLEAN]
  /\ \A x \in Dispatchers :
       /\ pc[x] \in {"idle", "check", "post", "delivered", "refused"}
       /\ batch[x] = <<>> <=> pc[x] = "idle"
       /\ Len(batch[x]) <= BatchSize

\* A delivery is marked delivered only if the endpoint acknowledged it.
DeliveredIsAcknowledged == \A d \in Deliveries : status[d] = "delivered" => d \in acked

\* A row never claims more attempts than were made, whatever copies were
\* written over each other; so a delivery fails only after all its attempts.
AttemptsAreReal ==
  \A d \in Deliveries :
    /\ attempts[d] <= tries[d]
    /\ status[d] = "failed" => tries[d] >= MaxAttempts

\* A delivered row keeps its status and its attempt count, although a replay
\* or the other replica may still hold a copy read before.
DeliveredIsFinal ==
  [][\A d \in Deliveries : status[d] = "delivered" =>
       status'[d] = "delivered" /\ attempts'[d] = attempts[d]]_vars

\* Only a stale UpdateWebhook makes a deleted webhook active again.
DeletedStaysDeleted ==
  [][\A s \in DOMAIN active : ~active[s] /\ active'[s] =>
       \E u \in Updates : update[u] = s]_vars

Position(d) == SelectInSeq(created, LAMBDA e : e = d)
Older(d) == {e \in ToSet(created) : Position(e) < Position(d)}

\* A delivery of an active webhook comes to an end, unless as many deliveries
\* of deleted webhooks as fit in a batch are before it in the queue.
DeliveryEnds ==
  \A d \in Deliveries : status[d] = "pending" ~>
    \/ status[d] \in {"delivered", "failed"}
    \/ ~IsActive(SubOf[d])
    \/ Cardinality({e \in Older(d) : status[e] = "pending" /\ ~IsActive(SubOf[e])}) >= BatchSize

=============================================================================
