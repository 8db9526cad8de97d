---------------------------- MODULE OutboxRelay -----------------------------
(***************************************************************************)
(* The outbox pollers of the orchestrator replicas: each takes a snapshot  *)
(* of the unprocessed rows of events.cdc_outbox, without a lock, and for   *)
(* each row appends an event to the event store and marks the row, in      *)
(* separate transactions.  The rows come from the payment engine.          *)
(***************************************************************************)
EXTENDS EventStore, SequencesExt

CONSTANTS
  Rows,         \* outbox rows
  StreamOf,     \* aggregate_id of each row
  Pollers,      \* orchestrator replicas
  BatchSize,    \* LIMIT of the poll
  MaxRetries,   \* retry_count at which a row is given up
  MaxLosses     \* bound: updates of the outbox that fail, and restarts

ASSUME RelayAssumption ==
  /\ StreamOf \in [Rows -> Streams]
  /\ BatchSize \in Nat \ {0}
  /\ MaxRetries \in Nat \ {0}
  /\ MaxLosses \in Nat

VARIABLES
  outbox,      \* the rows inserted so far, in the order of created_at
  processed,   \* the rows with processed_at set
  retries,     \* retry_count
  batch,       \* the rows each poller has still to handle
  marking,     \* the pollers that have appended the event of their first row
  losses

relayVars == <<outbox, processed, retries, batch, marking, losses>>
vars == <<storeVars, relayVars>>

Init ==
  /\ StoreInit
  /\ outbox = <<>>
  /\ processed = {}
  /\ retries = [r \in Rows |-> 0]
  /\ batch = [p \in Pollers |-> <<>>]
  /\ marking = {}
  /\ losses = 0

\* The payment engine inserts a row.
InsertRow(r) ==
  /\ r \notin ToSet(outbox)
  /\ outbox' = Append(outbox, r)
  /\ UNCHANGED <<storeVars, processed, retries, batch, marking, losses>>

\* Mutant: the oldest row is skipped (OFFSET 1).
PendingSkipsOldest ==
  LET due == SelectSeq(outbox, LAMBDA r : r \notin processed /\ retries[r] < MaxRetries)
  IN  SubSeq(due, 2, Len(due))

\* The query of PollOutbox.
Pending ==
  LET due == SelectSeq(outbox, LAMBDA r : r \notin processed /\ retries[r] < MaxRetries)
  IN  SubSeq(due, 1, IF Len(due) < BatchSize THEN Len(due) ELSE BatchSize)

Poll(p) ==
  /\ batch[p] = <<>>
  /\ Pending # <<>>
  /\ batch' = [batch EXCEPT ![p] = Pending]
  /\ UNCHANGED <<storeVars, outbox, processed, retries, marking, losses>>

Row(p) == Head(batch[p])

NextRow(p) == batch' = [batch EXCEPT ![p] = Tail(@)]

\* The event of a row: its version is always 1, it has no idempotency key and
\* its aggregate type is the "payment" of the outbox writer.
RowEvent(r) ==
  [stream |-> StreamOf[r], version |-> 1, key |-> NoKey, type |-> "payment",
   source |-> r]

AppendRow(p) ==
  /\ batch[p] # <<>> /\ p \notin marking
  /\ AppendTx(RowEvent(Row(p)))
  /\ marking' = marking \union {p}
  /\ UNCHANGED <<keys, outbox, processed, retries, batch, losses>>

\* Mutant: a row whose append failed is marked all the same.
AppendFailsMarked(p) ==
  /\ batch[p] # <<>> /\ p \notin marking
  /\ processed' = processed \union {Row(p)}
  /\ NextRow(p)
  /\ UNCHANGED <<storeVars, outbox, retries, marking, losses>>

\* The append fails and the retry is counted.
AppendFails(p) ==
  /\ batch[p] # <<>> /\ p \notin marking
  /\ retries' = [retries EXCEPT ![Row(p)] = @ + 1]
  /\ NextRow(p)
  /\ UNCHANGED <<storeVars, outbox, processed, marking, losses>>


MarkRow(p) ==
  /\ p \in marking
  /\ processed' = processed \union {Row(p)}
  /\ marking' = marking \ {p}
  /\ NextRow(p)
  /\ UNCHANGED <<storeVars, outbox, retries, losses>>

\* Either UPDATE of the outbox may fail; the error is ignored.
UpdateLost(p) ==
  /\ batch[p] # <<>>
  /\ losses < MaxLosses /\ losses' = losses + 1
  /\ marking' = marking \ {p}
  /\ NextRow(p)
  /\ UNCHANGED <<storeVars, outbox, processed, retries>>

\* The replica stops, or the 30 seconds of the poll are over.
Restart(p) ==
  /\ batch[p] # <<>>
  /\ losses < MaxLosses /\ losses' = losses + 1
  /\ marking' = marking \ {p}
  /\ batch' = [batch EXCEPT ![p] = <<>>]
  /\ UNCHANGED <<storeVars, outbox, processed, retries>>

PollOutbox(p) ==
  \/ Poll(p)
  \/ AppendRow(p)
  \/ AppendFails(p)
  \/ MarkRow(p)

Next ==
  \/ \E r \in Rows : InsertRow(r)
  \/ \E p \in Pollers : PollOutbox(p) \/ UpdateLost(p) \/ Restart(p)

Spec == Init /\ [][Next]_vars

\* The ticker of every replica goes on and statements return.
FairSpec == Spec /\ \A p \in Pollers : WF_vars(PollOutbox(p))

----------------------------------------------------------------------------
(* Properties *)

Copies(r) == Cardinality({n \in DOMAIN store : store[n].source = r})

\* Type invariant of the outbox and of the pollers.
TypeOK ==
  /\ IsInjective(outbox) /\ ToSet(outbox) \subseteq Rows
  /\ processed \subseteq ToSet(outbox)
  /\ retries \in [Rows -> Nat]
  /\ \A p \in Pollers :
       ToSet(batch[p]) \subseteq Rows /\ Len(batch[p]) <= BatchSize
  /\ marking \subseteq {p \in Pollers : batch[p] # <<>>}
  /\ losses \in 0 .. MaxLosses

\* A row is marked processed only when its event is in the event store.
ProcessedIsStored == \A r \in processed : Copies(r) >= 1


\* retry_count passes its limit only by the pollers that had the row in their
\* snapshot when it reached it.
RetriesAreBounded ==
  \A r \in Rows : retries[r] <= MaxRetries + Cardinality(Pollers) - 1

\* A row that was inserted is processed or given up: none is overlooked or
\* starved by the rows before it.
RowsAreRelayed ==
  \A r \in Rows : r \in ToSet(outbox) ~> r \in processed \/ retries[r] >= MaxRetries

\* The sequence numbers of the events of a stream increase.
SequenceIsMonotonic ==
  \A m, n \in DOMAIN store :
    m < n /\ store[m].stream = store[n].stream =>
      store[m].version < store[n].version

\* A relayed payment event also goes to core.transaction_log.
PaymentIsLogged ==
  \A n \in DOMAIN store : <<store[n].stream, store[n].version>> \in txlog

=============================================================================
