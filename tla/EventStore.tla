----------------------------- MODULE EventStore -----------------------------
(***************************************************************************)
(* The tables behind the orchestrator's event repository and the statement *)
(* groups that event_store.go runs on them.  A record of events.event_store*)
(* is identified by its position in `store`, which stands for its hash: a  *)
(* hash covers the payload and the time of the event, so hashes are        *)
(* distinct.  A serializable transaction is one atomic step, or none.      *)
(***************************************************************************)
EXTENDS Integers, Sequences, FiniteSets, FiniteSetsExt

CONSTANTS Streams, Keys, NoKey

ASSUME KeyAssumption == NoKey \notin Keys

VARIABLES
  store,    \* events.event_store, in commit order
  keys,     \* core.idempotency_keys
  txlog     \* core.transaction_log: the idempotency keys of its rows

storeVars == <<store, keys, txlog>>

StoreInit == store = <<>> /\ keys = {} /\ txlog = {}

Of(s) == {n \in DOMAIN store : store[n].stream = s}

\* SELECT MAX(version), 0 when the stream is empty.
GetLatestVersion(s) == Max({0} \union {store[n].version : n \in Of(s)})

\* Mutant: the oldest record is taken for the head.
HeadsOldest(s) == IF Of(s) = {} THEN {0} ELSE {Min(Of(s))}

\* The records ORDER BY sequence_number DESC LIMIT 1 may return: any with the
\* highest number, and none (0) in an empty stream.
Heads(s) ==
  IF Of(s) = {} THEN {0}
    ELSE {n \in Of(s) : store[n].version = GetLatestVersion(s)}

IsFinancialEvent(aggregateType) == aggregateType \in {"PAYMENT", "Transaction"}

\* The key of the row in core.transaction_log: made up from the aggregate and
\* the version when the event has none.
TxKey(ev) == IF ev.key = NoKey THEN <<ev.stream, ev.version>> ELSE <<ev.key>>

\* AppendTx: link the event to the head of its stream, insert it and, for a
\* financial event, insert its row in core.transaction_log, whose trigger
\* rejects a key that is already there and so aborts the transaction.
AppendTx(ev) ==
  /\ \E prev \in Heads(ev.stream) :
       store' = Append(store, [stream |-> ev.stream, version |-> ev.version,
                               key |-> ev.key, source |-> ev.source,
                               prev |-> prev])
  /\ IF IsFinancialEvent(ev.type)
       THEN TxKey(ev) \notin txlog /\ txlog' = txlog \union {TxKey(ev)}
       ELSE UNCHANGED txlog

----------------------------------------------------------------------------
(* Properties of what is stored *)

\* The record hashes of a stream form a tree that grows forward: a record is
\* linked to an earlier record of its own stream, and only the first to none.
ChainIsLinked ==
  \A n \in DOMAIN store :
    IF \E m \in Of(store[n].stream) : m < n
      THEN store[n].prev \in Of(store[n].stream) /\ store[n].prev < n
      ELSE store[n].prev = 0

\* An idempotency key names at most one stored event, also when the check
\* outside the transaction of two calls found it unused.
OneEventPerKey ==
  \A m, n \in DOMAIN store :
    store[m].key = store[n].key /\ store[m].key # NoKey => m = n

\* The versions of a stream have no gap.
NoVersionGap ==
  \A s \in Streams :
    {store[n].version : n \in Of(s)} = 1 .. GetLatestVersion(s)

\* A version names one event of its stream.
UniqueVersions ==
  \A m, n \in DOMAIN store :
    store[m].stream = store[n].stream /\ store[m].version = store[n].version
      => m = n

\* The hash chain of a stream does not fork: no two events follow the same one.
ChainIsLinear ==
  \A m, n \in DOMAIN store :
    store[m].stream = store[n].stream /\ store[m].prev = store[n].prev => m = n

=============================================================================
