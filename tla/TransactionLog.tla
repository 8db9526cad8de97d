--------------------------- MODULE TransactionLog ---------------------------
(***************************************************************************)
(* core.transaction_log: the orchestrator's writers, each in a serializable*)
(* transaction, the two triggers of the table, and the verification of its *)
(* hash chain in the audit service.  The number a row takes from           *)
(* core.global_event_sequence stands for its hash.  The advisory lock of   *)
(* the hash trigger is taken and released within one statement that reads  *)
(* the snapshot of its transaction, so that the statement is one step.     *)
(* core.idempotency_keys, which AppendEvent also fills, is in EventStore:  *)
(* here is what the log ensures for a writer that does not use it.         *)
(***************************************************************************)
EXTENDS Integers, Sequences, FiniteSetsExt

CONSTANTS
  Writers,     \* connections of the orchestrator
  Keys,        \* idempotency keys of financial events
  Short,       \* the keys of fewer than eight characters
  Padded,      \* the key "-padding" makes of each of them
  MaxNumber    \* bound on the numbers taken from the sequence

ASSUME ShortAssumption == Short \subseteq Keys /\ Padded \in [Short -> Keys]

VARIABLES
  log,         \* the committed rows, in commit order
  tx,          \* the open transaction of each writer
  number       \* core.global_event_sequence

logVars == <<log, tx, number>>

Idle == [phase |-> "idle"]

LogInit ==
  /\ log = <<>>
  /\ tx = [w \in Writers |-> Idle]
  /\ number = 0

\* The key of the row: a short key is padded.
RowKey(k) == IF k \in Short THEN Padded[k] ELSE k

\* The first statement of the transaction takes its snapshot.
Begin(w, k) ==
  /\ tx[w] = Idle
  /\ number < MaxNumber
  /\ tx' = [tx EXCEPT ![w] = [phase |-> "open", key |-> k,
                              snapshot |-> log]]
  /\ UNCHANGED <<log, number>>

\* check_idempotency: there is a row with this key.
KeyIsUsed(rows, k) == \E i \in DOMAIN rows : rows[i].key = k

\* Mutant: the rows are ordered by their number, the lowest first.
PreviousHashAscending(rows) ==
  IF rows = <<>> THEN 0 ELSE Min({rows[i].number : i \in DOMAIN rows})

\* compute_transaction_hash: the hash of the row with the highest number,
\* 0 (NULL) in an empty table.
PreviousHash(rows) == Max({0} \union {rows[i].number : i \in DOMAIN rows})

\* The insert: the number is taken first, then the triggers run.  A key that
\* is used raises an exception, after which the transaction is rolled back.
AppendTransactionLog(w) ==
  /\ tx[w].phase = "open"
  /\ number < MaxNumber
  /\ number' = number + 1
  /\ LET k == RowKey(tx[w].key)
     IN  tx' = [tx EXCEPT ![w] =
           IF KeyIsUsed(tx[w].snapshot, k) THEN Idle
             ELSE [phase |-> "inserted", snapshot |-> tx[w].snapshot,
                   row |-> [number |-> number + 1, key |-> k,
                            prev |-> PreviousHash(tx[w].snapshot)]]]
  /\ UNCHANGED log

\* Every transaction reads the table and inserts into it, so that of two that
\* overlap each misses the row of the other: the database commits one.
Serializable(w) == tx[w].snapshot = log

Commit(w) ==
  /\ tx[w].phase = "inserted"
  /\ Serializable(w)
  /\ log' = Append(log, tx[w].row)
  /\ tx' = [tx EXCEPT ![w] = Idle]
  /\ UNCHANGED number

\* A statement fails (no SYSTEM type, a lost connection, a serialization
\* failure) and the deferred Rollback ends the transaction.
Rollback(w) ==
  /\ tx[w] # Idle
  /\ tx' = [tx EXCEPT ![w] = Idle]
  /\ UNCHANGED <<log, number>>

LogNext ==
  \E w \in Writers :
    \/ \E k \in Keys : Begin(w, k)
    \/ AppendTransactionLog(w)
    \/ Commit(w)
    \/ Rollback(w)

----------------------------------------------------------------------------
(* Verification in the audit service *)

\* Mutant: the depth is counted from zero.
FetchTransactionsDeeper(n, maxDepth) ==
  LET RowsOf(m) == {r \in {log[i] : i \in DOMAIN log} : r.number = m}
      Walk[k \in 1 .. Len(log) + 1, m \in 0 .. MaxNumber] ==
        IF RowsOf(m) = {} THEN <<>>
          ELSE LET r == CHOOSE r \in RowsOf(m) : TRUE
               IN  <<r>> \o IF k <= maxDepth THEN Walk[k + 1, r.prev] ELSE <<>>
  IN  Walk[1, n]

\* fetch_transactions_for_chain: the row and, by previous_hash, the rows
\* before it, the depth of a row with a successor being below maxDepth.
FetchTransactionsForChain(n, maxDepth) ==
  LET RowsOf(m) == {r \in {log[i] : i \in DOMAIN log} : r.number = m}
      Walk[k \in 1 .. Len(log) + 1, m \in 0 .. MaxNumber] ==
        IF RowsOf(m) = {} THEN <<>>
          ELSE LET r == CHOOSE r \in RowsOf(m) : TRUE
               IN  <<r>> \o IF k < maxDepth THEN Walk[k + 1, r.prev] ELSE <<>>
  IN  Walk[1, n]

\* verify_transaction_chain: each record against the one fetched before it.
VerifyTransactionChain(n, maxDepth) ==
  LET records == FetchTransactionsForChain(n, maxDepth)
      Breaks  == {i \in 2 .. Len(records) :
                    records[i].prev # records[i - 1].number}
  IN  IF records = <<>> THEN [found |-> FALSE]
        ELSE [found |-> TRUE, is_valid |-> Breaks = {},
              chain_length |-> Len(records),
              broken_at |-> IF Breaks = {} THEN 0
                              ELSE records[Min(Breaks)].number]

----------------------------------------------------------------------------
(* Properties *)

\* The chain is the commit order: each row names the row committed just before
\* it, and none is skipped or named twice, although the lock of the trigger is
\* released before the row is committed and numbers are taken out of order.
ChainIsTheCommitOrder ==
  \A i \in DOMAIN log :
    log[i].prev = IF i = 1 THEN 0 ELSE log[i - 1].number

\* An idempotency key is in one row, although the check of the trigger reads a
\* snapshot and the unique index of the table includes the commit time.
OneRowPerKey ==
  \A i, j \in DOMAIN log : log[i].key = log[j].key => i = j

\* The verification of the audit service walks the whole chain before the row
\* asked for: it reports as many rows as were committed up to it, or as the
\* depth asked for allows.
ChainIsWalked ==
  \A i \in DOMAIN log, d \in 0 .. Len(log) :
    VerifyTransactionChain(log[i].number, d).chain_length = Min({i, Max({d, 1})})

\* A chain that is intact is reported as valid by the audit service.
IntactChainIsValid ==
  ChainIsTheCommitOrder =>
    \A i \in DOMAIN log, d \in 1 .. Len(log) :
      VerifyTransactionChain(log[i].number, d).is_valid

=============================================================================
