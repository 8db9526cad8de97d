---------------------------- MODULE EventWriter -----------------------------
(***************************************************************************)
(* AppendEventHandler.Handle and the RPCs of the orchestrator that call it.*)
(* A call is a script of commands, each handled in the steps Handle takes: *)
(* the idempotency check and the version read on the pool, then one        *)
(* serializable transaction.  AppendEvent and EndSession have one command, *)
(* AppendEventsBatch several and stops at the first error, ForwardUSSD two *)
(* and logs the errors.                                                    *)
(***************************************************************************)
EXTENDS EventStore

CONSTANTS
  Calls,
  Script,         \* Script[c]: the commands of call c
  StopsOnError    \* the calls that return the first error

Command(s, type, key, expected) ==
  [stream |-> s, type |-> type, key |-> key, expected |-> expected]

\* The commands of the RPCs that do not take theirs from the request.
EndSession(session) == <<Command(session, "", NoKey, 0)>>

ForwardUSSD(session, key, paymentKey) ==
  <<Command(session, "USR_SESSION", key, 0),
    Command(session, "PAYMENT", paymentKey, 0)>>

Commands == [stream : Streams, type : STRING, key : Keys \union {NoKey},
             expected : Int]

ASSUME ScriptAssumption ==
  \A c \in Calls : Script[c] \in Seq(Commands) /\ Script[c] # <<>>

VARIABLES
  pc,       \* where each call is
  latest,   \* latestVersion of its current command
  results   \* the outcomes of its commands so far

writerVars == <<pc, latest, results>>
vars == <<storeVars, writerVars>>

WriterInit ==
  /\ pc = [c \in Calls |-> "check"]
  /\ latest = [c \in Calls |-> 0]
  /\ results = [c \in Calls |-> <<>>]

Init == StoreInit /\ WriterInit

Cmd(c) == Script[c][Len(results[c]) + 1]

Goto(c, label) == pc' = [pc EXCEPT ![c] = label]

\* Handle returns: the call goes on with its next command, if any.
Return(c, outcome) ==
  /\ results' = [results EXCEPT ![c] = Append(@, outcome)]
  /\ Goto(c, IF \/ Len(results[c]) + 1 = Len(Script[c])
                \/ outcome # "ok" /\ c \in StopsOnError
               THEN "done" ELSE "check")

CheckIdempotency(c) ==
  /\ pc[c] = "check"
  /\ IF Cmd(c).key \in keys
       THEN Return(c, "duplicate")
       ELSE Goto(c, "read") /\ UNCHANGED results
  /\ UNCHANGED <<storeVars, latest>>

ReadVersion(c) ==
  /\ pc[c] = "read"
  /\ latest' = [latest EXCEPT ![c] = GetLatestVersion(Cmd(c).stream)]
  /\ IF Cmd(c).expected >= 0 /\ latest'[c] # Cmd(c).expected
       THEN Return(c, "conflict")
       ELSE Goto(c, "tx") /\ UNCHANGED results
  /\ UNCHANGED storeVars

\* The event of the current command of c.
NewEvent(c, version) ==
  [stream |-> Cmd(c).stream, version |-> version, key |-> Cmd(c).key,
   type |-> Cmd(c).type, source |-> <<c, Len(results[c]) + 1>>]

\* Mutant: the key is not looked at in the transaction.
TransactionKeyLate(c) ==
  /\ pc[c] = "tx"
  /\ AppendTx(NewEvent(c, latest[c] + 1))
  /\ keys' = keys \union ({Cmd(c).key} \intersect Keys)
  /\ Return(c, "ok")
  /\ UNCHANGED latest

\* The transaction: StoreIdempotency, AppendTx, Commit.  When the answer to the
\* commit is lost the caller sees an error although the event is stored.
Transaction(c) ==
  /\ pc[c] = "tx"
  /\ Cmd(c).key \notin keys
  /\ AppendTx(NewEvent(c, latest[c] + 1))
  /\ keys' = keys \union ({Cmd(c).key} \intersect Keys)
  /\ \E outcome \in {"ok", "error"} : Return(c, outcome)
  /\ UNCHANGED latest

\* Mutant: the duplicate is found but the transaction is committed.
TransactionDuplicateKept(c) ==
  /\ pc[c] = "tx"
  /\ Cmd(c).key \in keys
  /\ AppendTx([NewEvent(c, latest[c] + 1) EXCEPT !.key = NoKey])
  /\ Return(c, "duplicate")
  /\ UNCHANGED <<keys, latest>>


\* StoreIdempotency finds the key inserted since the check.
TransactionDuplicate(c) ==
  /\ pc[c] = "tx"
  /\ Cmd(c).key \in keys
  /\ Return(c, "duplicate")
  /\ UNCHANGED <<storeVars, latest>>

\* Any statement can fail: the connection, a serialization failure, a key that
\* core.transaction_log already has.  Nothing is written.
Fail(c) ==
  /\ pc[c] \in {"check", "read", "tx"}
  /\ Return(c, "error")
  /\ UNCHANGED <<storeVars, latest>>

Handle(c) ==
  \/ CheckIdempotency(c)
  \/ ReadVersion(c)
  \/ Transaction(c)
  \/ TransactionDuplicate(c)
  \/ Fail(c)

Next == \E c \in Calls : Handle(c)

Spec == Init /\ [][Next]_vars

\* The calls are handled one command at a time.
NoOverlap == \A c, d \in Calls :
  pc[c] \in {"read", "tx"} /\ pc[d] \in {"read", "tx"} => c = d

----------------------------------------------------------------------------
(* Properties *)

\* Type invariant of the store and of the calls.
TypeOK ==
  /\ \A n \in DOMAIN store :
       /\ store[n].stream \in Streams
       /\ store[n].version \in Nat \ {0}
       /\ store[n].key \in Keys \union {NoKey}
       /\ store[n].prev \in 0 .. n - 1
  /\ keys \subseteq Keys
  /\ \A c \in Calls :
       /\ pc[c] \in {"check", "read", "tx", "done"}
       /\ latest[c] \in Nat
       /\ Len(results[c]) <= Len(Script[c])

\* An acknowledged command has exactly one stored event and a command refused
\* as a duplicate or for its version has none; after an error there may be one.
AnswersAreTrue ==
  \A c \in Calls : \A n \in DOMAIN results[c] :
    LET copies == Cardinality({m \in DOMAIN store : store[m].source = <<c, n>>})
    IN  /\ results[c][n] = "ok" => copies = 1
        /\ results[c][n] \in {"duplicate", "conflict"} => copies = 0
        /\ results[c][n] = "error" => copies <= 1

\* A command that names the version it expects is stored right after it.
ExpectedVersionIsKept ==
  \A m \in DOMAIN store :
    LET cmd == Script[store[m].source[1]][store[m].source[2]]
    IN  cmd.expected >= 0 => store[m].version = cmd.expected + 1

KeysOf(s) == LET own == SelectSeq(store, LAMBDA e : e.stream = s)
             IN  [n \in DOMAIN own |-> own[n].key]

\* The store as EventLog sees it.
log == [s \in Streams |-> KeysOf(s)]

Log == INSTANCE EventLog


\* A version is the position of the event in its stream.
VersionIsPosition ==
  \A s \in Streams : LET own == SelectSeq(store, LAMBDA e : e.stream = s)
    IN \A n \in DOMAIN own : own[n].version = n

\* ForwardUSSD appends the PaymentInitiated event if a payment was triggered,
\* unless the database failed.
PaymentIsRecorded ==
  \A c \in Calls : pc[c] = "done" =>
    \A n \in DOMAIN Script[c] :
      Script[c][n].type = "PAYMENT" =>
        \/ results[c][n] = "error"
        \/ \E m \in DOMAIN store : store[m].source = <<c, n>>

\* AppendEventsBatch stores all of its events or none, when the database works.
BatchIsAtomic ==
  \A c \in Calls : pc[c] = "done" /\ (\A n \in DOMAIN results[c] : results[c][n] # "error") =>
    Cardinality({m \in DOMAIN store : store[m].source[1] = c})
      \in {0, Len(Script[c])}

=============================================================================
