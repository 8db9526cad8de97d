----------------------------- MODULE AuditBatch -----------------------------
(***************************************************************************)
(* The daily batch hashes of the audit service: the start-up backfill, the *)
(* run at 02:00, and the computation of a batch, which looks for a row,    *)
(* reads the events of the day and the previous batch, inserts a row and   *)
(* then signs it by an update.  integrity.batch_hashes has a trigger that  *)
(* raises an error for every update.  A Merkle root is represented by the  *)
(* sequence of its leaves.                                                 *)
(***************************************************************************)
EXTENDS Integers, SequencesExt

CONSTANTS
  Events, DayOf, NumberOf,   \* events, the day of occurred_at, sequence_number
  LastDay,                \* bound: days simulated
  Backfill,               \* days looked back at start-up
  Instances,              \* running copies of the service
  MaxCrashes, MaxErrors   \* bounds: crashes, failing statements

ASSUME AuditAssumption ==
  /\ LastDay \in Nat \ {0} /\ Backfill \in Nat \ {0} /\ MaxCrashes \in Nat /\ MaxErrors \in Nat
  /\ DayOf \in [Events -> 1 .. LastDay] /\ NumberOf \in [Events -> Nat]

Days == 1 .. LastDay

VARIABLES
  today,
  open,        \* events that have their time, in a transaction not yet committed
  stored,      \* events.event_store
  batches,     \* integrity.batch_hashes: of each day at most one row, as a set
  pc, todo,    \* of each instance: its step, and the days still to compute
  root, prev,  \* what it has computed and read for the first of them
  ticked,      \* whether it has had its run of today
  crashes, errors

bounds == <<crashes, errors>>
vars == <<today, open, stored, batches, pc, todo, root, prev, ticked, bounds>>

NoRoot == <<0>>     \* NULL, and not a sequence of events

Init ==
  /\ today = 1
  /\ open = {} /\ stored = {}
  /\ batches = [d \in Days |-> {}]
  /\ pc = [i \in Instances |-> "down"]
  /\ todo = [i \in Instances |-> <<>>]
  /\ root = [i \in Instances |-> NoRoot]
  /\ prev = [i \in Instances |-> NoRoot]
  /\ ticked = [i \in Instances |-> FALSE]
  /\ crashes = 0 /\ errors = 0

\* An event takes its time before its transaction begins to write.
TakeTime(e) ==
  /\ e \notin open \union stored /\ DayOf[e] = today
  /\ open' = open \union {e}
  /\ UNCHANGED <<today, stored, batches, pc, todo, root, prev, ticked, bounds>>

CommitEvent(e) ==
  /\ e \in open
  /\ open' = open \ {e}
  /\ stored' = stored \union {e}
  /\ UNCHANGED <<today, batches, pc, todo, root, prev, ticked, bounds>>

\* A day is longer than a transaction and than the work of a run: it ends when
\* nobody computes, every instance that is up has had its run at 02:00, and
\* only transactions of today are open.
Midnight ==
  /\ today < LastDay
  /\ \A i \in Instances : pc[i] = "down" \/ (pc[i] = "idle" /\ ticked[i])
  /\ \A e \in open : DayOf[e] = today
  /\ today' = today + 1
  /\ ticked' = [i \in Instances |-> FALSE]
  /\ UNCHANGED <<open, stored, batches, pc, todo, root, prev, bounds>>

----------------------------------------------------------------------------
(* run_daily_batch_cron *)

Work(i, days) ==
  /\ todo' = [todo EXCEPT ![i] = days]
  /\ pc' = [pc EXCEPT ![i] = IF days = <<>> THEN "idle" ELSE "look"]


\* The days before today, the latest first.  Days before the first one of the
\* model, which hold no events, are left out.
BackfillDays ==
  LET n == IF today - 1 < Backfill THEN today - 1 ELSE Backfill
  IN  [k \in 1 .. n |-> today - k]

\* The service starts before or after 02:00.
Start(i) ==
  /\ pc[i] = "down"
  /\ Work(i, BackfillDays)
  /\ \E late \in BOOLEAN : ticked' = [ticked EXCEPT ![i] = late]
  /\ UNCHANGED <<today, open, stored, batches, root, prev, bounds>>

\* 02:00: the batch of yesterday, whose transactions have ended by then.
Tick(i) ==
  /\ pc[i] = "idle" /\ ~ticked[i]
  /\ \A e \in open : DayOf[e] = today
  /\ ticked' = [ticked EXCEPT ![i] = TRUE]
  /\ Work(i, IF today > 1 THEN <<today - 1>> ELSE <<>>)
  /\ UNCHANGED <<today, open, stored, batches, root, prev, bounds>>

----------------------------------------------------------------------------
(* compute_daily_batch *)

Day(i) == Head(todo[i])

NextDay(i) == Work(i, Tail(todo[i]))

Step(i, from, to) == pc[i] = from /\ pc' = [pc EXCEPT ![i] = to]

\* The row exists, and only the signature is missing, or it is computed.
LookForBatch(i) ==
  /\ Step(i, "look", IF batches[Day(i)] # {} THEN "sign" ELSE "fetch")
  /\ UNCHANGED <<today, open, stored, batches, todo, root, prev, ticked, bounds>>

\* The events of S with the lowest number.
Lowest(S) == {e \in S : \A f \in S : NumberOf[e] <= NumberOf[f]}

\* ORDER BY sequence_number; the number counts within a stream, so events of
\* different streams with the same number come in any order.
Sorted[S \in SUBSET Events] ==
  IF S = {} THEN {<<>>}
    ELSE UNION {{<<e>> \o t : t \in Sorted[S \ {e}]} : e \in Lowest(S)}

\* fetch_events_for_range, of one day.
Orderings(d) == Sorted[{e \in stored : DayOf[e] = d}]

FetchEventsForRange(i) ==
  /\ Step(i, "fetch", "previous")
  /\ \E s \in Orderings(Day(i)) : root' = [root EXCEPT ![i] = s]
  /\ UNCHANGED <<today, open, stored, batches, todo, prev, ticked, bounds>>

\* WHERE batch_date < $1
Earlier(d) == {c \in Days : c < d /\ batches[c] # {}}

\* The hash of the latest batch of an earlier day.
Previous(d) ==
  IF Earlier(d) = {} THEN NoRoot
    ELSE (CHOOSE b \in batches[Max(Earlier(d))] : TRUE).hash

ReadPrevious(i) ==
  /\ Step(i, "previous", "insert")
  /\ prev' = [prev EXCEPT ![i] = Previous(Day(i))]
  /\ UNCHANGED <<today, open, stored, batches, todo, root, ticked, bounds>>

\* INSERT ... ON CONFLICT DO UPDATE: the update of a row that was inserted in
\* the meantime is refused by the trigger, and the day is given up.
InsertBatch(i) ==
  /\ pc[i] = "insert"
  /\ IF batches[Day(i)] = {}
       THEN /\ batches' = [batches EXCEPT ![Day(i)] =
                 {[hash |-> root[i], prev |-> prev[i], signed |-> FALSE]}]
            /\ Step(i, "insert", "sign") /\ UNCHANGED todo
       ELSE NextDay(i) /\ UNCHANGED batches
  /\ UNCHANGED <<today, open, stored, root, prev, ticked, bounds>>

\* update_batch_signature: the trigger refuses the update, compute_daily_batch
\* returns the error and the cron goes on to the next day.
SignBatch(i) ==
  /\ pc[i] = "sign"
  /\ NextDay(i)
  /\ UNCHANGED <<today, open, stored, batches, root, prev, ticked, bounds>>

\* A statement fails: the day is given up until the next start.
StatementFails(i) ==
  /\ pc[i] \in {"look", "fetch", "previous", "insert", "sign"}
  /\ errors < MaxErrors /\ errors' = errors + 1
  /\ NextDay(i)
  /\ UNCHANGED <<today, open, stored, batches, root, prev, ticked, crashes>>

Crash(i) ==
  /\ pc[i] # "down"
  /\ crashes < MaxCrashes /\ crashes' = crashes + 1
  /\ pc' = [pc EXCEPT ![i] = "down"]
  /\ todo' = [todo EXCEPT ![i] = <<>>]
  /\ UNCHANGED <<today, open, stored, batches, root, prev, ticked, errors>>

Compute(i) ==
  \/ LookForBatch(i)
  \/ FetchEventsForRange(i)
  \/ ReadPrevious(i)
  \/ InsertBatch(i)
  \/ SignBatch(i)

Next ==
  \/ \E e \in Events : TakeTime(e) \/ CommitEvent(e)
  \/ Midnight
  \/ \E i \in Instances : Start(i) \/ Tick(i) \/ Compute(i) \/ Crash(i) \/ StatementFails(i)

Spec == Init /\ [][Next]_vars

\* Transactions end, the service is restarted when it is down, and its task
\* goes on.
FairSpec ==
  /\ Spec
  /\ \A e \in Events : WF_vars(CommitEvent(e))
  /\ \A i \in Instances : WF_vars(Start(i)) /\ WF_vars(Tick(i)) /\ WF_vars(Compute(i))

----------------------------------------------------------------------------
(* Properties *)

\* Type invariant of the batches and the instances.
TypeOK ==
  /\ today \in Days /\ stored \subseteq Events /\ open \subseteq Events \ stored
  /\ \A d \in Days : \A b \in batches[d] :
       /\ ToSet(b.hash) \subseteq {e \in stored : DayOf[e] = d}
       /\ b.signed \in BOOLEAN
  /\ \A i \in Instances : todo[i] = <<>> <=> pc[i] \in {"down", "idle"}

\* "WORM: Immutable once computed": what is written of a day is never changed
\* or removed, whichever instance computes it again over later events.
BatchIsImmutable ==
  [][\A d \in Days : batches[d] # {} => batches'[d] = batches[d]]_vars

\* The links go back in time: a batch names the hash that a batch of an
\* earlier day has, in whatever order the days were filled in.
LinksGoBack ==
  \A d \in Days : \A b \in batches[d] :
    b.prev # NoRoot => \E c \in Days : c < d /\ \E a \in batches[c] : a.hash = b.prev

\* A batch is computed by a run at 02:00 or a backfill for every day that is
\* over, also when the service crashes on the way.
EveryDayHasBatch == \A d \in Days : today > d ~> batches[d] # {}

\* "SHA-256 of all transaction hashes": the batch covers the events of its day.
BatchIsComplete ==
  \A d \in Days : \A b \in batches[d] : {e \in stored : DayOf[e] = d} \subseteq ToSet(b.hash)

\* "batch hashes form their own chain": a batch is linked to the batch of the
\* nearest earlier day.
BatchesFormChain == \A d \in Days : \A b \in batches[d] : b.prev = Previous(d)

\* A batch hash can be computed again from the same events.
RootIsReproducible ==
  \A d \in Days : \A b \in batches[d] :
    \A s \in Orderings(d) : ToSet(s) = ToSet(b.hash) => s = b.hash

\* The batch is written "with an Ed25519 signature".
BatchIsSigned == \A d \in Days : batches[d] # {} ~> \E b \in batches[d] : b.signed

=============================================================================
