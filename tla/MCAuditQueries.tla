--------------------------- MODULE MCAuditQueries ---------------------------
(***************************************************************************)
(* Three loads of the audit service.  "batches": two instances compute the *)
(* batches of the same days, with a crash, a failing statement and events  *)
(* of two streams that are committed late.  "queries": one instance and    *)
(* one stream, with up to six events of a day, and requests at any time.   *)
(* "trail": a client reads the trail of a record that changes.             *)
(***************************************************************************)
EXTENDS AuditQueries

CONSTANTS e1, e2, e3, e4, e5, e6, e7, i1, i2

VARIABLE workload

mcvars == <<vars, qvars, workload>>

MCDayOf == [e \in Events |-> IF e = e7 THEN 2 ELSE 1]

\* The numbers of one stream; e7 has the first number of another stream in
\* the load of batches, where numbers decide nothing.
MCNumberOf ==
  [e \in Events |-> CASE e = e1 -> 1 [] e = e2 -> 2 [] e = e3 -> 3 [] e = e4 -> 4
                      [] e = e5 -> 5 [] e = e6 -> 6 [] e = e7 -> 7]

\* e3 and e4 carry the same payload.
MCPayloadOf == [e \in Events |-> IF e = e4 THEN e3 ELSE e]
MCTypeOf == [e \in Events |-> IF e \in {e1, e7} THEN "opened" ELSE "input"]

MCInit ==
  /\ Init /\ QueriesInit
  /\ workload \in {"batches", "queries", "trail"}

Batches ==
  /\ workload = "batches"
  /\ Next /\ stored' \cup open' \subseteq {e1, e7}
  /\ UNCHANGED qvars

\* A stream commits its events in turn.
InTurn(e) == \A f \in Events : NumberOf[f] < NumberOf[e] /\ DayOf[f] = DayOf[e] => f \in stored

OneInstance ==
  \/ \E e \in Events : (InTurn(e) /\ TakeTime(e)) \/ CommitEvent(e)
  \/ Midnight
  \/ Start(i1) \/ Tick(i1) \/ Compute(i1)

\* A request begins when no transaction is open, one for a period when there
\* are few events, and a behaviour ends with the first answer.
Queries ==
  /\ workload = "queries" /\ answer.rpc = "none"
  /\ \/ OneInstance /\ UNCHANGED qvars
     \/ BuildProof
     \/ open = {} /\ Query
     \/ open = {} /\ Cardinality(stored) <= 3 /\ QueryOfPeriod

Trails == workload = "trail" /\ Trail

MCNext == (Batches \/ Queries \/ Trails) /\ UNCHANGED workload

\* Transactions end, the service is restarted when it is down, and its task
\* goes on.
MCSpec ==
  /\ MCInit /\ [][MCNext]_mcvars
  /\ \A e \in {e1, e7} : WF_vars(workload = "batches" /\ CommitEvent(e))
  /\ \A i \in Instances :
       /\ WF_vars(workload = "batches" /\ Start(i))
       /\ WF_vars(workload = "batches" /\ Tick(i))
       /\ WF_vars(workload = "batches" /\ Compute(i))

----------------------------------------------------------------------------
(* Properties *)


=============================================================================
