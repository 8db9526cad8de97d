------------------------------ MODULE MCLedger ------------------------------
(***************************************************************************)
(* The transaction log and the service that answers queries about it.  The *)
(* read model takes nothing from the log, so that queries are asked at     *)
(* every length of the log but only while no transaction is open.          *)
(***************************************************************************)
EXTENDS TransactionLog, LedgerQuery, TLC

MCPadded == [k \in Short |-> "k1-padding"]

vars == <<logVars, answer>>

Init == LogInit /\ QueryInit

Write == answer = NoAnswer /\ LogNext /\ UNCHANGED answer

Ask ==
  /\ answer = NoAnswer
  /\ \A w \in Writers : tx[w] = Idle
  /\ QueryNext
  /\ UNCHANGED logVars

Next == Write \/ Ask

Spec == Init /\ [][Next]_vars

Symmetry == Permutations(Writers)

\* A transaction that is in the log is found by its id.
PostedIsFound ==
  answer.method = "GetTransactionById" /\ answer.up /\ answer.request.ids
    /\ log # <<>> => answer.reply.error = "None"

=============================================================================
