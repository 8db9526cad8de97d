--------------------------- MODULE Reconciliation ---------------------------
(***************************************************************************)
(* The reconciliation engine: start_reconciliation matches the kernel's    *)
(* transactions with a provider's statement and stores a report and its    *)
(* mismatches, one statement at a time; resolvers close mismatches while   *)
(* runs are under way.  The two sources of transactions are ports, and any *)
(* lists of Statements may come from them.                                 *)
(***************************************************************************)
EXTENDS Integers, FiniteSets, FiniteSetsExt, SequencesExt, BagsExt

CONSTANTS
  Runs,         \* run ids, one for each StartReconciliation
  Resolvers,    \* callers of BulkResolveDiscrepancies
  Statements,   \* for each run, the lists of transactions its sources may return
  Tolerances,   \* the tolerances of a request
  NoRef,        \* the empty reference
  MaxResolve,   \* bound on the item ids of one bulk request
  Faults        \* whether statements fail and the process dies

VARIABLES
  pc,           \* where the handler of a run is
  run,          \* the handler's ReconciliationRun and lists
  items,        \* the items it has still to save
  reports,      \* reconciliation.reports
  mismatches,   \* reconciliation.mismatches
  request       \* one request per resolver: the ids it has still to update, its count

vars == <<pc, run, items, reports, mismatches, request>>

Abs(n) == IF n < 0 THEN -n ELSE n
Total(txns) == FoldLeft(LAMBDA sum, t : sum + t.amount, 0, txns)

NoRow == [status |-> "none"]
Idle == [ids |-> <<>>, count |-> 0, status |-> "resolved"]

-----------------------------------------------------------------------------
(* The matching.                                                           *)

\* Mutant: two empty references are equal.
IsMatchEmpty(int, ext, tolerance) ==
  /\ int.ref = ext.ref
  /\ Abs(int.amount - ext.amount) <= tolerance

IsMatch(int, ext, tolerance) ==
  /\ int.ref # NoRef /\ ext.ref # NoRef /\ int.ref = ext.ref
  /\ Abs(int.amount - ext.amount) <= tolerance

\* An item names its transactions by their positions, 0 for none.
Item(type, i, k, internal, external, difference) ==
  [type |-> type, int |-> i, ext |-> k, internal |-> internal, external |-> external,
   difference |-> difference, resolved |-> FALSE]

\* Mutant: an external transaction stays available once it is matched.
MatchAgain(int, ext, tolerance, acc, i) ==
  LET free == {k \in 1 .. Len(ext) : IsMatch(int[i], ext[k], tolerance)}
      k == Min(free)
      diff == Abs(int[i].amount - ext[k].amount)
  IN IF free = {}
       THEN [acc EXCEPT !.items = Append(@,
              Item("MissingExternal", i, 0, int[i].amount, 0, int[i].amount))]
       ELSE [used |-> acc.used \cup {k},
             items |-> IF diff = 0 THEN acc.items ELSE Append(acc.items,
               Item("AmountMismatch", i, k, int[i].amount, ext[k].amount, diff))]

\* One internal transaction takes the first free external one that matches it.
MatchOne(int, ext, tolerance, acc, i) ==
  LET free == {k \in 1 .. Len(ext) \ acc.used : IsMatch(int[i], ext[k], tolerance)}
      k == Min(free)
      diff == Abs(int[i].amount - ext[k].amount)
  IN IF free = {}
       THEN [acc EXCEPT !.items = Append(@,
              Item("MissingExternal", i, 0, int[i].amount, 0, int[i].amount))]
       ELSE [used |-> acc.used \cup {k},
             items |-> IF diff = 0 THEN acc.items ELSE Append(acc.items,
               Item("AmountMismatch", i, k, int[i].amount, ext[k].amount, diff))]

MatchTransactions(int, ext, tolerance) ==
  LET matched == FoldLeft(LAMBDA acc, i : MatchOne(int, ext, tolerance, acc, i),
                          [used |-> {}, items |-> <<>>], [i \in 1 .. Len(int) |-> i])
      Left(acc, k) == IF k \in matched.used THEN acc
                        ELSE Append(acc, Item("MissingInternal", 0, k, 0, ext[k].amount,
                                              ext[k].amount))
  IN FoldLeft(Left, matched.items, [k \in 1 .. Len(ext) |-> k])

-----------------------------------------------------------------------------
(* The store.                                                              *)

StoredStatus(status) ==
  CASE status = "Running" -> "processing"
    [] status \in {"Completed", "PartiallyResolved"} -> "completed"
    [] status = "Failed" -> "failed"

Report(rn) ==
  [status |-> StoredStatus(rn.status), kernelCount |-> rn.total, providerCount |-> 0,
   matched |-> rn.matched, unmatchedKernel |-> rn.discrepancies, unmatchedProvider |-> 0,
   kernelTotal |-> rn.internalTotal, providerTotal |-> rn.externalTotal]

\* The trigger of V070 refuses to change a completed report.
SaveRun(r, rn) ==
  /\ reports[r].status # "completed"
  /\ reports' = [reports EXCEPT ![r] = Report(rn)]

MismatchType(type) ==
  CASE type = "MissingInternal" -> "kernel_only"
    [] type = "MissingExternal" -> "provider_only"
    [] type = "AmountMismatch" -> "amount_diff"

ResolutionStatus(action) == IF action = "Escalate" THEN "disputed" ELSE "resolved"

-----------------------------------------------------------------------------
(* start_reconciliation                                                    *)

NewRun(tolerance) ==
  [status |-> "Running", total |-> 0, matched |-> 0, discrepancies |-> 0,
   internalTotal |-> 0, externalTotal |-> 0, int |-> <<>>, ext |-> <<>>,
   tolerance |-> tolerance]

Init ==
  /\ pc = [r \in Runs |-> "new"]
  /\ run = [r \in Runs |-> NewRun(0)]
  /\ items = [r \in Runs |-> <<>>]
  /\ reports = [r \in Runs |-> NoRow]
  /\ mismatches = <<>>
  /\ request = [w \in Resolvers |-> Idle]

\* The run is created and saved as processing.
StartReconciliation(r) ==
  /\ pc[r] = "new"
  /\ \E tolerance \in Tolerances :
       /\ run' = [run EXCEPT ![r] = NewRun(tolerance)]
       /\ SaveRun(r, NewRun(tolerance))
  /\ pc' = [pc EXCEPT ![r] = "fetch"]
  /\ UNCHANGED <<items, mismatches, request>>

\* Both lists are read and matched, and the counts of the run are set.
FetchAndMatch(r) ==
  /\ pc[r] = "fetch"
  /\ \E int, ext \in Statements[r] :
       LET found == MatchTransactions(int, ext, run[r].tolerance)
           Count(resolved) == Cardinality({n \in 1 .. Len(found) : found[n].resolved = resolved})
       IN /\ items' = [items EXCEPT ![r] = found]
          /\ run' = [run EXCEPT ![r] =
               [@ EXCEPT !.int = int, !.ext = ext, !.total = Len(int) + Len(ext),
                         !.matched = Count(TRUE), !.discrepancies = Count(FALSE),
                         !.internalTotal = Total(int), !.externalTotal = Total(ext)]]
  /\ pc' = [pc EXCEPT ![r] = "save"]
  /\ UNCHANGED <<reports, mismatches, request>>

\* A source answers with an error: the run is saved as failed.
FetchFails(r) ==
  /\ pc[r] = "fetch"
  /\ run' = [run EXCEPT ![r].status = "Failed"]
  /\ SaveRun(r, run'[r])
  /\ pc' = [pc EXCEPT ![r] = "done"]
  /\ UNCHANGED <<items, mismatches, request>>

\* The number of an item in its run, which stands for its fresh id.
NextId(r) == <<r, run[r].discrepancies - Len(items[r]) + 1>>

\* Mutant: the item stays in the list, so that it is saved a second time.
SaveItemTwice(r) ==
  /\ pc[r] = "save" /\ items[r] # <<>>
  /\ LET item == Head(items[r])
         row == [type |-> MismatchType(item.type), int |-> item.int, ext |-> item.ext,
                 kernel |-> item.internal, provider |-> item.external,
                 difference |-> item.difference, resolution |-> "open", resolvedAt |-> FALSE]
     IN mismatches' = (NextId(r) :> row) @@ mismatches
  /\ \/ items' = [items EXCEPT ![r] = Tail(@)]
     \/ UNCHANGED items
  /\ UNCHANGED <<pc, run, reports, request>>

\* One item is saved; ON CONFLICT would overwrite a row with the same id.
SaveItem(r) ==
  /\ pc[r] = "save" /\ items[r] # <<>>
  /\ LET item == Head(items[r])
         row == [type |-> MismatchType(item.type), int |-> item.int, ext |-> item.ext,
                 kernel |-> item.internal, provider |-> item.external,
                 difference |-> item.difference, resolution |-> "open", resolvedAt |-> FALSE]
     IN mismatches' = (NextId(r) :> row) @@ mismatches
  /\ items' = [items EXCEPT ![r] = Tail(@)]
  /\ UNCHANGED <<pc, run, reports, request>>


FinishRun(r) ==
  /\ pc[r] = "save" /\ items[r] = <<>>
  /\ run' = [run EXCEPT ![r].status =
               IF run[r].discrepancies > 0 THEN "PartiallyResolved" ELSE "Completed"]
  /\ SaveRun(r, run'[r])
  /\ pc' = [pc EXCEPT ![r] = "done"]
  /\ UNCHANGED <<items, mismatches, request>>

\* A store call returns an error, which ? passes to the caller, or the
\* process dies: either way nothing more of the run is saved.
RunBreaksOff(r) ==
  /\ Faults
  /\ pc[r] \notin {"done", "error"}
  /\ pc' = [pc EXCEPT ![r] = "error"]
  /\ items' = [items EXCEPT ![r] = <<>>]
  /\ UNCHANGED <<run, reports, mismatches, request>>

-----------------------------------------------------------------------------
(* bulk_resolve_discrepancies; resolve_discrepancy is a list of one id.    *)

\* Any ids may be named, those of no item included.
ItemIds == Runs \X (1 .. MaxResolve)

BulkResolveDiscrepancies(w) ==
  /\ request[w] = Idle
  /\ \E a, b \in ItemIds, action \in {"Approve", "Escalate"} :
       request' = [request EXCEPT ![w] =
         [ids |-> IF a = b THEN <<a>> ELSE <<a, b>>, count |-> 0,
          status |-> ResolutionStatus(action)]]
  /\ UNCHANGED <<pc, run, items, reports, mismatches>>

\* The UPDATE of one id is counted even when it matches no row.
UpdateItemResolution(w) ==
  /\ request[w].ids # <<>>
  /\ LET id == Head(request[w].ids)
     IN mismatches' = IF id \in DOMAIN mismatches
          THEN [mismatches EXCEPT ![id].resolution = request[w].status, ![id].resolvedAt = TRUE]
          ELSE mismatches
  /\ request' = [request EXCEPT ![w].ids = Tail(@), ![w].count = @ + 1]
  /\ UNCHANGED <<pc, run, items, reports>>

\* An UPDATE that fails is logged and the loop goes on.
UpdateFails(w) ==
  /\ Faults
  /\ request[w].ids # <<>>
  /\ request' = [request EXCEPT ![w].ids = Tail(@)]
  /\ UNCHANGED <<pc, run, items, reports, mismatches>>

-----------------------------------------------------------------------------

HandlerStep(r) == FetchAndMatch(r) \/ FetchFails(r) \/ SaveItem(r) \/ FinishRun(r)

Next ==
  \/ \E r \in Runs : StartReconciliation(r) \/ HandlerStep(r) \/ RunBreaksOff(r)
  \/ \E w \in Resolvers :
       BulkResolveDiscrepancies(w) \/ UpdateItemResolution(w) \/ UpdateFails(w)

Spec == Init /\ [][Next]_vars

-----------------------------------------------------------------------------
(* Properties.                                                             *)

Resolutions == {"open", "resolved", "disputed"}

(* The variables hold what the code's types allow. *)
TypeOK ==
  /\ pc \in [Runs -> {"new", "fetch", "save", "done", "error"}]
  /\ \A r \in Runs : reports[r].status \in {"none", "processing", "completed", "failed"}
  /\ \A id \in DOMAIN mismatches : mismatches[id].resolution \in Resolutions
  /\ \A w \in Resolvers : request[w].count \in 0 .. 2

\* What match_transactions says of two lists.
Found(r) == MatchTransactions(run[r].int, run[r].ext, run[r].tolerance)
Matching(r) == pc[r] = "save" /\ Len(items[r]) = run[r].discrepancies

(* No transaction is lost or told twice: each one is named by at most one  *)
(* item, the ones that no item names pair off with equal reference and     *)
(* amount, and no two transactions reported as missing match each other.   *)
EveryTransactionIsAccounted ==
  \A r \in Runs : Matching(r) =>
    LET found == ToSet(Found(r))
        int == run[r].int  ext == run[r].ext
        Quiet(txns, named) == {n \in 1 .. Len(txns) : n \notin named}
        quietInt == Quiet(int, {f.int : f \in found})
        quietExt == Quiet(ext, {f.ext : f \in found})
        Bag(txns, which) == FoldSet(LAMBDA n, b : b (+) SetToBag({txns[n]}), EmptyBag, which)
    IN /\ \A m, n \in 1 .. Len(Found(r)) : m # n =>
            /\ Found(r)[m].int # Found(r)[n].int \/ Found(r)[m].int = 0
            /\ Found(r)[m].ext # Found(r)[n].ext \/ Found(r)[m].ext = 0
       /\ Bag(int, quietInt) = Bag(ext, quietExt)
       /\ \A f, g \in found : f.type = "MissingExternal" /\ g.type = "MissingInternal" =>
            ~IsMatch(int[f.int], ext[g.ext], run[r].tolerance)

(* The discrepancies of a run add up to the difference of its totals.      *)
DiscrepanciesExplainTotals ==
  \A r \in Runs : Matching(r) =>
    run[r].internalTotal - run[r].externalTotal =
      FoldLeft(LAMBDA sum, f : sum + f.internal - f.external, 0, Found(r))

(* With tolerance zero the order of the lists does not matter: what is     *)
(* reported of transactions with a reference is the difference of two bags.*)
ExactMatchIsBagDifference ==
  \A r \in Runs : Matching(r) /\ run[r].tolerance = 0 =>
    LET int == run[r].int  ext == run[r].ext
        Times(txns, t) == Cardinality({n \in 1 .. Len(txns) : txns[n] = t})
        Missing(type, txns, t) == Cardinality({f \in ToSet(Found(r)) :
          f.type = type /\ t = IF type = "MissingExternal" THEN int[f.int] ELSE ext[f.ext]})
        Surplus(a, b, t) == IF t.ref = NoRef THEN Times(a, t)
                              ELSE IF Times(a, t) > Times(b, t) THEN Times(a, t) - Times(b, t) ELSE 0
    IN \A t \in ToSet(int) \cup ToSet(ext) :
         /\ Missing("MissingExternal", int, t) = Surplus(int, ext, t)
         /\ Missing("MissingInternal", ext, t) = Surplus(ext, int, t)

(* A report is immutable once it is completed (V070:14), and a mismatch    *)
(* that somebody resolved or disputed is never open again, even when its   *)
(* run is still saving items.                                              *)
NothingIsUndone ==
  [][/\ \A r \in Runs : reports[r].status = "completed" => reports'[r] = reports[r]
     /\ \A id \in DOMAIN mismatches :
          /\ id \in DOMAIN mismatches'
          /\ mismatches[id].resolution # "open" => mismatches'[id].resolution # "open"]_vars

(* V070:129: 'kernel_only' is in the kernel and not in the provider's list,*)
(* V070:130: 'provider_only' is in the provider's list and not the kernel's*)
TypeSaysWhoHasIt ==
  \A id \in DOMAIN mismatches :
    /\ mismatches[id].type = "kernel_only" => mismatches[id].int # 0 /\ mismatches[id].ext = 0
    /\ mismatches[id].type = "provider_only" => mismatches[id].ext # 0 /\ mismatches[id].int = 0

(* V070:131: two transactions with one reference and different amounts are *)
(* reported as 'amount_diff', both present.                                *)
DifferentAmountsAreAmountDiff ==
  \A r \in Runs : reports[r].status = "completed" =>
    \A i \in 1 .. Len(run[r].int), k \in 1 .. Len(run[r].ext) :
      LET int == run[r].int[i]  ext == run[r].ext[k]
          Once(txns, t) == Cardinality({n \in 1 .. Len(txns) : txns[n].ref = t.ref}) = 1
      IN /\ int.ref # NoRef /\ int.ref = ext.ref /\ int.amount # ext.amount
         /\ Once(run[r].int, int) /\ Once(run[r].ext, ext)
         => \E id \in DOMAIN mismatches : id[1] = r /\ mismatches[id].type = "amount_diff"
                                          /\ mismatches[id].int = i /\ mismatches[id].ext = k
=============================================================================
