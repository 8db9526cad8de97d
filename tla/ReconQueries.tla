---------------------------- MODULE ReconQueries ----------------------------
(***************************************************************************)
(* What the reconciliation engine answers: the rows of Reconciliation read *)
(* back and converted for the response.  Amounts are whole numbers of      *)
(* fractions of a cent.                                                    *)
(***************************************************************************)
EXTENDS Reconciliation

CONSTANTS
  Fractions,   \* the fractions of a cent
  Rules        \* app.matching_rules, which the engine never writes

\* The answers of the procedures: an error is a status of the call, or for the
\* lists, the report and the bulk request a field of an OK response.
NotFound == [error |-> "NotFound"]
Embedded == [error |-> "NotFound", status |-> "OK"]

-----------------------------------------------------------------------------
(* Rows read back.                                                         *)

\* A run with open items was stored as completed and stays so.
RunStatus(stored) ==
  CASE stored = "processing" -> "Running"
    [] stored = "completed" -> "Completed"
    [] stored = "failed" -> "Failed"

MapRunRow(row) ==
  [status |-> RunStatus(row.status), total |-> row.kernelCount + row.providerCount,
   matched |-> row.matched, discrepancies |-> row.unmatchedKernel + row.unmatchedProvider,
   resolved |-> 0, internalTotal |-> row.kernelTotal, externalTotal |-> row.providerTotal,
   amount |-> Abs(row.kernelTotal - row.providerTotal)]

\* The reverse of MismatchType.
DiscrepancyType(type) ==
  CASE type = "kernel_only" -> "MissingInternal"
    [] type = "provider_only" -> "MissingExternal"
    [] type = "amount_diff" -> "AmountMismatch"

\* Whatever closed an item is read back as an approval.
MapItemRow(row) ==
  [type |-> DiscrepancyType(row.type), int |-> row.int, ext |-> row.ext,
   internal |-> row.kernel, external |-> row.provider, difference |-> row.difference,
   resolved |-> row.resolution = "resolved",
   action |-> CASE row.resolution = "resolved" -> "Approve"
                [] row.resolution = "disputed" -> "Escalate"
                [] row.resolution = "open" -> "None",
   resolvedAt |-> row.resolvedAt]

\* The rule is shown as the caller's, whoever's it is.
MapRuleRow(rule, tenant) ==
  [id |-> rule.id, tenant |-> tenant, tolerance |-> rule.tolerance, seconds |-> rule.days * 86400,
   active |-> rule.status = "active"]

GetRun(r) == IF reports[r] = NoRow THEN NotFound ELSE MapRunRow(reports[r])

\* No status asked for stands for all of them.
ListRuns(statuses) ==
  LET asked == {StoredStatus(s) : s \in statuses}
  IN  {r \in Runs : reports[r] # NoRow /\ (asked = {} \/ reports[r].status \in asked)}

GetItems(r, types, unresolvedOnly) ==
  LET asked == {MismatchType(t) : t \in types}
  IN  {id \in DOMAIN mismatches :
        /\ id[1] = r
        /\ asked = {} \/ mismatches[id].type \in asked
        /\ unresolvedOnly => mismatches[id].resolution # "resolved"}

GetItem(id) ==
  IF id \in DOMAIN mismatches THEN MapItemRow(mismatches[id]) ELSE NotFound

GetRule(n, tenant) ==
  IF n \in DOMAIN Rules THEN MapRuleRow(Rules[n], tenant) ELSE NotFound

ListRules(tenant) == {n \in DOMAIN Rules : Rules[n].tenant = tenant}

-----------------------------------------------------------------------------
(* Responses.                                                              *)

\* to_i64 drops the fraction of a cent.
Cents(amount) == amount \div Fractions

MapRunToProto(rn) ==
  [rn EXCEPT !.internalTotal = Cents(@), !.externalTotal = Cents(@), !.amount = Cents(@)]

MapItemToProto(item) ==
  [item EXCEPT !.internal = Cents(@), !.external = Cents(@), !.difference = Cents(@)]

MapRuleToProto(rule) == [rule EXCEPT !.tolerance = Cents(@)]

GetReconciliationRun(r) ==
  IF GetRun(r) = NotFound THEN NotFound ELSE MapRunToProto(GetRun(r))

ListReconciliationRuns(statuses) ==
  {MapRunToProto(GetRun(r)) : r \in ListRuns(statuses)}

GetReconciliationItems(r, types, unresolvedOnly) ==
  [total |-> Cardinality(GetItems(r, types, unresolvedOnly)),
   items |-> {MapItemToProto(GetItem(id)) : id \in GetItems(r, types, unresolvedOnly)}]

\* The item as it is read after the update of resolve_discrepancy.
ResolvedItem(id) ==
  IF GetItem(id) = NotFound THEN NotFound ELSE MapItemToProto(GetItem(id))

GenerateReport(r) == IF GetRun(r) = NotFound THEN Embedded ELSE [run |-> r]

GetMatchingRule(n, tenant) ==
  IF GetRule(n, tenant) = NotFound THEN NotFound
    ELSE MapRuleToProto(GetRule(n, tenant))

ListMatchingRules(tenant) ==
  {MapRuleToProto(GetRule(n, tenant)) : n \in ListRules(tenant)}

-----------------------------------------------------------------------------
(* Properties.                                                             *)


=============================================================================
