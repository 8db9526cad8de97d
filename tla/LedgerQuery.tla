---------------------------- MODULE LedgerQuery -----------------------------
(***************************************************************************)
(* The ledger query service.  Its read model sets the tenant of the        *)
(* connection and then answers with a constant: no row is ever read.  A    *)
(* request tells apart whether its UUIDs parse and its dates.  A failure of*)
(* the read model is embedded in an OK response.                           *)
(***************************************************************************)
EXTENDS Integers, FiniteSets

CONSTANTS Days, NoDate

VARIABLE answer    \* the last request, whether the tenant was set, the reply

Requests == [ids : BOOLEAN, from : Days \union {NoDate},
             to : Days \union {NoDate}]

----------------------------------------------------------------------------
(* The read model *)

Err(e) == [err |-> e, data |-> "None"]
Ok(d)  == [err |-> "None", data |-> d]


\* set_tenant(..).await? before the result of the method.
SetTenant(up, result) == IF up THEN result ELSE Err("DatabaseError")

Ranged(q, result) == IF q.from > q.to THEN Err("InvalidDateRange") ELSE result

ReadAccountBalance(up) == SetTenant(up, Err("AccountNotFound"))
ReadAccountStatement(q, up) == SetTenant(up, Ranged(q, Ok("Empty")))
ReadTransactionById(up) == SetTenant(up, Err("TransactionNotFound"))
ReadListTransactions(q, up) == SetTenant(up, Ranged(q, Ok("Empty")))
ReadSearchTransactions(up) == SetTenant(up, Ok("Empty"))
ReadAccountSummary(up) == SetTenant(up, Ok("Zero"))
ReadMovementLegs(up) == SetTenant(up, Ok("Empty"))
ReadVerifyDoubleEntry(up) == SetTenant(up, Ok("Balanced"))
ReadVirtualAccount(up) == SetTenant(up, Err("VirtualAccountNotFound"))
ReadListVirtualAccounts(up) == SetTenant(up, Ok("Empty"))
ReadVirtualAccountSummary(up) == SetTenant(up, Ok("Empty"))
ReadLiquidityPosition(up) == SetTenant(up, Err("LiquidityPositionNotFound"))
ReadListLiquidityPositions(up) == SetTenant(up, Ok("Empty"))
ReadLiquiditySummary(up) == SetTenant(up, Ok("Empty"))
ReadExpiringPositions(up) == SetTenant(up, Ok("Empty"))
ReadSettlementInstruction(up) == SetTenant(up, Err("SettlementNotFound"))
ReadListSettlementInstructions(up) == SetTenant(up, Ok("Empty"))
ReadPendingSettlements(up) == SetTenant(up, Ok("Empty"))
ReadSettlementSummary(up) == SetTenant(up, Ok("Empty"))
ReadSuspenseItem(up) == SetTenant(up, Err("SuspenseItemNotFound"))
ReadListSuspenseItems(up) == SetTenant(up, Ok("Empty"))
ReadSuspenseAgingReport(up) == SetTenant(up, Ok("Empty"))
ReadSuspenseActivityLog(up) == SetTenant(up, Ok("Empty"))
ReadCoaEntry(up) == SetTenant(up, Err("CoaEntryNotFound"))
ReadListCoaEntries(up) == SetTenant(up, Ok("Empty"))
ReadPeriodEndBalance(up) == SetTenant(up, Err("PeriodEndBalanceNotFound"))
ReadListPeriodEndBalances(up) == SetTenant(up, Ok("Empty"))

----------------------------------------------------------------------------
(* The handler, where it does more than pass the call on *)

\* A rebuild is the reading of the balance, and the balance is never found.
RebuildView(up) ==
  LET balance == ReadAccountBalance(up)
  IN  IF balance.err = "None" THEN Ok("Rebuilt") ELSE balance

VirtualAccountTransactions(q, up) == ReadListTransactions(q, up)

----------------------------------------------------------------------------
(* The gRPC methods *)

MapError(e) ==
  CASE e = "None" -> "None"
    [] e = "DatabaseError" -> "Internal"
    [] e = "InvalidDateRange" -> "InvalidArgument"
    [] OTHER -> "NotFound"

\* The response that carries the result of the handler or its error.
Respond(result) ==
  [status |-> "OK", error |-> MapError(result.err), data |-> result.data]

Refused == [status |-> "InvalidArgument", error |-> "None", data |-> "None"]

\* parse_uuid(..)? of every UUID of the request, before anything else.
ParseUuid(q, result) == IF q.ids THEN Respond(result) ELSE Refused

\* prost_to_chrono(..).ok_or_else(..)? of both dates.
Dated(q, reply) == IF NoDate \in {q.from, q.to} THEN Refused ELSE reply

GetAccountBalance(q, up) == ParseUuid(q, ReadAccountBalance(up))
GetAccountStatement(q, up) ==
  Dated(q, ParseUuid(q, ReadAccountStatement(q, up)))
GetTransactionById(q, up) == ParseUuid(q, ReadTransactionById(up))
ListTransactions(q, up) == Dated(q, ParseUuid(q, ReadListTransactions(q, up)))
SearchTransactions(q, up) == ParseUuid(q, ReadSearchTransactions(up))
GetAccountSummary(q, up) == ParseUuid(q, ReadAccountSummary(up))
RebuildAccountView(q, up) == ParseUuid(q, RebuildView(up))
GetMovementLegs(q, up) == ParseUuid(q, ReadMovementLegs(up))
VerifyDoubleEntry(q, up) == ParseUuid(q, ReadVerifyDoubleEntry(up))
GetVirtualAccount(q, up) == ParseUuid(q, ReadVirtualAccount(up))
ListVirtualAccounts(q, up) == ParseUuid(q, ReadListVirtualAccounts(up))
GetVirtualAccountSummary(q, up) == ParseUuid(q, ReadVirtualAccountSummary(up))
GetVirtualAccountTransactions(q, up) ==
  Dated(q, ParseUuid(q, VirtualAccountTransactions(q, up)))
GetLiquidityPosition(q, up) == ParseUuid(q, ReadLiquidityPosition(up))
ListLiquidityPositions(q, up) == ParseUuid(q, ReadListLiquidityPositions(up))
GetLiquiditySummary(q, up) == ParseUuid(q, ReadLiquiditySummary(up))
GetExpiringPositions(q, up) == ParseUuid(q, ReadExpiringPositions(up))
GetSettlementInstruction(q, up) == ParseUuid(q, ReadSettlementInstruction(up))
ListSettlementInstructions(q, up) ==
  Dated(q, ParseUuid(q, ReadListSettlementInstructions(up)))
GetPendingSettlements(q, up) == ParseUuid(q, ReadPendingSettlements(up))
GetSettlementSummary(q, up) ==
  Dated(q, ParseUuid(q, ReadSettlementSummary(up)))
GetSuspenseItem(q, up) == ParseUuid(q, ReadSuspenseItem(up))
ListSuspenseItems(q, up) == ParseUuid(q, ReadListSuspenseItems(up))
GetSuspenseAgingReport(q, up) == ParseUuid(q, ReadSuspenseAgingReport(up))
GetSuspenseActivityLog(q, up) == ParseUuid(q, ReadSuspenseActivityLog(up))
GetCoaEntry(q, up) == ParseUuid(q, ReadCoaEntry(up))
ListCoaEntries(q, up) == ParseUuid(q, ReadListCoaEntries(up))
GetPeriodEndBalance(q, up) == ParseUuid(q, ReadPeriodEndBalance(up))
ListPeriodEndBalances(q, up) == ParseUuid(q, ReadListPeriodEndBalances(up))
Health == [status |-> "OK", error |-> "None", data |-> "Serving"]

Replies(q, up) ==
  [GetAccountBalance |-> GetAccountBalance(q, up),
   GetAccountStatement |-> GetAccountStatement(q, up),
   GetTransactionById |-> GetTransactionById(q, up),
   ListTransactions |-> ListTransactions(q, up),
   SearchTransactions |-> SearchTransactions(q, up),
   GetAccountSummary |-> GetAccountSummary(q, up),
   RebuildAccountView |-> RebuildAccountView(q, up),
   GetMovementLegs |-> GetMovementLegs(q, up),
   VerifyDoubleEntry |-> VerifyDoubleEntry(q, up),
   GetVirtualAccount |-> GetVirtualAccount(q, up),
   ListVirtualAccounts |-> ListVirtualAccounts(q, up),
   GetVirtualAccountSummary |-> GetVirtualAccountSummary(q, up),
   GetVirtualAccountTransactions |-> GetVirtualAccountTransactions(q, up),
   GetLiquidityPosition |-> GetLiquidityPosition(q, up),
   ListLiquidityPositions |-> ListLiquidityPositions(q, up),
   GetLiquiditySummary |-> GetLiquiditySummary(q, up),
   GetExpiringPositions |-> GetExpiringPositions(q, up),
   GetSettlementInstruction |-> GetSettlementInstruction(q, up),
   ListSettlementInstructions |-> ListSettlementInstructions(q, up),
   GetPendingSettlements |-> GetPendingSettlements(q, up),
   GetSettlementSummary |-> GetSettlementSummary(q, up),
   GetSuspenseItem |-> GetSuspenseItem(q, up),
   ListSuspenseItems |-> ListSuspenseItems(q, up),
   GetSuspenseAgingReport |-> GetSuspenseAgingReport(q, up),
   GetSuspenseActivityLog |-> GetSuspenseActivityLog(q, up),
   GetCoaEntry |-> GetCoaEntry(q, up),
   ListCoaEntries |-> ListCoaEntries(q, up),
   GetPeriodEndBalance |-> GetPeriodEndBalance(q, up),
   ListPeriodEndBalances |-> ListPeriodEndBalances(q, up)]

NoAnswer == [method |-> "None"]

QueryInit == answer = NoAnswer

\* A request; the tenant of the connection can be set or not.
Serve ==
  \E q \in Requests, up \in BOOLEAN :
    \E m \in DOMAIN Replies(q, up) :
      answer' = [method |-> m, request |-> q, up |-> up,
                 reply |-> Replies(q, up)[m]]

\* Health is answered without the database.
ServeHealth == answer' = [method |-> "Health", up |-> FALSE, reply |-> Health]

QueryNext == Serve \/ ServeHealth

----------------------------------------------------------------------------
(* Properties *)


=============================================================================
