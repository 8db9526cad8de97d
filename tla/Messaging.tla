----------------------------- MODULE Messaging -----------------------------
(***************************************************************************)
(* The messaging engine: requests that send one message or a batch, ask    *)
(* for the status of a message, list messages and read templates.  A       *)
(* message is first handed to a provider and then written to the delivery  *)
(* log.  The log is a map in the memory of the process; the database only  *)
(* gets the statement that sets the tenant, whose failure fails the write. *)
(* The adapters of the providers accept every message.                     *)
(***************************************************************************)
EXTENDS Integers, Sequences, FiniteSets, SequencesExt

CONSTANTS
  Clients, TenantOf,                 \* callers, and the tenant each one names
  Addresses, PrefixOf,               \* phone numbers and e-mail addresses, their first five digits
  Codes, SmsCodes, WhatsAppCodes,    \* template codes, and the active rows of the two tables
  BatchItems,                        \* what a batch is put together from
  MaxBatch, MaxMessages, MaxFailures, MaxCrashes   \* bounds

ASSUME MessagingAssumption ==
  /\ MaxBatch \in Nat /\ MaxMessages \in Nat /\ MaxFailures \in Nat /\ MaxCrashes \in Nat
  /\ SmsCodes \subseteq Codes /\ WhatsAppCodes \subseteq Codes

VARIABLES
  accepted,    \* what the providers have accepted: [ref, provider, id, to, body]
  log,         \* the delivery log: a function from message ids to attempts
  pc, call,    \* of each client: its step, and its request with the messages made of it
  answer,      \* the last response of each client
  issued,      \* message ids issued
  failures, crashes,
  everLogged,  \* history: the ids the log has held
  confirmed    \* history: the ids reported as sent since the process started

vars == <<accepted, log, pc, call, answer, issued, failures, crashes, everLogged, confirmed>>

----------------------------------------------------------------------------
(* Conversions and routing *)

Channels == {"Sms", "WhatsApp", "Email", "Push"}
None == "None"

FromProtoChannel(n) == IF n \in 1 .. 4 THEN <<"Sms", "WhatsApp", "Email", "Push">>[n] ELSE None

\* The adapters: each accepts every message with a new reference, and has one
\* answer to the question for a status.
EcoCashAdapter == [name |-> "EcoCash", status |-> "Delivered"]
OneMoneyAdapter == [name |-> "OneMoney", status |-> "Delivered"]
TeleCashAdapter == [name |-> "TeleCash", status |-> "Sent"]

\* In the order of main.
Adapters == <<EcoCashAdapter, OneMoneyAdapter, TeleCashAdapter>>

RouteProvider(to) ==
  CASE PrefixOf[to] \in {"26377", "26378"} -> "EcoCash"
    [] PrefixOf[to] \in {"26371", "26372"} -> "OneMoney"
    [] PrefixOf[to] \in {"26373", "26374"} -> "TeleCash"
    [] OTHER -> None

Names == {Adapters[k].name : k \in DOMAIN Adapters}

\* Every provider has its adapter, so the search fails only without a route.
SelectProvider(to) == IF RouteProvider(to) \in Names THEN RouteProvider(to) ELSE None

\* Mutant: e-mail goes through the last adapter.
EmailProviderLast == Last(Adapters).name

\* E-mail takes the first adapter, whatever the address.
EmailProvider == Head(Adapters).name

ProviderStatus(provider) == (CHOOSE a \in ToSet(Adapters) : a.name = provider).status

\* grpc status of a MessagingError.
StatusCode(error) ==
  CASE error = "InvalidPhone" -> "InvalidArgument"
    [] error = "TemplateNotFound" -> "NotFound"
    [] OTHER -> "Internal"

----------------------------------------------------------------------------
(* Templates *)

\* get_template: the SMS table, then the WhatsApp table.  Without a database
\* the request fails; the map behind the tables is never filled.
GetTemplate(code, dbUp) ==
  CASE ~dbUp -> [error |-> "Database"]
    [] code \in SmsCodes -> [error |-> None, channel |-> "Sms", body |-> <<"Sms", code>>]
    [] code \in WhatsAppCodes -> [error |-> None, channel |-> "WhatsApp", body |-> <<"WhatsApp", code>>]
    [] OTHER -> [error |-> "TemplateNotFound"]

\* list_templates of one channel, or of both for a channel that is not known.
ListTemplates(channel) ==
  {<<"Sms", code>> : code \in IF channel \in {None, "Sms"} THEN SmsCodes ELSE {}} \union
  {<<"WhatsApp", code>> : code \in IF channel \in {None, "WhatsApp"} THEN WhatsAppCodes ELSE {}}

Plain == <<"request">>     \* the text of the request itself

\* The body of a WhatsApp message: every failure of the template is hidden.
WhatsAppBody(code, dbUp) ==
  IF code = None \/ GetTemplate(code, dbUp).error # None THEN Plain ELSE GetTemplate(code, dbUp).body

----------------------------------------------------------------------------

NoCall == [rpc |-> None, msgs |-> <<>>, at |-> 1, go_on |-> FALSE, good |-> 0, errors |-> {}, seen |-> {}]
Reply(code, body) == [code |-> code, body |-> body]

Init ==
  /\ accepted = {} /\ log = <<>>
  /\ pc = [c \in Clients |-> "idle"]
  /\ call = [c \in Clients |-> NoCall]
  /\ answer = [c \in Clients |-> Reply(None, {})]
  /\ issued = 0 /\ failures = 0 /\ crashes = 0
  /\ everLogged = {} /\ confirmed = {}

\* A statement on the database succeeds or fails.
Database(up) == up \/ failures < MaxFailures

Counted(up) == failures' = IF up THEN failures ELSE failures + 1

Answer(c, code, body) == answer' = [answer EXCEPT ![c] = Reply(code, body)]

\* The messages of a request get their ids, and the first one is sent next.
Begin(c, rpc, msgs, go_on) ==
  /\ pc[c] = "idle" /\ issued + Len(msgs) <= MaxMessages
  /\ issued' = issued + Len(msgs)
  /\ call' = [call EXCEPT ![c] = [NoCall EXCEPT !.rpc = rpc, !.go_on = go_on,
       !.msgs = [k \in DOMAIN msgs |->
         [id |-> issued + k, to |-> msgs[k].to, channel |-> msgs[k].channel, body |-> msgs[k].body]]]]
  /\ UNCHANGED <<accepted, log, crashes, everLogged, confirmed>>

\* An id in the request does not parse.
BadRequest(c) ==
  /\ pc[c] = "idle"
  /\ Answer(c, "InvalidArgument", {})
  /\ call' = [call EXCEPT ![c] = NoCall]
  /\ UNCHANGED <<accepted, log, pc, issued, failures, crashes, everLogged, confirmed>>

One(to, channel, body) == <<[to |-> to, channel |-> channel, body |-> body]>>

SendSms(c, to) ==
  /\ Begin(c, "one", One(to, "Sms", Plain), FALSE)
  /\ pc' = [pc EXCEPT ![c] = "send"] /\ UNCHANGED <<answer, failures>>

SendWhatsApp(c, to, code, dbUp) ==
  /\ Database(dbUp) /\ (code = None => dbUp)
  /\ Begin(c, "one", One(to, "WhatsApp", WhatsAppBody(code, dbUp)), FALSE)
  /\ pc' = [pc EXCEPT ![c] = "send"] /\ Counted(dbUp) /\ UNCHANGED answer

SendEmail(c, to) ==
  /\ Begin(c, "one", One(to, "Email", Plain), FALSE)
  /\ pc' = [pc EXCEPT ![c] = "send"] /\ UNCHANGED <<answer, failures>>

\* An unknown channel of an item is taken for SMS.
SendBatchMessages(c, items, go_on) ==
  LET msgs == [k \in DOMAIN items |->
        LET channel == FromProtoChannel(items[k].channel)
        IN  [to |-> items[k].to, body |-> Plain, channel |-> IF channel = None THEN "Sms" ELSE channel]]
  IN  /\ Begin(c, "batch", msgs, go_on)
      /\ IF items = <<>>
           THEN Answer(c, "OK", [good |-> 0, failed |-> 0, total |-> 0, errors |-> {}]) /\ UNCHANGED pc
           ELSE pc' = [pc EXCEPT ![c] = "send"] /\ UNCHANGED answer
      /\ UNCHANGED failures

----------------------------------------------------------------------------
(* Sending one message, of a single request or of a batch *)

Current(c) == call[c].msgs[call[c].at]

\* Mutant: an error does not end a batch that was to stop there.
ConcludeAll(c, error) ==
  LET done == IF error = None THEN [call[c] EXCEPT !.good = @ + 1]
                              ELSE [call[c] EXCEPT !.errors = @ \union {call[c].at}]
      ended == done.at = Len(done.msgs)
  IN  /\ call' = [call EXCEPT ![c] = IF ended THEN done ELSE [done EXCEPT !.at = @ + 1]]
      /\ pc' = [pc EXCEPT ![c] = IF ended THEN "idle" ELSE "send"]
      /\ IF ~ended THEN UNCHANGED answer
         ELSE IF done.rpc = "one"
           THEN Answer(c, IF error = None THEN "OK" ELSE StatusCode(error), Current(c).id)
           ELSE Answer(c, "OK", [good |-> done.good, failed |-> Cardinality(done.errors),
                                 total |-> done.good + Cardinality(done.errors), errors |-> done.errors])

\* A message is done.  The request is answered after its last message, and a
\* batch after its first error unless it was to go on.
Conclude(c, error) ==
  LET done == IF error = None THEN [call[c] EXCEPT !.good = @ + 1]
                              ELSE [call[c] EXCEPT !.errors = @ \union {call[c].at}]
      ended == done.at = Len(done.msgs) \/ (error # None /\ ~done.go_on)
  IN  /\ call' = [call EXCEPT ![c] = IF ended THEN done ELSE [done EXCEPT !.at = @ + 1]]
      /\ pc' = [pc EXCEPT ![c] = IF ended THEN "idle" ELSE "send"]
      /\ IF ~ended THEN UNCHANGED answer
         ELSE IF done.rpc = "one"
           THEN Answer(c, IF error = None THEN "OK" ELSE StatusCode(error), Current(c).id)
           ELSE Answer(c, "OK", [good |-> done.good, failed |-> Cardinality(done.errors),
                                 total |-> done.good + Cardinality(done.errors), errors |-> done.errors])

\* A push message of a batch is counted as a success and not sent.
SkipPush(c) ==
  /\ pc[c] = "send" /\ Current(c).channel = "Push"
  /\ Conclude(c, None)
  /\ UNCHANGED <<accepted, log, issued, failures, crashes, everLogged, confirmed>>

ProviderOf(msg) == IF msg.channel = "Email" THEN EmailProvider ELSE SelectProvider(msg.to)

Refuse(c) ==
  /\ pc[c] = "send" /\ Current(c).channel # "Push" /\ ProviderOf(Current(c)) = None
  /\ Conclude(c, "InvalidPhone")
  /\ UNCHANGED <<accepted, log, issued, failures, crashes, everLogged, confirmed>>

\* provider.send_sms: the adapter accepts and returns a new reference.
HandOver(c) ==
  /\ pc[c] = "send" /\ Current(c).channel # "Push" /\ ProviderOf(Current(c)) # None
  /\ accepted' = accepted \union
       {[ref |-> Cardinality(accepted) + 1, provider |-> ProviderOf(Current(c)),
         id |-> Current(c).id, to |-> Current(c).to, body |-> Current(c).body]}
  /\ pc' = [pc EXCEPT ![c] = "log"]
  /\ UNCHANGED <<log, call, answer, issued, failures, crashes, everLogged, confirmed>>

\* The provider written to the log: by the address, and for e-mail by name.
RecordedProvider(msg) == IF msg.channel = "Email" THEN "EcoCash" ELSE RouteProvider(msg.to)

Receipt(id) == CHOOSE a \in accepted : a.id = id

Attempt(c) ==
  LET msg == Current(c)
  IN  [tenant |-> TenantOf[c], to |-> msg.to, channel |-> msg.channel, status |-> "Sent",
       provider |-> RecordedProvider(msg), ref |-> Receipt(msg.id).ref]


\* log_attempt: without the database nothing is written, and the caller gets
\* an error for a message that the provider has accepted.
LogAttempt(c, up) ==
  /\ pc[c] = "log" /\ Database(up) /\ Counted(up)
  /\ log' = IF up THEN (Current(c).id :> Attempt(c)) @@ log ELSE log
  /\ everLogged' = IF up THEN everLogged \union {Current(c).id} ELSE everLogged
  /\ confirmed' = IF up THEN confirmed \union {Current(c).id} ELSE confirmed
  /\ Conclude(c, IF up THEN None ELSE "Database")
  /\ UNCHANGED <<accepted, issued, crashes>>

----------------------------------------------------------------------------
(* Queries *)

Query(c) == [NoCall EXCEPT !.rpc = "query"]

\* get_message_status reads a copy of the attempt.
GetMessageStatus(c, id) ==
  /\ pc[c] = "idle" /\ id \in 1 .. issued
  /\ IF id \notin DOMAIN log
       THEN Answer(c, "Internal", {}) /\ call' = [call EXCEPT ![c] = Query(c)] /\ UNCHANGED pc
       ELSE /\ call' = [call EXCEPT ![c] = [Query(c) EXCEPT !.at = id, !.seen = log[id]]]
            /\ pc' = [pc EXCEPT ![c] = "ask"] /\ UNCHANGED answer
  /\ UNCHANGED <<accepted, log, issued, failures, crashes, everLogged, confirmed>>

\* The provider that is asked: the one of the address.
AskedProvider(attempt) == SelectProvider(attempt.to)

\* The provider is asked, if the address has one, and a status that differs
\* from the copy's is written over the attempt.
RefreshStatus(c, up) ==
  LET seen == call[c].seen
      status == IF AskedProvider(seen) = None THEN seen.status ELSE ProviderStatus(AskedProvider(seen))
  IN  /\ pc[c] = "ask" /\ Database(up) /\ (status = seen.status => up)
      /\ log' = IF status # seen.status /\ up
                  THEN (call[c].at :> [seen EXCEPT !.status = status]) @@ log ELSE log
      /\ Counted(up)
      /\ Answer(c, IF up THEN "OK" ELSE "Internal", IF up THEN {<<call[c].at, status>>} ELSE {})
      /\ pc' = [pc EXCEPT ![c] = "idle"]
      /\ UNCHANGED <<accepted, call, issued, crashes, everLogged, confirmed>>

\* list_attempts: an empty set of channels, statuses or addresses is no filter.
ListAttempts(tenant, filter) ==
  {id \in DOMAIN log :
     /\ log[id].tenant = tenant
     /\ filter.channels = {} \/ log[id].channel \in filter.channels
     /\ filter.statuses = {} \/ log[id].status \in filter.statuses
     /\ filter.to = {} \/ log[id].to \in filter.to}

\* Every message of a list is shown as queued.
Listed(ids) == {<<id, "Queued">> : id \in ids}

\* list_messages answers one page.  A channel of the filter that is not known
\* is dropped from it.
ListMessages(c, channel, up) ==
  LET known == FromProtoChannel(channel)
      filter == [channels |-> IF known = None THEN {} ELSE {known}, statuses |-> {}, to |-> {}]
  IN  /\ pc[c] = "idle" /\ Database(up) /\ Counted(up)
      /\ IF up THEN Answer(c, "OK", Listed(ListAttempts(TenantOf[c], filter)))
               ELSE Answer(c, "Internal", {})
      /\ call' = [call EXCEPT ![c] = Query(c)]
      /\ UNCHANGED <<accepted, log, pc, issued, crashes, everLogged, confirmed>>

GetMessageTemplate(c, code, up) ==
  /\ pc[c] = "idle" /\ Database(up) /\ Counted(up)
  /\ LET found == GetTemplate(code, up)
     IN  IF found.error = None THEN Answer(c, "OK", {found.body})
                               ELSE Answer(c, StatusCode(found.error), {})
  /\ call' = [call EXCEPT ![c] = Query(c)]
  /\ UNCHANGED <<accepted, log, pc, issued, crashes, everLogged, confirmed>>

ListMessageTemplates(c, channel, up) ==
  /\ pc[c] = "idle" /\ Database(up) /\ Counted(up)
  /\ IF up THEN Answer(c, "OK", ListTemplates(FromProtoChannel(channel))) ELSE Answer(c, "Internal", {})
  /\ call' = [call EXCEPT ![c] = Query(c)]
  /\ UNCHANGED <<accepted, log, pc, issued, crashes, everLogged, confirmed>>

----------------------------------------------------------------------------

\* The process stops and is started again: the log is empty, and the clients
\* of the requests under way get no answer.
Crash ==
  /\ crashes < MaxCrashes /\ crashes' = crashes + 1
  /\ log' = <<>> /\ confirmed' = {}
  /\ pc' = [c \in Clients |-> "idle"]
  /\ call' = [c \in Clients |-> IF pc[c] = "idle" THEN call[c] ELSE NoCall]
  /\ answer' = [c \in Clients |-> IF pc[c] = "idle" THEN answer[c] ELSE Reply("Unavailable", {})]
  /\ UNCHANGED <<accepted, issued, failures, everLogged>>

SendOne(c) ==
  \/ \E to \in Addresses : SendSms(c, to) \/ SendEmail(c, to)
  \/ \E to \in Addresses, code \in Codes \union {None}, up \in BOOLEAN : SendWhatsApp(c, to, code, up)

SendBatch(c) ==
  \E items \in SeqOf(BatchItems, MaxBatch), go_on \in BOOLEAN : SendBatchMessages(c, items, go_on)

Ask(c) ==
  \/ \E id \in 1 .. MaxMessages : GetMessageStatus(c, id)
  \/ \E channel \in 0 .. 4, up \in BOOLEAN : ListMessages(c, channel, up) \/ ListMessageTemplates(c, channel, up)
  \/ \E code \in Codes, up \in BOOLEAN : GetMessageTemplate(c, code, up)

Work(c) ==
  \/ SkipPush(c) \/ Refuse(c) \/ HandOver(c)
  \/ \E up \in BOOLEAN : LogAttempt(c, up) \/ RefreshStatus(c, up)

Next == Crash \/ \E c \in Clients : BadRequest(c) \/ SendOne(c) \/ SendBatch(c) \/ Ask(c) \/ Work(c)

Spec == Init /\ [][Next]_vars

----------------------------------------------------------------------------
(* Properties *)

Sent(id) == \E a \in accepted : a.id = id

\* What the log says of a message is what happened: the provider it names has
\* accepted that message for that address under that reference.  For e-mail
\* the provider is a constant in the handler and the order of the adapters is
\* fixed in main; the two have to agree.
RecordedIsAccepted ==
  \A id \in DOMAIN log :
    \E a \in accepted : /\ a.id = id /\ a.to = log[id].to
                        /\ a.ref = log[id].ref /\ a.provider = log[id].provider


\* The counts of a batch tell what became of its messages: the successes are
\* those that were logged and the push messages, which nobody sends; a failure
\* was never logged (though it may have been sent); and nothing after the
\* point where the batch stopped was handed to a provider.
BatchCountsAreTrue ==
  \A c \in Clients : call[c].rpc = "batch" /\ pc[c] = "idle" =>
    LET told == answer[c].body
        Done(k) == call[c].msgs[k].channel = "Push" \/ call[c].msgs[k].id \in everLogged
    IN  /\ told.good = Cardinality({k \in 1 .. told.total : Done(k)})
        /\ told.errors = {k \in 1 .. told.total : ~Done(k)}
        /\ told.total < Len(call[c].msgs) => ~call[c].go_on /\ told.failed = 1
        /\ ~call[c].go_on => told.errors \subseteq {told.total}
        /\ \A k \in told.total + 1 .. Len(call[c].msgs) : ~Sent(call[c].msgs[k].id)

\* The provider asked for the status of a text message is the one that gave
\* the reference it is asked with.
AskedWhereSent ==
  \A c \in Clients : pc[c] = "ask" /\ call[c].seen.channel # "Email" =>
    \E a \in accepted : a.ref = call[c].seen.ref /\ a.provider = AskedProvider(call[c].seen)

=============================================================================
