---------------------------- MODULE AuditQueries ----------------------------
(***************************************************************************)
(* The requests that the audit service answers beside its daily run: proof *)
(* of an event, checksum and report of a period, verification of a range,  *)
(* the stream of events and the trail of changes of a record.  They read   *)
(* while events are committed and batches are written.  A request that     *)
(* fails in the database returns an error and changes nothing; it is left  *)
(* out.  Instants are midnights, except that "now" is within the day.      *)
(***************************************************************************)
EXTENDS AuditBatch, Merkle

CONSTANTS
  PayloadOf, TypeOf,    \* of each event
  NoEvent,
  PageSizes, MaxTrail   \* bounds: sizes asked for, changes of the record

VARIABLES
  asked,    \* the event that get_merkle_proof has fetched
  answer,   \* the last answer
  trail,    \* audit.change_log of one record: changed_at of each change
  reader    \* a client that reads the trail page by page

qvars == <<asked, answer, trail, reader>>

\* sha256 of the digest of the payload, of each event in turn.
Leaves(s) == [k \in DOMAIN s |-> <<PayloadOf[s[k]]>>]

RootOf(s) == Root(Leaves(s))

Answer(kind, value) ==
  /\ answer' = [rpc |-> kind, value |-> value]
  /\ UNCHANGED <<vars, asked, trail, reader>>

NotFound == [error |-> "not found"]
InvalidDateRange == [error |-> "invalid argument"]

----------------------------------------------------------------------------
(* get_merkle_proof *)

\* The target is an event, a number or a transaction.  The number is that of
\* any stream, and by a transaction nothing is found.
Targets == (Events \X {"event"}) \cup ({NumberOf[e] : e \in Events} \X {"number"})
             \cup {<<NoEvent, "transaction">>}

FetchEvent(target) ==
  CASE target[2] = "event"  -> {e \in stored : e = target[1]}
    [] target[2] = "number" -> {e \in stored : NumberOf[e] = target[1]}
    [] OTHER                -> {}

AskProof(target) ==
  /\ asked = NoEvent
  /\ \/ FetchEvent(target) = {} /\ Answer("proof", NotFound)
     \/ \E e \in FetchEvent(target) :
          asked' = e /\ UNCHANGED <<vars, answer, trail, reader>>

LeafIndex(s, event) == SelectInSeq(s, LAMBDA e : e = event) - 1

\* The tree is that of the events of the day by now; an event is never
\* deleted, so it has its place among them.
BuildProof ==
  /\ asked # NoEvent
  /\ \E s \in Orderings(DayOf[asked]) :
       LET tree  == BuildMerkleTree(Leaves(s))
           index == LeafIndex(s, asked)
           proof == MerkleProof(tree, Len(s), index)
       IN  answer' = [rpc |-> "proof", value |->
             [event |-> asked, root |-> Last(tree), hashes |-> proof, of |-> s,
              valid |-> VerifyMerkleProof(Leaves(s)[index + 1], index, proof, Last(tree))]]
  /\ asked' = NoEvent
  /\ UNCHANGED <<vars, trail, reader>>

GetMerkleProof == BuildProof \/ \E target \in Targets : AskProof(target)

----------------------------------------------------------------------------
(* Periods *)

Instants == 1 .. LastDay + 1

\* Without dates the period is the day that ends now: today's events and
\* those of yesterday that are later than this time of day.
DefaultPeriods ==
  {{e \in stored : DayOf[e] = today} \cup late :
     late \in SUBSET {e \in stored : DayOf[e] = today - 1}}

EventsBetween(from, to) == {e \in stored : from <= DayOf[e] /\ DayOf[e] < to}

LatestNumber(S) == IF S = {} THEN 0 ELSE Max({NumberOf[e] : e \in S})

Checksum(S) ==
  \E s \in Sorted[S] :
    Answer("checksum", [root |-> RootOf(s), count |-> Len(s), latest |-> LatestNumber(S)])

GetLedgerChecksum ==
  \/ \E from, to \in Instants :
       IF from > to THEN Answer("checksum", InvalidDateRange)
         ELSE Checksum(EventsBetween(from, to))
  \/ \E S \in DefaultPeriods : Checksum(S)

\* No types means all.
OfTypes(S, types) == {e \in S : types = {} \/ TypeOf[e] \in types}

EventTypes == {TypeOf[e] : e \in Events}

\* The tenant is not looked at, and the period may be empty or reversed.
Report(S, types) ==
  \E s \in Sorted[OfTypes(S, types)] :
    Answer("report", [count |-> Len(s), types |-> {TypeOf[e] : e \in ToSet(s)},
                      checksum |-> Leaves(s)])

GetAuditReport ==
  \E types \in SUBSET EventTypes :
    \/ \E from, to \in Instants : Report(EventsBetween(from, to), types)
    \/ \E S \in DefaultPeriods : Report(S, types)

\* The link and checksum of a report are made from its name alone, whether
\* there was such a report or not.
ExportOf(report) == [url |-> report, checksum |-> report]

ExportAuditReport == Answer("export", ExportOf("report"))

Stream(S, types) == \E s \in Sorted[OfTypes(S, types)] : Answer("stream", [events |-> s])

StreamAuditEvents ==
  \E types \in SUBSET EventTypes :
    \/ \E from \in Instants : Stream(EventsBetween(from, LastDay + 1), types)
    \/ \E S \in DefaultPeriods : Stream(S, types)

\* Two constants: one key, which is not that of the signer, and "serving".
GetSigningKeys == Answer("keys", [key |-> "primary"])

Health == Answer("health", [status |-> "serving"])

----------------------------------------------------------------------------
(* verify_batch_integrity *)

\* Mutant: the end of the range is left out.
NumbersBeforeLast(first, last) == {e \in stored : first <= NumberOf[e] /\ NumberOf[e] < last}

\* The events of all streams with a number of the range.
NumbersBetween(first, last) == {e \in stored : first <= NumberOf[e] /\ NumberOf[e] <= last}

VerifyRange(first, last, expected) ==
  IF first > last THEN Answer("verify", InvalidDateRange)
    ELSE \E s \in Sorted[NumbersBetween(first, last)] :
           LET valid == expected = NoRoot \/ RootOf(expected) = RootOf(s)
           IN  Answer("verify",
                 [first |-> first, last |-> last, expected |-> expected, valid |-> valid,
                  total |-> Len(s), verified |-> IF valid THEN Len(s) ELSE 0])

\* An empty root expects nothing.  The roots that a caller can know are those
\* of batches.
VerifyBatchIntegrity ==
  \E first, last \in {NumberOf[e] : e \in Events} :
    \E b \in {NoRoot} \cup {c.hash : c \in UNION {batches[d] : d \in Days}} :
      VerifyRange(first, last, b)

----------------------------------------------------------------------------
(* get_audit_trail *)

\* A change is written by a transaction that began before or after that of
\* another change, or with it.
WriteChange(at) ==
  /\ Len(trail) < MaxTrail
  /\ trail' = Append(trail, at)
  /\ UNCHANGED <<vars, asked, answer, reader>>

NewestFirst ==
  {s \in SetToSeqs(DOMAIN trail) :
     \A m, n \in DOMAIN s : m < n => trail[s[m]] >= trail[s[n]]}

PageLimit(size) == IF size > 0 THEN size ELSE 50

\* Mutant: the token counts pages.
PageByNumber(s, limit, offset) ==
  {s[k] : k \in {n \in DOMAIN s : offset * limit < n /\ n <= (offset + 1) * limit}}

\* LIMIT and OFFSET; the order within a page is left out.
Page(s, limit, offset) == {s[k] : k \in {n \in DOMAIN s : offset < n /\ n <= offset + limit}}

NoReader == [limit |-> 0, offset |-> 0, base |-> {}, got |-> {}, ended |-> FALSE]

BeginTrail(size) ==
  /\ reader = NoReader
  /\ reader' = [NoReader EXCEPT !.limit = PageLimit(size), !.base = DOMAIN trail]
  /\ UNCHANGED <<vars, asked, answer, trail>>

\* fetch_audit_trail for the client's next page.
ReadPage(limit, offset) == {Page(s, limit, offset) : s \in NewestFirst}

\* The client passes the number of changes it has read; a page that is not
\* full is the last one.
GetAuditTrail ==
  /\ reader.limit > 0 /\ ~reader.ended
  /\ \E page \in ReadPage(reader.limit, reader.offset) :
       reader' = [reader EXCEPT !.offset = @ + Cardinality(page), !.got = @ \cup page,
                                !.ended = Cardinality(page) < reader.limit]
  /\ UNCHANGED <<vars, asked, answer, trail>>

----------------------------------------------------------------------------

QueriesInit ==
  /\ asked = NoEvent
  /\ answer = [rpc |-> "none", value |-> NotFound]
  /\ trail = <<>>
  /\ reader = NoReader

Query ==
  \/ GetMerkleProof
  \/ VerifyBatchIntegrity
  \/ ExportAuditReport
  \/ GetSigningKeys
  \/ Health

QueryOfPeriod ==
  \/ GetLedgerChecksum
  \/ GetAuditReport
  \/ StreamAuditEvents

Trail ==
  \/ \E at \in 1 .. MaxTrail : WriteChange(at)
  \/ \E size \in PageSizes : BeginTrail(size)
  \/ GetAuditTrail

----------------------------------------------------------------------------
(* Properties *)

\* The proof of an event verifies at every place of a tree of any size, its
\* root is that of the reference tree, the session reconstructor would give
\* the same proof, and a batch of the day over the same events has this root,
\* although it was read at another time and perhaps by another instance.
\* (Batches over several streams are left out: their order is not fixed.)
ProofsVerify ==
  answer.rpc = "proof" /\ answer.value # NotFound =>
    LET p == answer.value
        index == LeafIndex(p.of, p.event)
    IN  /\ p.valid
        /\ p.root = ReferenceRoot(Leaves(p.of))
        /\ ComputeMerkleProof(Leaves(p.of), index) = [root |-> p.root, siblings |-> p.hashes]
        /\ \A b \in batches[DayOf[p.event]] :
             ToSet(b.hash) = ToSet(p.of) /\ Cardinality(Sorted[ToSet(p.of)]) = 1 =>
               RootOf(b.hash) = p.root

\* The batch of a day can be verified by the numbers of its first and last
\* event, if no event of another batch or stream has a number between them.
BatchVerifies ==
  answer.rpc = "verify" /\ answer.value # InvalidDateRange =>
    LET v == answer.value
        covered == ToSet(v.expected)
    IN  v.expected # NoRoot
          /\ covered = {e \in stored : v.first <= NumberOf[e] /\ NumberOf[e] <= v.last}
          /\ Cardinality(Sorted[covered]) = 1
          => v.valid /\ v.verified = Cardinality(covered)

\* A client that reads the trail of a record page by page, while changes are
\* written, sees every change that was there when it began; of changes of one
\* transaction, which have the same time, nothing is said.
PagesMissNothing ==
  reader.ended =>
    \A n \in reader.base \ reader.got : \E k \in DOMAIN trail \ {n} : trail[k] = trail[n]

=============================================================================
