------------------------ MODULE SessionReconstructor ------------------------
(***************************************************************************)
(* Rebuilding the state of one session from its events.  The orchestrator  *)
(* writes the events; replicas of the reconstructor read and fold them and *)
(* keep the result in a cache of their own, without being told of later    *)
(* events.  A hash is the tuple of what it is computed from.               *)
(***************************************************************************)
EXTENDS Integers, SequencesExt

CONSTANTS
  Types,       \* event types written to the session
  Instances,   \* replicas of the reconstructor
  Requests,    \* ReconstructSession calls
  Limits,      \* values of max_events
  MaxEvents,   \* bound: events written
  MayRace,     \* whether two writers may take the same version
  NoInstance

ASSUME ReconstructorAssumption ==
  /\ Limits \subseteq Nat \ {0} /\ MaxEvents \in Nat
  /\ MayRace \in BOOLEAN /\ NoInstance \notin Instances

VARIABLES
  log,      \* the rows of the session, in commit order
  cache,    \* of each instance: at most one entry, as a set
  pc, at,   \* of each request: its step and the instance that serves it
  limit,    \* max_events of the request
  rows,     \* what it has fetched
  answer    \* its answers, as a set of at most one

vars == <<log, cache, pc, at, limit, rows, answer>>

NoHash == <<>>

Latest == IF log = <<>> THEN 0 ELSE Last(log).version

\* The writer's hash: previous hash, payload and time in nanoseconds.
WriterHash(prev, n) == <<prev, <<"payload", n>>, <<"UnixNano", n>>>>

\* compute_event_hash
ComputeEventHash(prev, type, n) ==
  <<prev, type, <<"payload", n>>, <<"Rfc3339", n>>>>

\* AppendTx of the orchestrator.  A writer that races another one links its
\* event to the same predecessor and takes the same version.
AppendEvent(type, race) ==
  LET prev == IF race THEN Last(log).prev
                ELSE IF log = <<>> THEN NoHash ELSE Last(log).hash
      n    == Len(log) + 1
  IN  /\ n <= MaxEvents
      /\ race => MayRace /\ log # <<>>
      /\ log' = Append(log, [type |-> type, prev |-> prev, id |-> n,
                             version |-> IF race THEN Latest ELSE Latest + 1,
                             hash |-> WriterHash(prev, n)])
      /\ UNCHANGED <<cache, pc, at, limit, rows, answer>>

----------------------------------------------------------------------------
(* The fold *)

NoState == [status |-> "none", payment |-> "none"]

\* What an event does to the map of session variables; the variables that
\* only copy the payload are left out.
Apply(state, type) ==
  CASE type = "SessionCreated"   -> [state EXCEPT !.status = "active"]
    [] type = "SessionEnded"     -> [state EXCEPT !.status = "ended"]
    [] type = "PaymentInitiated" -> [state EXCEPT !.payment = "initiated"]
    [] type = "PaymentConfirmed" -> [state EXCEPT !.payment = "confirmed"]
    [] OTHER                     -> state

Known == {"SessionCreated", "MenuNavigated", "InputReceived",
          "PaymentInitiated", "PaymentConfirmed", "SessionEnded"}

Fold(types) == FoldLeft(Apply, NoState, types)

TypesOf(events) == [n \in DOMAIN events |-> events[n].type]

\* The versions the fold expects: 1, 2, 3, ...
InSequence(events) == \A n \in DOMAIN events : events[n].version = n

\* Mutant: the fold does not look at versions.
FoldSessionStateUnordered(events) ==
  IF \A n \in DOMAIN events : events[n].type \in Known
    THEN {Fold(TypesOf(events))} ELSE {}

\* fold_session_state: the state, or no result for an error.
FoldSessionState(events) ==
  IF InSequence(events) /\ \A n \in DOMAIN events : events[n].type \in Known
    THEN {Fold(TypesOf(events))} ELSE {}

\* verify_integrity: recompute the chain from the first event on.
VerifyIntegrity(events) ==
  /\ InSequence(events)
  /\ \A n \in DOMAIN events :
       /\ n > 1 => events[n].prev = events[n - 1].hash
       /\ events[n].hash = ComputeEventHash(events[n].prev, events[n].type, events[n].id)

----------------------------------------------------------------------------
(* ReconstructSession *)

Init ==
  /\ log = <<>>
  /\ cache = [i \in Instances |-> {}]
  /\ pc = [r \in Requests |-> "idle"]
  /\ at = [r \in Requests |-> NoInstance]
  /\ limit = [r \in Requests |-> 0]
  /\ rows = [r \in Requests |-> <<>>]
  /\ answer = [r \in Requests |-> {}]

\* A hit is answered from the cache, with the number of events as version.
CacheGet(r, i, k) ==
  /\ pc[r] = "idle"
  /\ at' = [at EXCEPT ![r] = i]
  /\ limit' = [limit EXCEPT ![r] = k]
  /\ pc' = [pc EXCEPT ![r] = IF cache[i] = {} THEN "fetch" ELSE "done"]
  /\ answer' = [answer EXCEPT ![r] =
       {[state |-> c.state, version |-> c.count] : c \in cache[i]}]
  /\ UNCHANGED <<log, cache, rows>>

\* ORDER BY version LIMIT k: rows of the same version come in either order.
Orderings ==
  {[n \in DOMAIN log |-> log[p[n]]] :
     p \in {q \in [DOMAIN log -> DOMAIN log] :
              /\ IsInjective(q)
              /\ \A m, n \in DOMAIN log : m < n => log[q[m]].version <= log[q[n]].version}}

\* The first events of the session, as many as max_events allows.
FetchEvents(r) ==
  /\ pc[r] = "fetch"
  /\ \E events \in Orderings :
       rows' = [rows EXCEPT ![r] =
         SubSeq(events, 1, IF Len(events) < limit[r] THEN Len(events) ELSE limit[r])]
  /\ pc' = [pc EXCEPT ![r] = "fold"]
  /\ UNCHANGED <<log, cache, at, limit, answer>>

\* Fold what was fetched, cache and answer it.  No events and a failing fold
\* are errors, which are not cached.
FoldAndCache(r) ==
  /\ pc[r] = "fold"
  /\ pc' = [pc EXCEPT ![r] = "done"]
  /\ IF rows[r] = <<>> \/ FoldSessionState(rows[r]) = {}
       THEN UNCHANGED <<cache, answer>>
       ELSE \E state \in FoldSessionState(rows[r]) :
              /\ cache' = [cache EXCEPT ![at[r]] = {[state |-> state, count |-> Len(rows[r])]}]
              /\ answer' = [answer EXCEPT ![r] = {[state |-> state, version |-> Last(rows[r]).version]}]
  /\ UNCHANGED <<log, at, limit, rows>>

\* InvalidateCache reaches one replica.
InvalidateCache(i) ==
  /\ cache[i] # {}
  /\ cache' = [cache EXCEPT ![i] = {}]
  /\ UNCHANGED <<log, pc, at, limit, rows, answer>>


\* The 180 seconds of the entry are over.
Expire(i) ==
  /\ cache[i] # {}
  /\ cache' = [cache EXCEPT ![i] = {}]
  /\ UNCHANGED <<log, pc, at, limit, rows, answer>>

Serve(r) == FetchEvents(r) \/ FoldAndCache(r)

Next ==
  \/ \E type \in Types, race \in BOOLEAN : AppendEvent(type, race)
  \/ \E r \in Requests :
       \/ \E i \in Instances, k \in Limits : CacheGet(r, i, k)
       \/ Serve(r)
  \/ \E i \in Instances : InvalidateCache(i) \/ Expire(i)

Spec == Init /\ [][Next]_vars

\* Entries expire and a request that was taken up is answered.
FairSpec ==
  /\ Spec
  /\ \A i \in Instances : WF_vars(Expire(i))
  /\ \A r \in Requests : WF_vars(Serve(r))

----------------------------------------------------------------------------
(* Properties *)

\* Type invariant of the caches and the requests.
TypeOK ==
  /\ \A i \in Instances : \A c \in cache[i] : c.count \in 1 .. MaxEvents
  /\ \A r \in Requests :
       /\ pc[r] \in {"idle", "fetch", "fold", "done"}
       /\ at[r] = NoInstance <=> pc[r] = "idle"
       /\ Len(rows[r]) <= limit[r]

\* An answer, from the database or from a cache filled by another request, is
\* the state after exactly the events up to the version it names: never one
\* with events left out, doubled or from two racing writers.
AnswersAreHistory ==
  \A r \in Requests : \A a \in answer[r] :
    /\ a.version \in 1 .. MaxEvents
    /\ \E p \in [1 .. a.version -> DOMAIN log] :
         /\ \A n \in 1 .. a.version : log[p[n]].version = n
         /\ a.state = Fold([n \in 1 .. a.version |-> log[p[n]].type])

Ended(events) == Fold(TypesOf(events)).status = "ended"

\* The chain that a single writer leaves behind passes the verification.
IntactChainVerifies == VerifyIntegrity(log)

=============================================================================
