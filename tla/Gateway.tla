------------------------------ MODULE Gateway -------------------------------
(***************************************************************************)
(* The USSD gateway: replicas that limit the requests of a phone, look at  *)
(* the activity of its session and forward the request to the orchestrator.*)
(* A replica that reached Redis when it started keeps both there, one that *)
(* did not keeps them in its own memory.  The REST interface limits the    *)
(* requests of a tenant in Redis.                                          *)
(*                                                                         *)
(* Every time stamp is kept as its age in ticks, a sorted set of them as   *)
(* the sequence of the ages, the oldest first; an age above Window is not  *)
(* kept.                                                                   *)
(***************************************************************************)
EXTENDS Integers, SequencesExt

CONSTANTS
  Replicas,
  Handlers,      \* threads that handle requests
  At,            \* At[h]: the replica of handler h
  Phones, Sessions, Tenants,
  MaxTokens,     \* requests per window
  Window,        \* ticks of the window
  Timeout,       \* ticks after which an idle session has timed out
  MaxEntries,    \* bound: requests of a tenant in the window
  MaxFailures    \* bound: Redis calls that fail

ASSUME GatewayAssumption ==
  /\ At \in [Handlers -> Replicas]
  /\ {MaxTokens, Window, Timeout} \subseteq Nat \ {0}
  /\ {MaxEntries, MaxFailures} \subseteq Nat

VARIABLES
  available,  \* of each replica: whether it found Redis when it started
  zset,       \* rate_limit:phone in Redis
  bucket,     \* of each replica: the token bucket of each phone
  stamp,      \* session:id in Redis: the age of the activity, or Unset
  activity,   \* of each replica: the same in memory
  step, req,  \* of each handler: its step and its request
  mark,       \* the age of the entry it added to zset
  seen,       \* the age of the activity it read from Redis
  apiset,     \* api_rate_limit:tenant in Redis
  failures,
  admitted, apiAdmitted  \* history: ages of the requests let through

gatewayVars == <<available, zset, bucket, stamp, activity, step, req, mark,
                 seen, apiset, failures, admitted, apiAdmitted>>

Unset == -1
NoRequest == [phone |-> CHOOSE p \in Phones : TRUE,
              session |-> CHOOSE s \in Sessions : TRUE]

\* The default of a missing bucket: all tokens, as of now.  Tokens are counted
\* in parts of 1 / Window.
FullBucket == [tokens |-> MaxTokens * Window, last |-> 0]

GatewayInit ==
  /\ available \in [Replicas -> BOOLEAN]
  /\ zset = [p \in Phones |-> <<>>]
  /\ bucket = [i \in Replicas |-> [p \in Phones |-> FullBucket]]
  /\ stamp = [s \in Sessions |-> Unset]
  /\ activity = [i \in Replicas |-> [s \in Sessions |-> Unset]]
  /\ step = [h \in Handlers |-> "idle"]
  /\ req = [h \in Handlers |-> NoRequest]
  /\ mark = [h \in Handlers |-> Window + 1]
  /\ seen = [h \in Handlers |-> Unset]
  /\ apiset = [t \in Tenants |-> <<>>]
  /\ failures = 0
  /\ admitted = [i \in Replicas |-> [p \in Phones |-> <<>>]]
  /\ apiAdmitted = [t \in Tenants |-> <<>>]

\* Mutant: the window is one tick short.
PruneEarly(set) == SelectSeq(set, LAMBDA age : age < Window - 1)

\* zremrangebyscore(key, 0, now - window)
Prune(set) == SelectSeq(set, LAMBDA age : age < Window)

Goto(h, label) == step' = [step EXCEPT ![h] = label]

----------------------------------------------------------------------------
(* ussd_callback *)

\* A request with all its fields; without them it is answered at once.
Call(h, p, s) ==
  /\ step[h] = "idle"
  /\ req' = [req EXCEPT ![h] = [phone |-> p, session |-> s]]
  /\ Goto(h, "allow")
  /\ UNCHANGED <<available, zset, bucket, stamp, activity, mark, seen, apiset,
                 failures, admitted, apiAdmitted>>

Admit(h) ==
  admitted' = [admitted EXCEPT ![At[h]][req[h].phone] = Append(@, 0)]

\* _RedisRateLimiter.allow: one pipeline prunes, counts and adds; a request
\* over the limit is denied, and its entry removed by a call of its own.
RedisAllow(h) ==
  LET p    == req[h].phone
      kept == Prune(zset[p])
  IN  /\ step[h] = "allow" /\ available[At[h]]
      /\ zset' = [zset EXCEPT ![p] = Append(kept, 0)]
      /\ IF Len(kept) >= MaxTokens
           THEN Goto(h, "remove") /\ mark' = [mark EXCEPT ![h] = 0] /\ UNCHANGED admitted
           ELSE Goto(h, "touch") /\ Admit(h) /\ UNCHANGED mark
      /\ UNCHANGED <<available, bucket, stamp, activity, req, seen, apiset,
                     failures, apiAdmitted>>

\* zrem of the entry of a denied request.
RemoveDenied(h) ==
  LET p == req[h].phone
  IN  /\ step[h] = "remove"
      /\ zset' = [zset EXCEPT ![p] = RemoveFirst(@, mark[h])]
      /\ Goto(h, "idle")
      /\ mark' = [mark EXCEPT ![h] = Window + 1]
      /\ UNCHANGED <<available, bucket, stamp, activity, req, seen, apiset,
                     failures, admitted, apiAdmitted>>

\* _TokenBucket.allow: under the lock of the replica.
BucketAllow(h) ==
  LET i      == At[h]
      p      == req[h].phone
      b      == bucket[i][p]
      tokens == Min({MaxTokens * Window, b.tokens + b.last * MaxTokens})
  IN  /\ step[h] = "allow" /\ ~available[i]
      /\ IF tokens >= Window
           THEN /\ bucket' = [bucket EXCEPT ![i][p] = [tokens |-> tokens - Window, last |-> 0]]
                /\ Goto(h, "touch") /\ Admit(h)
           ELSE /\ bucket' = [bucket EXCEPT ![i][p] = [tokens |-> tokens, last |-> 0]]
                /\ Goto(h, "idle") /\ UNCHANGED admitted
      /\ UNCHANGED <<available, zset, stamp, activity, req, mark, seen, apiset,
                     failures, apiAdmitted>>

\* _RedisSessionTracker.touch reads the activity, a key that lives for Timeout,
\* and looks at the clock afterwards.
RedisRead(h) ==
  /\ step[h] = "touch" /\ available[At[h]]
  /\ seen' = [seen EXCEPT ![h] = stamp[req[h].session]]
  /\ Goto(h, "set")
  /\ UNCHANGED <<available, zset, bucket, stamp, activity, req, mark, apiset,
                 failures, admitted, apiAdmitted>>

RedisSet(h) ==
  /\ step[h] = "set"
  /\ seen' = [seen EXCEPT ![h] = Unset]
  /\ IF seen[h] > Timeout
       THEN Goto(h, "clear") /\ UNCHANGED stamp
       ELSE Goto(h, "forward") /\ stamp' = [stamp EXCEPT ![req[h].session] = 0]
  /\ UNCHANGED <<available, zset, bucket, activity, req, mark, apiset, failures,
                 admitted, apiAdmitted>>

\* _SessionTracker.touch: under the lock of the replica.
MemoryTouch(h) ==
  LET i == At[h]
      s == req[h].session
  IN  /\ step[h] = "touch" /\ ~available[i]
      /\ IF activity[i][s] > Timeout
           THEN Goto(h, "clear") /\ UNCHANGED activity
           ELSE Goto(h, "forward") /\ activity' = [activity EXCEPT ![i][s] = 0]
      /\ UNCHANGED <<available, zset, bucket, stamp, req, mark, seen, apiset,
                     failures, admitted, apiAdmitted>>

\* The request is forwarded.  On a time-out of the orchestrator the session is
\* cleared; any other answer leaves it alone, the end of the session included.
Forward(h) ==
  /\ step[h] = "forward"
  /\ \E label \in {"idle", "clear"} : Goto(h, label)
  /\ UNCHANGED <<available, zset, bucket, stamp, activity, req, mark, seen,
                 apiset, failures, admitted, apiAdmitted>>

\* Mutant: only Redis is cleared.
ClearRedis(h) ==
  /\ step[h] = "clear"
  /\ stamp' = IF available[At[h]] THEN [stamp EXCEPT ![req[h].session] = Unset] ELSE stamp
  /\ Goto(h, "idle")
  /\ UNCHANGED <<available, zset, bucket, activity, req, mark, seen, apiset,
                 failures, admitted, apiAdmitted>>

\* _session_tracker.clear: in Redis, if there is one, and in memory.
Clear(h) ==
  LET s == req[h].session
  IN  /\ step[h] = "clear"
      /\ stamp' = IF available[At[h]] THEN [stamp EXCEPT ![s] = Unset] ELSE stamp
      /\ activity' = [activity EXCEPT ![At[h]][s] = Unset]
      /\ Goto(h, "idle")
      /\ UNCHANGED <<available, zset, bucket, req, mark, seen, apiset, failures,
                     admitted, apiAdmitted>>

\* A call to Redis raises, executed or not, and the request is given up.
RedisFails(h) ==
  LET p == req[h].phone
  IN  /\ step[h] \in {"allow", "remove", "touch", "set", "clear"} /\ available[At[h]]
      /\ failures < MaxFailures
      /\ failures' = failures + 1
      /\ \/ UNCHANGED <<zset, stamp>>
         \/ /\ step[h] = "allow"
            /\ zset' = [zset EXCEPT ![p] = Append(Prune(@), 0)]
            /\ UNCHANGED stamp
         \/ /\ step[h] \in {"set", "clear"}
            /\ stamp' = [stamp EXCEPT ![req[h].session] = IF step[h] = "set" THEN 0 ELSE Unset]
            /\ UNCHANGED zset
      /\ Goto(h, "idle")
      /\ mark' = [mark EXCEPT ![h] = Window + 1]
      /\ seen' = [seen EXCEPT ![h] = Unset]
      /\ UNCHANGED <<available, bucket, activity, req, apiset, admitted, apiAdmitted>>

UssdCallback(h) ==
  \/ RedisAllow(h) \/ RemoveDenied(h) \/ BucketAllow(h)
  \/ RedisRead(h) \/ RedisSet(h) \/ MemoryTouch(h)
  \/ Forward(h) \/ Clear(h)

----------------------------------------------------------------------------
(* The REST interface and time *)

\* RateLimitMiddleware: the entry of a denied request stays.  A replica without
\* Redis lets every request through.
ApiCall(i, t) ==
  LET kept == Prune(apiset[t])
  IN  /\ available[i]
      /\ Len(kept) < MaxEntries
      /\ apiset' = [apiset EXCEPT ![t] = Append(kept, 0)]
      /\ apiAdmitted' = IF Len(kept) >= MaxTokens THEN apiAdmitted
                          ELSE [apiAdmitted EXCEPT ![t] = Append(@, 0)]
      /\ UNCHANGED <<available, zset, bucket, stamp, activity, step, req, mark,
                     seen, failures, admitted>>

Older(set) ==
  LET kept == SelectSeq(set, LAMBDA age : age < Window)
  IN  [n \in DOMAIN kept |-> kept[n] + 1]

OlderUpTo(age, bound) ==
  IF age = Unset THEN Unset ELSE Min({age + 1, bound})

\* Time passes: a session in Redis is deleted when it is Timeout old.
Tick ==
  /\ zset' = [p \in Phones |-> Older(zset[p])]
  /\ bucket' = [i \in Replicas |-> [p \in Phones |->
       [bucket[i][p] EXCEPT !.last = Min({@ + 1, Window})]]]
  /\ stamp' = [s \in Sessions |->
       IF stamp[s] + 1 >= Timeout THEN Unset ELSE OlderUpTo(stamp[s], Timeout)]
  /\ activity' = [i \in Replicas |-> [s \in Sessions |->
       OlderUpTo(activity[i][s], Timeout + 1)]]
  /\ mark' = [h \in Handlers |-> OlderUpTo(mark[h], Window + 1)]
  /\ seen' = [h \in Handlers |-> OlderUpTo(seen[h], Timeout + 1)]
  /\ apiset' = [t \in Tenants |-> Older(apiset[t])]
  /\ admitted' = [i \in Replicas |-> [p \in Phones |-> Older(admitted[i][p])]]
  /\ apiAdmitted' = [t \in Tenants |-> Older(apiAdmitted[t])]
  /\ UNCHANGED <<available, step, req, failures>>

GatewayNext ==
  \/ \E h \in Handlers :
       \/ \E p \in Phones, s \in Sessions : Call(h, p, s)
       \/ UssdCallback(h)
       \/ RedisFails(h)
  \/ \E i \in Replicas, t \in Tenants : ApiCall(i, t)
  \/ Tick

----------------------------------------------------------------------------
(* Properties *)

\* The requests of a history that fall into the current window.
InWindow(set) == Len(SelectSeq(set, LAMBDA age : age < Window))

\* In any window of time the replicas that share Redis let through at most
\* MaxTokens requests of a phone, whatever requests overlap, are denied or are
\* given up, and the REST interface as many of a tenant; a replica on its own
\* fewer than twice as many, a full bucket and what comes in during the window.
AdmittedInWindow ==
  /\ \A p \in Phones :
       /\ MapThenSumSet(LAMBDA i : InWindow(admitted[i][p]),
                        {i \in Replicas : available[i]}) <= MaxTokens
       /\ \A i \in Replicas :
            ~available[i] => InWindow(admitted[i][p]) < 2 * MaxTokens
  /\ \A t \in Tenants : InWindow(apiAdmitted[t]) <= MaxTokens

\* The requests of a phone take turns.
InTurn(p) ==
  \A h, g \in Handlers :
    {step[h], step[g]} \intersect {"idle"} = {} /\ {req[h].phone, req[g].phone} = {p} => h = g

=============================================================================
