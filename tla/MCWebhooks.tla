----------------------------- MODULE MCWebhooks -----------------------------
(* One delivery that two replicas, a replay and losses contend for, or a   *)
(* queue of three deliveries of two webhooks that one replica works off.   *)
EXTENDS Webhooks

CONSTANTS s1, s2, d1, d2, d3, x1, x2

VARIABLE workload  \* "contention" or "queue", chosen once

mcvars == <<vars, workload>>

MCSubOf == [d \in Deliveries |-> IF d = d3 THEN s2 ELSE s1]

MCInit == Init /\ workload \in {"contention", "queue"}

Bounded ==
  \/ workload = "contention" /\ DOMAIN active' \subseteq {s1} /\ ToSet(created') \subseteq {d1}
  \/ /\ workload = "queue"
     /\ pc'[x2] = "idle" /\ replays' = 0 /\ losses' = 0
     /\ \A u \in Updates : update'[u] = NoSub

MCNext == Next /\ Bounded /\ UNCHANGED workload

\* Time passes, tickers go on, and posts end by their timeout.
MCSpec ==
  /\ MCInit /\ [][MCNext]_mcvars
  /\ \A x \in Dispatchers : WF_vars(Dispatch(x) /\ (workload = "queue" => x = x1))
  /\ \A d \in Deliveries : WF_vars(Elapse(d))
=============================================================================
