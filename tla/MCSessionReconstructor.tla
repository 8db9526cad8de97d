----------------------- MODULE MCSessionReconstructor -----------------------
(* A session from the gateway to the reconstructor: the requests of a      *)
(* phone at the gateway, the REST interface of the gateway, one replica of *)
(* the reconstructor and writers that race and write events the fold       *)
(* rejects, or two replicas and a session that is created and ended.       *)
EXTENDS SessionReconstructor, Gateway, TLC

CONSTANTS i1, i2, g1, g2, h1, h2

VARIABLE workload  \* one of Workloads, chosen once

mcvars == <<vars, gatewayVars, workload>>

Workloads == {"racing", "replicas", "overlap", "turns", "tenant"}

AllTypes == {"SessionCreated", "PaymentInitiated", "SessionEnded", "SessionProcessed"}

MCAt == h1 :> g1 @@ h2 :> g2

\* Replicas without Redis share nothing, so overlap is between two that have
\* it; where requests take turns one replica has it and one has not.
MCInit ==
  /\ Init /\ GatewayInit
  /\ workload \in Workloads
  /\ \A g \in Replicas : available[g] <=> workload # "turns" \/ g = g1

Bounded ==
  \/ /\ workload = "racing"
     /\ \A r \in Requests : at'[r] # i2
     /\ \A n \in DOMAIN log' : log'[n].type # "SessionCreated"
  \/ /\ workload = "replicas"
     /\ Len(log') <= 2
     /\ \A n \in DOMAIN log' :
          log'[n].type \in {"SessionCreated", "SessionEnded"} /\ log'[n].version = n
     /\ \A r \in Requests : limit'[r] # 1

\* The REST interface is looked at on its own.
Idle == \A h \in Handlers : step[h] = "idle"

GatewayBounded ==
  \/ workload = "overlap" /\ UNCHANGED apiset
  \/ workload = "turns" /\ UNCHANGED apiset /\ \A p \in Phones : InTurn(p)'
  \/ workload = "tenant" /\ Idle'

MCNext ==
  /\ \/ Next /\ Bounded /\ UNCHANGED gatewayVars
     \/ GatewayNext /\ GatewayBounded /\ UNCHANGED vars
  /\ UNCHANGED workload

InTurns(A) == workload = "turns" /\ A /\ GatewayBounded

\* The fairness of the reconstructor; and where the requests of a phone take
\* turns, they are handled, time passes and the phone calls again.
MCSpec ==
  /\ MCInit /\ [][MCNext]_mcvars
  /\ \A i \in Instances : WF_vars(Expire(i))
  /\ \A r \in Requests : WF_vars(Serve(r))
  /\ WF_gatewayVars(InTurns(\E h \in Handlers : UssdCallback(h)))
  /\ WF_gatewayVars(InTurns(Tick))
  /\ WF_gatewayVars(InTurns(Idle /\ \E h \in Handlers, p \in Phones, s \in Sessions : Call(h, p, s)))


(* A phone that goes on calling, one request after the other, is forwarded *)
(* to the orchestrator again and again: neither its denied requests, nor a *)
(* session that has timed out, nor what a failed call to Redis left behind *)
(* shuts it out.                                                           *)
PhoneIsServedAgain ==
  workload = "turns" ~> \E h \in Handlers : step[h] = "forward"
=============================================================================
