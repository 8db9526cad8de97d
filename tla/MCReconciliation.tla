-------------------------- MODULE MCReconciliation --------------------------
(* One run over every short pair of lists, or two runs and a resolver that *)
(* overlap and fail, over lists that give none, one or two items.          *)
EXTENDS ReconQueries

CONSTANTS A, B, R0, R1, R2

VARIABLE workload  \* "matching" or "overlap", chosen once

mcvars == <<vars, workload>>

Txn(ref, amount) == [ref |-> ref, amount |-> amount]

AllStatements ==
  LET txns == {Txn(A, 1), Txn(A, 2), Txn(A, 3), Txn(NoRef, 1)}
  IN UNION {[1 .. n -> txns] : n \in 0 .. 3}

FewStatements == {<<>>, <<Txn(A, 1)>>, <<Txn(A, 2), Txn(B, 1)>>}

MCStatements == [r \in {R0, R1, R2} |-> IF r = R0 THEN AllStatements ELSE FewStatements]

MCRules ==
  <<[id |-> 1, tenant |-> 1, tolerance |-> 3, days |-> 1, status |-> "active"],
    [id |-> 2, tenant |-> 2, tolerance |-> 0, days |-> 0, status |-> "draft"]>>

MCInit == Init /\ workload \in {"matching", "overlap"}

\* The matching runs alone and undisturbed; the others only overlap.
Bounded ==
  \/ /\ workload = "matching"
     /\ pc'[R1] = "new" /\ pc'[R2] = "new" /\ pc'[R0] # "error"
     /\ request' = request
  \/ /\ workload = "overlap"
     /\ pc'[R0] = "new"
     /\ \A r \in {R1, R2} : run'[r].tolerance # 0 \/ pc'[r] \in {"new", "error"}
     /\ \A w \in Resolvers : \A id \in ToSet(request'[w].ids) : id[1] # R0

MCNext == Next /\ Bounded /\ UNCHANGED workload

Overlapping == {R1, R2}

\* A handler that the caller started is polled until it returns.
MCSpec == MCInit /\ [][MCNext]_mcvars /\ \A r \in Overlapping : WF_vars(HandlerStep(r))

(* A report that is processing ends as completed or failed, whatever the   *)
(* two sources answer and resolvers do; it stays as it is only when its    *)
(* run broke off.                                                          *)
RunEnds ==
  \A r \in Overlapping : reports[r].status = "processing" ~>
    reports[r].status \in {"completed", "failed"} \/ pc[r] = "error"
=============================================================================
