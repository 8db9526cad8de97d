---------------------------- MODULE MCMessaging ----------------------------
(* One phone number of each of two providers, one of none, and an e-mail   *)
(* address.  The first client sends batches, or single messages, or looks  *)
(* at lists and templates; the second one sends a message of its own and   *)
(* asks for the status of every message.                                   *)
EXTENDS Messaging

CONSTANTS c1, c2, eco, tele, bad, mail, s1, w1

VARIABLE workload    \* chosen once

mcvars == <<vars, workload>>

MCTenantOf == [c \in Clients |-> IF c = c1 THEN "t1" ELSE "t2"]

MCPrefixOf == [a \in Addresses |->
  CASE a = eco -> "26378" [] a = tele -> "26373" [] OTHER -> "none"]

\* An item of each channel, and one of a channel that is not known.
MCBatchItems ==
  {[channel |-> 1, to |-> bad], [channel |-> 2, to |-> tele], [channel |-> 3, to |-> mail],
   [channel |-> 4, to |-> eco], [channel |-> 0, to |-> eco]}

MCInit == Init /\ workload \in {"batches", "messages", "lists"}

First ==
  \/ /\ workload = "batches" /\ issued < 2
     /\ SendBatch(c1)
  \/ /\ workload = "messages" /\ issued < 2
     /\ SendOne(c1)
  \/ /\ workload = "lists" /\ issued < 2
     /\ Ask(c1) \/ BadRequest(c1) \/ SendSms(c1, tele)

MCNext ==
  /\ UNCHANGED workload
  /\ \/ Crash
     \/ \E c \in Clients : Work(c)
     \/ First
     \/ SendSms(c2, eco)
     \/ \E id \in 1 .. MaxMessages : GetMessageStatus(c2, id)

MCSpec == MCInit /\ [][MCNext]_mcvars

=============================================================================
