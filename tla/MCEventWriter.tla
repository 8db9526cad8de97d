---------------------------- MODULE MCEventWriter ---------------------------
(***************************************************************************)
(* EventWriter for TLC: calls of each RPC that appends events, four of     *)
(* them in one behaviour.                                                  *)
(***************************************************************************)
EXTENDS EventWriter, TLC

CONSTANTS append, retry, end, batch, forward, s1, s2, k1, k2, k3, k4

VARIABLES
  absent,      \* the call of the five that does not come
  overlapped   \* whether two commands have overlapped

\* AppendEvent and its retry with the same key, the end of the session, a batch
\* over two streams, and a forwarded request with a payment.
AllScripts ==
  append  :> <<Command(s1, "USR_SESSION", k1, -1)>> @@
  retry   :> <<Command(s1, "USR_SESSION", k1, -1)>> @@
  end     :> EndSession(s1) @@
  batch   :> <<Command(s2, "Transaction", k2, -1),
               Command(s1, "Transaction", NoKey, 1)>> @@
  forward :> ForwardUSSD(s1, k3, k4)

MCScript == [c \in Calls |-> AllScripts[c]]

MCStops == Calls \ {forward}

MCInit == Init /\ overlapped = FALSE /\ absent \in {retry, end, batch}

MCNext ==
  /\ Next
  /\ pc'[absent] = "check" /\ results'[absent] = <<>>
  /\ overlapped' = (overlapped \/ ~NoOverlap')
  /\ UNCHANGED absent

MCSpec == MCInit /\ [][MCNext]_<<vars, absent, overlapped>>

\* As long as commands have not overlapped, a version is the position of its
\* event and no two records of a stream have the same predecessor, although
\* Handle reads the version outside the transaction that uses it and commits
\* whose answer is lost are repeated.
HistoryIsLinear == ~overlapped => VersionIsPosition /\ ChainIsLinear

=============================================================================
