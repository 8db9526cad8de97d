------------------------------ MODULE EventLog ------------------------------
(***************************************************************************)
(* What the event store promises its readers: each stream is a log that    *)
(* only grows at its end, one event at a time, and an idempotency key      *)
(* names at most one event.                                                *)
(***************************************************************************)
EXTENDS Naturals, Sequences

CONSTANTS Streams, Keys, NoKey

VARIABLE log    \* for each stream, the keys of its events in commit order

Init == log = [s \in Streams |-> <<>>]

AppendEvent(s, key) ==
  /\ key # NoKey => \A t \in Streams : \A n \in DOMAIN log[t] : log[t][n] # key
  /\ log' = [log EXCEPT ![s] = Append(@, key)]

Next == \E s \in Streams, key \in Keys \union {NoKey} : AppendEvent(s, key)

Spec == Init /\ [][Next]_log

=============================================================================
