-------------------------- MODULE MCPaymentEngine --------------------------
(***************************************************************************)
(* PaymentEngine for TLC.  All the calls carry one idempotency key, so     *)
(* that they compete for it.  A behaviour has one of a few workloads, which*)
(* bound what its environment does.  Two history variables say whether     *)
(* handlers of one key or one payment have overlapped, and whether one was *)
(* cut short.                                                              *)
(***************************************************************************)
EXTENDS PaymentEngine, TLC

CONSTANT Workloads

VARIABLES workload, overlapped, cut

history == <<workload, overlapped, cut>>

SameKey == [p \in Payments |-> CHOOSE k \in Keys : TRUE]

\* The provider's answers and retries of one call with two callbacks, and two
\* calls that compete for the key.
RetriesAndRaces == {[calls |-> 1, callbacks |-> 2, settled |-> 2],
                    [calls |-> 2, callbacks |-> 1, settled |-> 1]}

OneCall == {[calls |-> 1, callbacks |-> 1, settled |-> 1]}

\* Calls and callbacks are interchangeable; no definition names one of them.
Symmetry == Permutations(Payments) \union Permutations(Callbacks)

MCInit == Init /\ workload \in Workloads /\ overlapped = FALSE /\ cut = FALSE

\* The bounds of the workload; at most one handler is cut short.
Bounded ==
  /\ Cardinality({p \in Payments : pc'[p] # "idle"}) <= workload.calls
  /\ Cardinality({h \in Callbacks : cpc'[h] # "idle"}) <= workload.callbacks
  /\ Cardinality({r \in Refs : settled'[r] # "none"}) <= workload.settled

MCNext ==
  /\ \/ Steps /\ UNCHANGED cut
     \/ ~cut /\ Stop /\ cut' = TRUE
  /\ Bounded
  /\ overlapped' = (overlapped \/ ~NoOverlap')
  /\ UNCHANGED workload

MCSpec == MCInit /\ [][MCNext]_<<vars, history>>

\* As long as no two calls with one key have overlapped, the lookup of the
\* idempotency key in `handle` lets one of them create a payment, even when
\* handlers are cut short.
OnePaymentPerKeyInTurn == ~overlapped => OnePaymentPerKey

\* As long as handlers have not overlapped, every write of a row, those of cut
\* handlers and of late and repeated callbacks included, is a transition of
\* PaymentLifecycle: the copies that the handlers save are then not stale.
RowsFollowLifecycle ==
  Lifecycle!Init /\ [][overlapped' \/ Lifecycle!Next]_rowStatus

\* A status that a row is left in has its event in the outbox, whatever
\* overlaps, unless a handler was cut short between the save and the append.
RowIsAnnouncedUncut == ~cut => RowIsAnnounced

============================================================================
