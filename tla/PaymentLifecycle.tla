-------------------------- MODULE PaymentLifecycle --------------------------
(***************************************************************************)
(* What a payment promises: a row is created Pending, moves at most once   *)
(* to Processing, and then ends in one final status that never changes.    *)
(* These are the transitions that the methods of `Payment` allow           *)
(* (payment-engine/src/domain/payment.rs); the detailed PaymentEngine is   *)
(* compared with it.                                                       *)
(***************************************************************************)

CONSTANT Payments

VARIABLE status     \* status[p]: the payment's status, "none" before it exists

Open == {"Pending", "Processing"}

Create(p) ==
  /\ status[p] = "none"
  /\ status' = [status EXCEPT ![p] = "Pending"]

MarkProcessing(p) ==
  /\ status[p] = "Pending"
  /\ status' = [status EXCEPT ![p] = "Processing"]

Finish(p, final) ==
  /\ status[p] \in Open
  /\ status' = [status EXCEPT ![p] = final]

Refund(p) ==
  /\ status[p] = "Completed"
  /\ status' = [status EXCEPT ![p] = "Refunded"]

Init == status = [p \in Payments |-> "none"]

Next == \E p \in Payments :
  \/ Create(p)
  \/ MarkProcessing(p)
  \/ \E final \in {"Completed", "Failed", "Cancelled"} : Finish(p, final)
  \/ Refund(p)

Spec == Init /\ [][Next]_status

=============================================================================
