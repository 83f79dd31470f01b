--------------------------- MODULE DeliveryPromise ---------------------------
(***************************************************************************)
(* What the delivery log of a form promises the people who read it         *)
(* (docs/webhooks.md, "Retries" and "Log"), with no workers, jobs or       *)
(* copies of rows: a delivery is open until it is concluded once, its      *)
(* conclusion stands until the row is deleted, `delivered` is the word of  *)
(* the destination, and nothing is sent for a delivery that was concluded. *)
(***************************************************************************)
EXTENDS Naturals

CONSTANT Deliveries

VARIABLES state,  \* of each delivery
          posts,  \* requests made for it
          got     \* of them, those the destination accepted

vars == <<state, posts, got>>

Init ==
  /\ state = [d \in Deliveries |-> "none"]
  /\ posts = [d \in Deliveries |-> 0]
  /\ got   = [d \in Deliveries |-> 0]

\* A condition that does not hold is recorded as cancelled from the start.
Record(d) ==
  /\ state[d] = "none"
  /\ \E s \in {"open", "cancelled"} : state' = [state EXCEPT ![d] = s]
  /\ UNCHANGED <<posts, got>>

\* A request on its way when the row is deleted still arrives.
Send(d) ==
  /\ state[d] \in {"open", "gone"}
  /\ posts' = [posts EXCEPT ![d] = @ + 1]
  /\ \/ got' = [got EXCEPT ![d] = @ + 1]
     \/ UNCHANGED got
  /\ UNCHANGED state

Conclude(d) ==
  /\ state[d] = "open"
  /\ \E s \in {"delivered", "failed", "cancelled"} :
       /\ s = "delivered" => got[d] > 0
       /\ state' = [state EXCEPT ![d] = s]
  /\ UNCHANGED <<posts, got>>

Forget(gone) ==
  /\ \A d \in gone : state[d] # "none"
  /\ state' = [d \in Deliveries |-> IF d \in gone THEN "gone" ELSE state[d]]
  /\ UNCHANGED <<posts, got>>

Next == \/ \E d \in Deliveries : Record(d) \/ Send(d) \/ Conclude(d)
        \/ \E gone \in SUBSET Deliveries : Forget(gone)

Spec == Init /\ [][Next]_vars
=============================================================================
