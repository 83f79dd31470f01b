------------------------- MODULE RegistrationPromise -------------------------
(***************************************************************************)
(* What the results page of a form and the case systems show of its        *)
(* submissions (docs/open-formulieren-registration.md, "Delivery and       *)
(* retries" and "No duplicate objects"), with no workers, jobs, sweeps or  *)
(* copies of rows: a delivery is concluded once unless somebody asks for   *)
(* another try, `delivered` is the word of a destination and is never      *)
(* taken back, what was deleted stays deleted, and the Objects APIs hold   *)
(* one object of it at most, where its first request went.                 *)
(***************************************************************************)
EXTENDS Naturals

CONSTANTS Deliveries,
          Places, ObjectPlaces,  \* where one can go, and those at an Objects API
          Nowhere

VARIABLES state,  \* of each delivery
          pinned, \* the first place at an Objects API it was sent to
          held    \* what each place holds of it

vars == <<state, pinned, held>>

Init ==
  /\ state = [d \in Deliveries |-> "none"]
  /\ pinned = [d \in Deliveries |-> Nowhere]
  /\ held = [d \in Deliveries |-> [p \in Places |-> 0]]

Become(d, s) == state' = [state EXCEPT ![d] = s]

\* The submission gets a delivery, or (no registration, the process died) never one.
Record(d) ==
  /\ state[d] = "none"
  /\ \E s \in {"open", "gone"} : Become(d, s)
  /\ UNCHANGED <<pinned, held>>

\* A request on its way when the row is deleted still arrives.
Send(d, p) ==
  /\ state[d] \in {"open", "gone"}
  /\ pinned[d] # Nowhere => p = pinned[d]
  /\ p \in ObjectPlaces => \A q \in ObjectPlaces : held[d][q] = 0
  /\ pinned' = IF p \in ObjectPlaces THEN [pinned EXCEPT ![d] = p] ELSE pinned
  /\ \/ held' = [held EXCEPT ![d][p] = @ + 1]
     \/ UNCHANGED held
  /\ UNCHANGED state

Conclude(d) ==
  /\ state[d] = "open"
  /\ \E s \in {"delivered", "failed", "cancelled"} :
       /\ s = "delivered" => \E p \in Places : held[d][p] > 0
       /\ Become(d, s)
  /\ UNCHANGED <<pinned, held>>

Reopen(d) ==
  /\ state[d] \in {"failed", "cancelled"}
  /\ Become(d, "open")
  /\ UNCHANGED <<pinned, held>>

Forget(gone) ==
  /\ \A d \in gone : state[d] # "none"
  /\ state' = [d \in Deliveries |-> IF d \in gone THEN "gone" ELSE state[d]]
  /\ UNCHANGED <<pinned, held>>

Next == \/ \E d \in Deliveries : \/ Record(d) \/ Conclude(d) \/ Reopen(d)
                                 \/ \E p \in Places : Send(d, p)
        \/ \E gone \in SUBSET Deliveries : Forget(gone)

Spec == Init /\ [][Next]_vars
=============================================================================
