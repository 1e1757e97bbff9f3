--------------------------- MODULE SessionPromise ---------------------------
(***************************************************************************)
(* What the payment journey promises about each session to those who see   *)
(* only its stored status and the messages: the journey opens once and in  *)
(* order; nothing happens at a provider before it is open; the status may  *)
(* then be rewritten at any time, but to paid only on grounds, and         *)
(* messages are sent only on grounds; and grounds, once there, stay.       *)
(***************************************************************************)
CONSTANT Payments

VARIABLES stage, grounds, told

(* What has happened at the providers, or been concluded from an answer: the
   money was taken, a callback believed an unfinished card payment, the payer
   cancelled one, an order was placed at PayPal. *)
Grounds     == {"charged", "believed", "cancelled", "ordered"}
PaidGrounds == {"charged", "believed"}
NewsGrounds == {"charged", "cancelled", "ordered"}

Open(p) == stage[p] \in {"in-progress", "paid", "unpaid"}

Init ==
  /\ stage = [p \in Payments |-> "none"]
  /\ grounds = [p \in Payments |-> {}]
  /\ told = [p \in Payments |-> FALSE]

Create(p) ==
  /\ stage[p] = "none"
  /\ stage' = [stage EXCEPT ![p] = "pending"]
  /\ UNCHANGED <<grounds, told>>

Choose(p) ==
  /\ stage[p] = "pending"
  /\ stage' = [stage EXCEPT ![p] = "in-progress"]
  /\ UNCHANGED <<grounds, told>>

Happens(p) ==
  /\ Open(p)
  /\ \E g \in Grounds : grounds' = [grounds EXCEPT ![p] = @ \cup {g}]
  /\ UNCHANGED <<stage, told>>

Conclude(p) ==
  /\ Open(p)
  /\ \E c \in {"in-progress", "paid", "unpaid"} :
       /\ c = "paid" => grounds[p] \cap PaidGrounds # {}
       /\ stage' = [stage EXCEPT ![p] = c]
  /\ UNCHANGED <<grounds, told>>

Tell(p) ==
  /\ grounds[p] \cap NewsGrounds # {}
  /\ told' = [told EXCEPT ![p] = TRUE]
  /\ UNCHANGED <<stage, grounds>>

Next == \E p \in Payments : Create(p) \/ Choose(p) \/ Happens(p) \/ Conclude(p) \/ Tell(p)

Spec == Init /\ [][Next]_<<stage, grounds, told>>
=============================================================================
