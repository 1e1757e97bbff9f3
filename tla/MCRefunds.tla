----------------------------- MODULE MCRefunds -----------------------------
(* Model values for TLC; the instances differ in their .cfg files.  Requests
   are interchangeable, and so are references; for the safety runs only. *)
EXTENDS RefundsInvariants, TLC

Symmetry == Permutations(Slots) \cup Permutations(References)

(* Files: of one payment each; of all the payments of a provider, right,
   with one amount that is not the payment's, and with an unknown order. *)
Order(p, amount) == [order |-> p, amount |-> amount]
Whole(group) == {Order(p, Amount) : p \in group}

SingleFiles == {{Order(p, amount)} : p \in Payments, amount \in {1, Amount}}
BatchFiles ==
  {Whole(Cards), {Order(p, IF p = CHOOSE q \in Cards : TRUE THEN 1 ELSE Amount) : p \in Cards},
   Whole(Cards) \cup {Order(NoPayment, Amount)}, Whole(Payments \ Cards)}
NoFiles == {}
=============================================================================
