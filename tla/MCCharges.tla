------------------------------ MODULE MCCharges ------------------------------
(* Callers and costs for TLC. *)
EXTENDS ChargesInvariants

Caller(type, id, user, roles, privileges) ==
  [type |-> type, id |-> id, user |-> user, roles |-> roles, privileges |-> privileges]

MCUsers == {"payer", "system"}
MCCallers ==
  {Caller("oauth2", "payer", "email", {"payment-lookup", "bulk-refund"}, {}),
   Caller("oauth2", "payer", "absent", {"bulk-refund"}, {}),
   Caller("key", "system", "absent", {}, {}),
   Caller("key", "system", "absent", {}, {"payment"}),
   Caller("key", NoUser, "absent", {}, {"payment"}),
   Caller("none", "payer", "other", {}, {})}

Whole(n, classes) == [amount |-> [form |-> "pounds", pounds |-> n, pence |-> 0], classes |-> classes]
Split(n, m, classes) ==
  [amount |-> [form |-> "pounds.pence", pounds |-> n, pence |-> m], classes |-> classes]
Costing(items) == [answer |-> "costs", items |-> items]

(* Two names nobody knows: the second byte of one is like its first. *)
MCOtherClasses == {"unlisted", "oops"}
MCRepeatsFirstByte == [c \in MCOtherClasses |-> IF c = "oops" THEN {0, 1} ELSE {0}]

(* Five pounds in several forms, of one class or of two, another amount, and
   what is refused. *)
MCOffers ==
  {Costing(<<Split(2, 50, <<"data-maintenance">>), Split(2, 50, <<"data-maintenance">>)>>),
   Costing(<<Whole(5, <<"penalty-lfp", "oops">>)>>),
   Costing(<<Split(2, 50, <<"penalty-lfp">>), Split(2, 50, <<"legacy">>)>>),
   Costing(<<Split(5, 0, <<"orderable-item", "penalty-lfp">>)>>),
   Costing(<<Split(7, 25, <<"unlisted">>)>>),
   Costing(<<[Whole(5, <<"legacy">>) EXCEPT !.amount.form = "other"]>>),
   [answer |-> "gone", items |-> <<>>]}
=============================================================================
