--------------------------- MODULE RefundPromise ---------------------------
(***************************************************************************)
(* What refunds promise, whichever requests race, fail or are repeated.    *)
(* Never more than a payment is given back.  A payment has one bulk refund *)
(* at most: it is placed, and it is requested, once, when the whole of the *)
(* payment has been given back; and consumers hear of a refund after it    *)
(* was made for good, and then for ever.                                   *)
(***************************************************************************)
EXTENDS Integers

CONSTANTS
  Payments,  \* paid sessions
  Amount,    \* the amount of a payment
  Ids        \* refunds

VARIABLES
  given,  \* per payment: the amount given back, as its provider accounts for it
  whole,  \* payments a whole refund of which was ever made
  stage,  \* per payment: its bulk refund, "none", "pending" or "requested"
  final,  \* refunds that succeeded
  heard   \* refunds consumers heard of

vars == <<given, whole, stage, final, heard>>

Init ==
  /\ given = [p \in Payments |-> 0]
  /\ whole = {} /\ final = {} /\ heard = {}
  /\ stage = [p \in Payments |-> "none"]

(* A provider makes a refund of p; it may succeed at once. *)
Give(p, amount) ==
  /\ given[p] + amount <= Amount
  /\ given' = [given EXCEPT ![p] = @ + amount]
  /\ whole' = IF amount = Amount THEN whole \cup {p} ELSE whole
  /\ \E i \in Ids : final' \in {final, final \cup {i}}
  /\ UNCHANGED <<stage, heard>>

(* A refund that is not final succeeds, or fails and gives nothing back. *)
Succeed(i) ==
  /\ i \notin final /\ final' = final \cup {i}
  /\ UNCHANGED <<given, whole, stage, heard>>

Fail(p, amount) ==
  /\ amount <= given[p]
  /\ given' = [given EXCEPT ![p] = @ - amount]
  /\ UNCHANGED <<whole, stage, final, heard>>

(* An upload places a bulk refund; the job gets it requested. *)
Place(p) ==
  /\ stage[p] = "none" /\ stage' = [stage EXCEPT ![p] = "pending"]
  /\ UNCHANGED <<given, whole, final, heard>>

Request(p) ==
  /\ stage[p] = "pending" /\ p \in whole
  /\ stage' = [stage EXCEPT ![p] = "requested"]
  /\ UNCHANGED <<given, whole, final, heard>>

Tell(i) ==
  /\ i \in final \ heard /\ heard' = heard \cup {i}
  /\ UNCHANGED <<given, whole, stage, final>>

Next ==
  \/ \E p \in Payments :
       \/ Place(p) \/ Request(p)
       \/ \E amount \in 1 .. Amount : Give(p, amount) \/ Fail(p, amount)
  \/ \E i \in Ids : Succeed(i) \/ Tell(i)

Spec == Init /\ [][Next]_vars
=============================================================================
