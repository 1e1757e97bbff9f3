-------------------------------- MODULE Costs --------------------------------
(***************************************************************************)
(* What a payment costs.  A costs resource, kept by another service, lists *)
(* costs: an amount, written as a text, and the classes of payment it is   *)
(* of.  The service adds the amounts up, writes the sum down as a text,    *)
(* and turns that into pence for GOV.UK Pay.  There are no variables here. *)
(***************************************************************************)
EXTENDS Integers, Sequences, FiniteSetsExt

(* An amount as it is written: "12", "12.50", or in a form that is refused. *)
AmountText == [form: {"pounds", "pounds.pence", "other"}, pounds: Nat, pence: 0 .. 99]

CONSTANTS
  OtherClasses,     \* names of classes no GOV.UK Pay account is known for
  RepeatsFirstByte  \* the positions, from 0, at which each repeats its first byte

KnownClasses == {"data-maintenance", "orderable-item", "legacy", "penalty-lfp",
                 "penalty-sanctions"}

(* Any names, the empty one included, which has no byte to repeat. *)
ASSUME ClassesAssumption ==
  /\ OtherClasses \cap KnownClasses = {}
  /\ RepeatsFirstByte \in [OtherClasses -> SUBSET Nat]

Classes == KnownClasses \cup OtherClasses

Cost == [amount: AmountText, classes: Seq(Classes)]

(* The answer to a request for the resource: its costs; 404, "gone" when the
   resource is one of a secure application (SECURE_APP_COSTS_REGEX); another
   status, or costs that are not valid; or no answer. *)
Resource == [answer: {"costs"}, items: Seq(Cost)]
              \cup [answer: {"missing", "gone", "refused", "unreachable"}, items: {<<>>}]

(* getCosts. *)
CostsResponse(resource) ==
  CASE resource.answer = "costs"       -> "Success"
    [] resource.answer = "gone"        -> "CostsGone"
    [] resource.answer = "missing"     -> "CostsNotFound"
    [] resource.answer = "refused"     -> "InvalidData"
    [] resource.answer = "unreachable" -> "Error"

-----------------------------------------------------------------------------
(* What an amount means, in pence. *)
Pence(text) == text.pounds * 100 + (IF text.form = "pounds.pence" THEN text.pence ELSE 0)

Owed(items) == MapThenSumSet(LAMBDA i : Pence(items[i].amount), DOMAIN items)

Summable(items) == \A i \in DOMAIN items : items[i].amount.form # "other"

(* Mutant: a sum of whole pounds is written without its pence. *)
TotalWithoutPlaces(items) ==
  [form |-> IF Owed(items) % 100 = 0 THEN "pounds" ELSE "pounds.pence",
   pounds |-> Owed(items) \div 100, pence |-> Owed(items) % 100]

(* The sum is written with two decimal places, whatever the costs look like. *)
getTotalAmount(items) ==
  LET owed == Owed(items) IN
  [form |-> "pounds.pence", pounds |-> owed \div 100, pence |-> owed % 100]

(* The point is removed from the text, and what is left is a number. *)
convertToPenceFromDecimal(text) ==
  IF text.form = "pounds.pence" THEN text.pounds * 100 + text.pence ELSE text.pounds

-----------------------------------------------------------------------------
(* The positions, from 0, at which the name of a class repeats its first byte. *)
FirstByteAt == [c \in Classes |->
  CASE c \in OtherClasses  -> RepeatsFirstByte[c]
    [] c = "penalty-lfp"   -> {0, 10}
    [] OTHER               -> {0}]

(* Classes of one cost are held against themselves: byte j of the class at
   place j (from 0) against its first byte.  A second class passes if its
   name happens to repeat its first byte there, whatever the first one is,
   and is refused, even one equal to the first, if not.  (A name too short
   for that makes the handler panic.) *)
OneClass(cost) ==
  /\ cost.classes # <<>>
  /\ \A j \in DOMAIN cost.classes : j - 1 \in FirstByteAt[cost.classes[j]]

(* Mutant: costs are not compared with one another. *)
ClassesPerCost(items) == \A i \in DOMAIN items : OneClass(items[i])

(* Passed without error.  (A cost without classes makes the handler panic.) *)
validateClassOfPayment(items) ==
  /\ \A i \in DOMAIN items : OneClass(items[i])
  /\ \A i \in DOMAIN items : items[i].classes[1] = items[1].classes[1]

(* Mutant: a class that is not known goes to the default account. *)
AccountWithDefault == [c \in Classes |->
  CASE c = "legacy"            -> "legacy"
    [] c = "penalty-lfp"       -> "treasury"
    [] c = "penalty-sanctions" -> "sanctions"
    [] OTHER                   -> "default"]

(* The GOV.UK Pay account whose token goes with a request: that of the first
   class of the first cost.  "none" is an error, or a panic. *)
AccountOf == [c \in Classes |->
  CASE c \in {"data-maintenance", "orderable-item"} -> "ch"
    [] c = "legacy"            -> "legacy"
    [] c = "penalty-lfp"       -> "treasury"
    [] c = "penalty-sanctions" -> "sanctions"
    [] c \in OtherClasses      -> "none"]

addGovPayHeaders(items) ==
  IF items = <<>> THEN "none"
  ELSE IF items[1].classes = <<>> THEN "none" ELSE AccountOf[items[1].classes[1]]
=============================================================================
