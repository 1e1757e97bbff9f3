---------------------------- MODULE PaymentStore ----------------------------
(***************************************************************************)
(* The "payments" collection of MongoDB as the service uses it: what a     *)
(* stored payment session holds, what a patch changes in it, and what the  *)
(* status check selects.  There are no variables here; PaymentState owns   *)
(* the collection.                                                         *)
(***************************************************************************)
EXTENDS Integers

CONSTANTS
  Payments,          \* payment ids
  NoPayment,         \* no payment id
  Refs,              \* identities of payments held by GOV.UK Pay or PayPal
  NoRef,             \* the empty identity
  ExpiryTime,        \* EXPIRY_TIME_IN_MINUTES, in ticks
  GovPayExpiryTime,  \* GOV_PAY_EXPIRY_TIME, in ticks
  MaxCheckingAge,    \* GOV_PAY_MAX_CHECKING_DAYS, in ticks
  MaxAge             \* bound: the clock of a session stops at this age

ASSUME StoreAssumption ==
  /\ NoPayment \notin Payments
  /\ NoRef \notin Refs
  /\ {ExpiryTime, GovPayExpiryTime, MaxCheckingAge, MaxAge} \subseteq Nat

Ages == 0 .. MaxAge
AnyRef == Refs \cup {NoRef}

(***************************************************************************)
(* The statuses the service stores.  The status check stores what GOV.UK   *)
(* Pay says of a finished payment that was not paid: "failed_<reason>",    *)
(* "cancelled" or "error".  "" is the empty string of the Go code: no      *)
(* status in an update, and no document in the collection.                 *)
(***************************************************************************)
OpenStatuses   == {"", "pending"}
ClosedStatuses == {"paid", "no-funds", "failed", "expired", "cancelled", "error",
                   "failed_payment-method-rejected", "failed_payment-expired",
                   "failed_payment-cancelled-by-user"}
Statuses == OpenStatuses \cup {"in-progress"} \cup ClosedStatuses

(* "paypal" is not the spelling CreateExternalPaymentJourney recognises, but
   HandlePayPalCallback compares without case. *)
PaymentMethods == {"credit-card", "PayPal", "paypal"}

(***************************************************************************)
(* A session, or an update of one: a field that holds its zero value is    *)
(* not in the update.  ref stands for external_payment_status_url and _id, *)
(* prov for provider_id, txn for external_payment_transaction_id and       *)
(* completed for a completed_at that is set.                               *)
(***************************************************************************)
PaymentResource ==
  [status: Statuses, method: PaymentMethods \cup {""}, ref: AnyRef,
   prov: AnyRef, txn: AnyRef, completed: BOOLEAN]

Blank == [status |-> "", method |-> "", ref |-> NoRef,
          prov |-> NoRef, txn |-> NoRef, completed |-> FALSE]

NewResource == [Blank EXCEPT !.status = "pending"]

(* Mutant: completed_at is left out of the fields patched. *)
PatchWithoutCompletedAt(doc, update) ==
  [status    |-> IF update.status = "" THEN doc.status ELSE update.status,
   method    |-> IF update.method = "" THEN doc.method ELSE update.method,
   ref       |-> IF update.ref = NoRef THEN doc.ref ELSE update.ref,
   prov      |-> IF update.prov = NoRef THEN doc.prov ELSE update.prov,
   txn       |-> IF update.txn = NoRef THEN doc.txn ELSE update.txn,
   completed |-> doc.completed]

(* What PatchPaymentResource makes of a stored document. *)
PatchPaymentResource(doc, update) ==
  [status    |-> IF update.status = "" THEN doc.status ELSE update.status,
   method    |-> IF update.method = "" THEN doc.method ELSE update.method,
   ref       |-> IF update.ref = NoRef THEN doc.ref ELSE update.ref,
   prov      |-> IF update.prov = NoRef THEN doc.prov ELSE update.prov,
   txn       |-> IF update.txn = NoRef THEN doc.txn ELSE update.txn,
   completed |-> doc.completed \/ update.completed]

(* A stored session as the handlers see it: without its transaction id. *)
TransformToRest(doc) == [doc EXCEPT !.txn = NoRef]

(* Mutants: the transaction id is left out of the update, or taken from the
   wrong field of the metadata. *)
TransformWithoutTransaction(session) == [session EXCEPT !.ref = NoRef, !.txn = NoRef]
TransformWithWrongId(session) == [session EXCEPT !.ref = NoRef, !.txn = session.ref]

(* And back, as an update: without the identity of the provider's payment. *)
TransformToDB(session) == [session EXCEPT !.ref = NoRef]

IsExpired(age) == age > ExpiryTime

(* Mutant: the limits of the two ages change places. *)
IncompleteWithSwappedLimits(db, age) ==
  {p \in Payments : /\ db[p].method = "credit-card"
                    /\ db[p].status = "in-progress"
                    /\ age[p] < GovPayExpiryTime
                    /\ age[p] > MaxCheckingAge}

GetIncompleteGovPayPayments(db, age) ==
  {p \in Payments : /\ db[p].method = "credit-card"
                    /\ db[p].status = "in-progress"
                    /\ age[p] > GovPayExpiryTime
                    /\ age[p] < MaxCheckingAge}
=============================================================================
