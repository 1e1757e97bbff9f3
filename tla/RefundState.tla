---------------------------- MODULE RefundState ----------------------------
(***************************************************************************)
(* Refunds of closed, paid sessions: what the collection stores of them,   *)
(* what the providers hold, and the requests in flight.                    *)
(*                                                                         *)
(* A session stores two arrays.  "refunds" has the refunds made through    *)
(* the API, one by one; "bulk_refunds" has those that came in an uploaded  *)
(* file.  Both are written as a whole, from a copy read earlier.           *)
(***************************************************************************)
EXTENDS Integers, Sequences, FiniteSets, FiniteSetsExt

CONSTANTS
  Payments,          \* paid sessions
  NoPayment,         \* none of them
  Cards,             \* those paid by card, at GOV.UK Pay; the others by PayPal
  References,        \* references clients give their refunds
  NoReference,       \* none of them
  Amount,            \* the amount of a payment, in units that are refunded
  Amounts,           \* amounts clients ask for (any number)
  Sandbox,           \* GOV_PAY_SANDBOX
  RefundBatchSize,   \* REFUND_BATCH_SIZE
  Outcomes,          \* the ways a submitted refund ends at GOV.UK Pay
  Slots,             \* requests in flight at once
  Ops,               \* the endpoints in use: create, update, pending, upload, bulk
  Files,             \* the refund files that are uploaded: sets of entries
  MaxRefunds,        \* bound: refunds the providers make
  MaxRequests,       \* bound: requests by clients (those of the schedulers are not counted)
  MaxFaults          \* bound: instances that stop and calls that fail

ASSUME RefundAssumption ==
  /\ Cards \subseteq Payments /\ NoPayment \notin Payments /\ NoReference \notin References
  /\ Amount \in Nat \ {0} /\ Amounts \subseteq Int
  /\ Sandbox \in BOOLEAN
  /\ RefundBatchSize \in Nat \ {0}
  /\ Outcomes \subseteq {"success", "error"}
  /\ {MaxRefunds, MaxRequests, MaxFaults} \subseteq Nat

VARIABLES
  refunds,     \* per session: the array of refunds
  bulk,        \* per session: the array of bulk refunds
  made,        \* the refunds the providers made, in the order they made them
  left,        \* per session: the amount the provider would still refund
  told,        \* refunds in "refund processed" messages
  req,         \* the requests in flight
  overlapped,  \* history: two requests were in flight at once
  issued,      \* requests by clients so far
  faults       \* faults so far

vars == <<refunds, bulk, made, left, told, req, overlapped, issued, faults>>
outside == <<overlapped, issued, faults>>

(* A refund is known by its place in made, which is its created_at as well;
   0 is the empty id. *)
Ids == 1 .. MaxRefunds
AnyId == {0} \cup Ids

(* What CreateRefund stores, and the raw words of GOV.UK Pay, which
   UpdateRefund stores. *)
GovPayRefundStatuses == {"submitted", "success", "error"}
InternalStatuses == {"refund-requested", "refund-success", "refund-error"}

Refund == [id: Ids, ref: References, status: InternalStatuses \cup GovPayRefundStatuses]
BulkRefund == [id: AnyId, status: {"refund-pending", "refund-requested"}, amount: Nat]
RefundMade == [pid: Payments, amount: Nat, state: GovPayRefundStatuses]

(* A session as a handler read it: its id and its two arrays. *)
Session(p, list, entries) == [pid |-> p, list |-> list, bulk |-> entries]

(* pc: where the request has got to; sess: the copy of the session it works
   on; amount, ref, id: what it is about; avail: the amount available when it
   asked; good: the refund it asked about succeeded; todo: the sessions still
   on its list; done: refunds to send messages of; file: the entries of an
   upload still to be written. *)
Idle == [pc |-> "idle", sess |-> Session(NoPayment, <<>>, <<>>), amount |-> 0,
         ref |-> NoReference, id |-> 0, avail |-> 0, good |-> FALSE, todo |-> {}, done |-> {},
         file |-> {}]

(* The ids in an array of refunds, and whether a status is among them. *)
IdsIn(list) == {list[i].id : i \in DOMAIN list}
HasStatus(list, status) == \E i \in DOMAIN list : list[i].status = status

(* mapGovPayStatusToInternal. *)
MapStatus(status) ==
  CASE status = "submitted" -> "refund-requested"
    [] status = "success"   -> "refund-success"
    [] status = "error"     -> "refund-error"

(* Mutant: an empty array is written like any other. *)
PatchPaymentResourceClears(p, list, entries) ==
  /\ refunds' = [refunds EXCEPT ![p] = list]
  /\ bulk' = [bulk EXCEPT ![p] = entries]

(* PatchPaymentResource, of the two arrays: an empty one is not in the
   update, another replaces what is stored. *)
PatchPaymentResource(p, list, entries) ==
  /\ refunds' = [refunds EXCEPT ![p] = IF list = <<>> THEN @ ELSE list]
  /\ bulk' = [bulk EXCEPT ![p] = IF entries = <<>> THEN @ ELSE entries]

-----------------------------------------------------------------------------
(* A request begins.  Clients make a bounded number of them.  An upload only
   adds to arrays, in the database, and overlaps with none. *)
Busy == \E s \in Slots : req[s].pc \notin {"idle", "upload"}

Begin(s, op) ==
  /\ op \in Ops
  /\ req[s].pc = "idle"
  /\ overlapped' = (overlapped \/ Busy)
  /\ UNCHANGED faults

ClientBegins(s, op) == Begin(s, op) /\ issued < MaxRequests /\ issued' = issued + 1

SchedulerBegins(s, op) == Begin(s, op) /\ UNCHANGED issued

(* A provider makes a refund of p and answers with its id. *)
MakeRefund(p, amount, state) ==
  /\ Len(made) < MaxRefunds
  /\ made' = Append(made, [pid |-> p, amount |-> amount, state |-> state])
  /\ left' = [left EXCEPT ![p] = @ - amount]

NewId == Len(made) + 1

Oldest(p) == Min(IdsIn(refunds[p]))

(* Mutant: the newest come first. *)
BatchOfNewest(found) ==
  {b \in SUBSET found :
     /\ Cardinality(b) = Min({RefundBatchSize, Cardinality(found)})
     /\ \A p \in b, q \in found \ b : Oldest(p) > Oldest(q)}

(* The sessions in found, limited to the batch with the oldest refunds. *)
Batch(found) ==
  {b \in SUBSET found :
     /\ Cardinality(b) = Min({RefundBatchSize, Cardinality(found)})
     /\ \A p \in b, q \in found \ b : Oldest(p) < Oldest(q)}
=============================================================================
