---------------------------- MODULE PaymentState ----------------------------
(***************************************************************************)
(* The state every handler of the payment journey works on, and the two    *)
(* calls they share: PatchPaymentSession and the "payment processed"       *)
(* message.                                                                *)
(*                                                                         *)
(* Requests run concurrently.  A slot holds one request in flight: where   *)
(* it has got to (pc), the payment it is about, the session it read (a     *)
(* snapshot that grows stale), and the update it is going to write.  Each  *)
(* read of the collection, each call of a provider, each write and each    *)
(* message is a step of its own, since other requests run between them.    *)
(***************************************************************************)
EXTENDS Providers

CONSTANTS
  Slots,           \* requests in flight at once
  Ops,             \* the endpoints in use: patch, journey, govpay, paypal, status-check
  OfferedMethods,  \* payment methods that PATCH requests carry
  ReturnStates,    \* provider states in which a payer may be sent back to the callback
  MaxRequests,     \* bound: requests made by clients and payers
  MaxFaults        \* bound: calls that fail and instances that stop

ASSUME RequestsAssumption ==
  /\ OfferedMethods \subseteq PaymentMethods
  /\ {MaxRequests, MaxFaults} \subseteq Nat

VARIABLES
  db,       \* the collection
  age,      \* time since created_at
  ext,      \* the providers' payments
  sent,     \* "payment processed" messages in Kafka, per payment
  req,      \* the requests in flight
  trusted,  \* history: payments a callback called paid while GOV.UK Pay had not finished
  issued,   \* requests so far
  faults    \* faults so far

vars == <<db, age, ext, sent, req, trusted, issued, faults>>
outside == <<age, ext, trusted, issued, faults>>

(* Bound: the count of messages stops at "two or more". *)
MaxSent == 2

PCs == {"idle", "patch-read", "patch-write", "announce", "journey-create",
        "journey-store", "govpay-status", "paypal-order", "paypal-capture",
        "sweep", "sweep-status", "sweep-announce"}

Request ==
  [pc: PCs, pid: Payments \cup {NoPayment}, sess: PaymentResource, upd: PaymentResource,
   late: BOOLEAN, next: {"idle", "announce"}, todo: SUBSET Payments]

Idle == [pc |-> "idle", pid |-> NoPayment, sess |-> Blank, upd |-> Blank,
         late |-> FALSE, next |-> "idle", todo |-> {}]

(* What is left of a request when it is done with its payment: nothing, or
   the rest of a status check's list. *)
Remainder(r) == IF r.todo = {} THEN Idle ELSE [Idle EXCEPT !.pc = "sweep", !.todo = r.todo]

(* A client or a payer makes a request about p, and it reads the session. *)
Begin(s, op, p) ==
  /\ op \in Ops
  /\ req[s].pc = "idle"
  /\ issued < MaxRequests
  /\ db[p].status # ""
  /\ issued' = issued + 1

(* The payer comes back from a payment held by that provider. *)
SentBack(p, by) ==
  \E j \in Refs : ext[j].pid = p /\ ext[j].by = by /\ ext[j].state \in ReturnStates

(* What the providers hold under an identity, if anything. *)
Held(ref) == IF ref \in Refs THEN ext[ref] ELSE NotMade

(* The request in slot s goes on to PatchPaymentSession with an update. *)
CallPatch(r, update, next) ==
  [r EXCEPT !.pc = "patch-read", !.sess = Blank, !.late = FALSE, !.upd = update, !.next = next]

-----------------------------------------------------------------------------
(* Mutant: a pending session stays pending. *)
PatchReadWithoutOpening(s) ==
  /\ req[s].pc = "patch-read"
  /\ req' = [req EXCEPT ![s].pc = "patch-write"]
  /\ UNCHANGED <<db, sent, outside>>

(* PatchPaymentSession reads the session again: if it is pending then, the
   update makes it in-progress, whatever status the caller asked for. *)
PatchRead(s) ==
  /\ req[s].pc = "patch-read"
  /\ req' = [req EXCEPT ![s].pc = "patch-write",
                        ![s].upd.status = IF db[req[s].pid].status = "pending"
                                          THEN "in-progress" ELSE @]
  /\ UNCHANGED <<db, sent, outside>>

(* It then writes the update over whatever is stored by now. *)
PatchWrite(s) ==
  LET r == req[s] IN
  /\ r.pc = "patch-write"
  /\ db' = [db EXCEPT ![r.pid] = PatchPaymentResource(@, r.upd)]
  /\ req' = [req EXCEPT ![s] = IF r.next = "announce"
                               THEN [Idle EXCEPT !.pc = "announce", !.pid = r.pid]
                               ELSE Remainder(r)]
  /\ UNCHANGED <<sent, outside>>

(* One more message about p; its consumers see the payment id alone. *)
ProduceMessage(p) == sent' = [sent EXCEPT ![p] = IF @ < MaxSent THEN @ + 1 ELSE @]

(* The callbacks send it after their write. *)
Announce(s) ==
  /\ req[s].pc = "announce"
  /\ ProduceMessage(req[s].pid)
  /\ req' = [req EXCEPT ![s] = Idle]
  /\ UNCHANGED <<db, outside>>
=============================================================================
