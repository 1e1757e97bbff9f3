------------------------- MODULE PaymentsInvariants -------------------------
(***************************************************************************)
(* The inductive invariant of the payment journey: the safety properties   *)
(* of Payments, and what they need to know of the requests in flight.      *)
(***************************************************************************)
EXTENDS Payments

Opened(p) == db[p].status \notin OpenStatuses

Patching == {"patch-read", "patch-write"}

(* A PATCH of a session that may still be pending: it carries a method and,
   once the session has been read again, the status in-progress. *)
Choosing(r) ==
  /\ r.pc \in Patching
  /\ r.upd = [Blank EXCEPT !.method = r.upd.method,
                           !.status = IF r.pc = "patch-write" THEN "in-progress" ELSE ""]

(* Every request in flight is about a session that exists, and about one
   that is open unless it is about to open it; so are those a status check
   has on its list. *)
RequestsAreOpen ==
  \A s \in Slots :
    /\ req[s].todo \subseteq {p \in Payments : Opened(p)}
    /\ InHand(req[s]) =>
         /\ db[req[s].pid].status # ""
         /\ Opened(req[s].pid) \/ Choosing(req[s])
         /\ req[s].upd.status # "pending"

OpenInv == PendingIsUntouched /\ trusted \subseteq {p \in Payments : Opened(p)} /\ RequestsAreOpen

(* The snapshots and updates of requests name payments of their session. *)
RequestNamesAreOwn ==
  \A s \in Slots : InHand(req[s]) =>
    Owned(req[s].sess, req[s].pid) /\ Owned(req[s].upd, req[s].pid)

(* A payment just made is known to one request only, and not to the payer. *)
Storing(s) == req[s].pc = "journey-store"

FreshRefs ==
  \A s \in Slots : Storing(s) =>
    /\ req[s].upd.ref \in Refs
    /\ ext[req[s].upd.ref].state = "reserved"
    /\ \A t \in Slots : Storing(t) /\ req[t].upd.ref = req[s].upd.ref => t = s

CapturesNamed == \A s \in Slots : req[s].pc = "paypal-capture" => req[s].sess.ref \in Refs

NamesInv == NamesAreOwn /\ RequestNamesAreOwn /\ FreshRefs /\ CapturesNamed

(* A request that is going to store paid, or to announce, has grounds to. *)
RequestsHaveGrounds ==
  \A s \in Slots : InHand(req[s]) =>
    /\ req[s].upd.status = "paid" => GroundsToPay(req[s].pid)
    /\ req[s].pc \in {"announce", "sweep-announce"} \/ req[s].next = "announce" =>
         GroundsToTell(req[s].pid)

GroundsInv == PaidHasGrounds /\ AnnouncedHasGrounds /\ RequestsHaveGrounds

IInv == TypeOK /\ OpenInv /\ NamesInv /\ GroundsInv

-----------------------------------------------------------------------------
(* With one slot requests do not overlap, and more is true of them: what a
   request holds is not only true, it is what the collection still says.  As
   above d is the collection, x the providers' payments, n the messages, u the
   trusted payments and r the request. *)
OneAtATime == \E s : Slots = {s}

(* What a status check has still on its list is as it was when listed. *)
ListIsCurrent(d, r) ==
  /\ \A p \in r.todo : d[p].status = "in-progress"
  /\ InHand(r) => r.pid \notin r.todo

(* Where a request may still decide on a status, or holds one to be stored,
   the session is not paid yet. *)
Deciding == {"govpay-status", "paypal-order", "paypal-capture", "sweep-status"}

NotYetPaid(d, r) ==
  InHand(r) /\ (r.pc \in Deciding \/ r.upd.status # "") => d[r.pid].status # "paid"

(* An update opens a pending session or closes it, and what is going to be
   announced is closed, or will be by the write before it. *)
Closes(doc) == doc.completed /\ doc.status \in ClosedStatuses

UpdateCloses(d, r) == InHand(r) =>
  /\ \/ r.upd.status \in ClosedStatuses \cup {""}
     \/ r.upd.status = "in-progress" /\ d[r.pid].status = "pending"
  /\ r.upd.txn # NoRef => r.upd.status # ""
  /\ r.pc = "journey-store" => r.upd = [Blank EXCEPT !.ref = r.upd.ref]
  /\ r.next = "announce" => Closes(r.upd)
  /\ r.pc = "announce" => Closes(d[r.pid])
  /\ r.pc = "sweep-announce" => r.upd.completed /\ r.upd.status = "paid"

(* The request is about to store p as paid, or to announce it. *)
StoresPaid(r, p) == r.pc \in Patching /\ r.pid = p /\ r.upd.status = "paid"
Tells(r, p) == r.pc = "announce" /\ r.pid = p

(* As long as no call failed, an order that was captured is recorded and
   announced, or the request that captured it is going to do so ... *)
Captured(payment) == payment.by = "paypal" /\ payment.state = "captured"

CapturesUnderWay(d, x, n, r) ==
  \A j \in Refs : Captured(x[j]) =>
    LET p == x[j].pid IN
    \/ d[p].txn = j /\ d[p].status = "paid" /\ (n[p] > 0 \/ Tells(r, p))
    \/ StoresPaid(r, p) /\ r.upd.txn = j /\ r.next = "announce"

(* ... and so is any paid session; a status check announces before it stores. *)
NewsUnderWay(d, n, u, r) ==
  /\ \A p \in Payments :
       /\ n[p] > 0 => Closes(d[p]) \/ (StoresPaid(r, p) /\ r.upd.completed)
       /\ d[p].status = "paid" /\ p \notin u => n[p] > 0 \/ Tells(r, p)
  /\ StoresPaid(r, r.pid) => r.next = "announce" \/ n[r.pid] > 0 \/ r.pid \in u

RequestAlone(d, r) == ListIsCurrent(d, r) /\ NotYetPaid(d, r) /\ UpdateCloses(d, r)

AllUnderWay(d, x, n, u, r) == CapturesUnderWay(d, x, n, r) /\ NewsUnderWay(d, n, u, r)

AloneInv ==
  \A s \in Slots :
    RequestAlone(db, req[s]) /\ (faults = 0 => AllUnderWay(db, ext, sent, trusted, req[s]))
=============================================================================
