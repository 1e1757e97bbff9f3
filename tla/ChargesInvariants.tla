-------------------------- MODULE ChargesInvariants --------------------------
(***************************************************************************)
(* The inductive invariant of charges: what a request has read of a        *)
(* session, of its costs and of the provider's answers still holds when it *)
(* is used, because a session keeps its owner and its amount, and a charge *)
(* its payment, its amount and its success.                                *)
(*                                                                         *)
(* b is the collection, a the costs sessions were created for, c the       *)
(* charges.                                                                *)
(***************************************************************************)
EXTENDS Charges

(* Charge j was made for session p, or there is no such charge. *)
ChargeOf(c, j, p) == j # 0 => j \in DOMAIN c /\ c[j].pid = p

(* The amount of a session is the sum of what was agreed, and its payment at
   a provider its own. *)
SessionTrue(b, a, c, p) ==
  b[p].status # "" => b[p].amount = getTotalAmount(a[p]) /\ ChargeOf(c, b[p].ref, p)

(* There are grounds to call p paid: money, or a callback's trust. *)
Grounds(c, p) ==
  \E j \in DOMAIN c : c[j].pid = p /\ (c[j].state = "success" \/ c[j].trusted)

PaidTrue(b, c, p) == b[p].status = "paid" => Grounds(c, p)

(* w may start a payment of a session of this owner. *)
MayPay(w, owner) ==
  w.id = owner \/ (w.type = "key" /\ HasPrivilege(w, {"elevated", "payment"}))

ChargeTrue(b, a, x) ==
  /\ b[x.pid].status # ""
  /\ x.pence = Owed(a[x.pid]) /\ x.pence = Owed(x.items)
  /\ x.account # "paypal" =>
       validateClassOfPayment(x.items) /\ x.account = addGovPayHeaders(x.items)
  /\ MayPay(x.starter, b[x.pid].owner)

(* A request in flight is about a session it has read; the costs it read are
   others than those agreed, maybe, of the same sum. *)
JourneyTrue(b, r) ==
  r.pc = "journey" =>
    /\ r.who \in Callers /\ MayPay(r.who, b[r.pid].owner)
    /\ validateClassOfPayment(r.items)

RequestTrue(b, a, c, r) ==
  r.pc # "idle" =>
    /\ r.pid \in Payments /\ b[r.pid].status # ""
    /\ r.sess.amount = getTotalAmount(a[r.pid]) /\ r.sess.amount = getTotalAmount(r.items)
    /\ ChargeOf(c, r.sess.ref, r.pid)
    /\ JourneyTrue(b, r)
    /\ r.pc = "patch" /\ r.status = "paid" => Grounds(c, r.pid)

IInv ==
  /\ TypeOK
  /\ \A p \in Payments : SessionTrue(session, agreed, charges, p) /\ PaidTrue(session, charges, p)
  /\ \A j \in DOMAIN charges : ChargeTrue(session, agreed, charges[j])
  /\ \A s \in Slots : RequestTrue(session, agreed, charges, req[s])

-----------------------------------------------------------------------------
(* With one slot what a request knows of a session stays true as well: nobody
   else writes it in between. *)
OneAtATime == \E s : Slots = {s}

(* Some method was chosen: nothing takes such a session back to pending. *)
Opened(b, p) == b[p].status \notin {"", "pending"}

(* A request that may call p paid or failed. *)
Deciding(r) == r.pc \in {"callback", "capture", "check"} \/ (r.pc = "patch" /\ r.status # "")

RequestAlone(b, r) ==
  /\ r.status # "pending"
  /\ Deciding(r) \/ r.pc = "journey" => Opened(b, r.pid)
  /\ Deciding(r) => b[r.pid].status # "paid"

(* A captured order has its session paid, or about to be. *)
CapturesUnderWay(b, c, r) ==
  \A j \in DOMAIN c :
    c[j].account = "paypal" /\ c[j].state = "success" =>
      \/ b[c[j].pid].status = "paid"
      \/ r.pc = "patch" /\ r.pid = c[j].pid /\ r.status = "paid"

ChargesOpened(b, c) == \A j \in DOMAIN c : Opened(b, c[j].pid)

(* Costs that nobody changed can be read, and add up as they did. *)
Readable == \A p \in Payments : session[p].status # "" => GetPaymentSession(p) = "Success"

AloneInv ==
  /\ ChargesOpened(session, charges)
  /\ \A s \in Slots : RequestAlone(session, req[s])
  /\ changes = 0 => Readable /\ \A s \in Slots : CapturesUnderWay(session, charges, req[s])
=============================================================================
