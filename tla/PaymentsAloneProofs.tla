------------------------ MODULE PaymentsAloneProofs ------------------------
(***************************************************************************)
(* The payment journey when requests do not overlap, that is with one      *)
(* slot, for any number of sessions, provider payments and faults.         *)
(*                                                                         *)
(* AloneInv is inductive given IInv.  Most steps neither store nor send    *)
(* anything: of those there remains to be shown what AloneInv says of the  *)
(* request itself (QuietTurn).                                             *)
(***************************************************************************)
EXTENDS PaymentsProofs

(* What AloneInv gives of the request there is. *)
LEMMA TheRequest ==
  ASSUME OneAtATime, IInv, AloneInv, NEW s \in Slots
  PROVE  /\ Slots = {s} /\ RequestAlone(db, req[s])
         /\ faults = 0 => AllUnderWay(db, ext, sent, trusted, req[s])
BY DEF OneAtATime, AloneInv

(* A captured order was made for a session. *)
LEMMA CapturedHasSession ==
  ASSUME IInv, NEW j \in Refs, Captured(ext[j]) PROVE ext[j].pid \in Payments
<1>1. ext[j] \in ProviderPayment
  BY PartsOfIInv DEF Parts, TypeOK
<1> QED
  BY <1>1 DEF Captured, ProviderPayment

(* No session changes in what matters, no order is captured, nothing is sent,
   and what was under way still is. *)
SameOutcome(doc, new) ==
  \/ new.status = doc.status /\ new.txn = doc.txn /\ new.completed = doc.completed
  \/ doc.status = "" /\ new.status = "pending"

LEMMA NothingSaid ==
  ASSUME NEW d, NEW e, NEW x, NEW y, NEW n, NEW u, NEW v, NEW r, NEW q,
         \A p \in Payments : SameOutcome(d[p], e[p]),
         \A j \in Refs : Captured(y[j]) =>
           Captured(x[j]) /\ y[j].pid = x[j].pid /\ x[j].pid \in Payments,
         u \subseteq v,
         \A p : Tells(r, p) => Tells(q, p),
         \A p : StoresPaid(r, p) => /\ StoresPaid(q, p) /\ q.upd.txn = r.upd.txn
                                    /\ q.upd.completed = r.upd.completed /\ q.next = r.next,
         StoresPaid(q, q.pid) => q.next = "announce" \/ n[q.pid] > 0 \/ q.pid \in v,
         AllUnderWay(d, x, n, u, r)
  PROVE  AllUnderWay(e, y, n, v, q)
<1>1. ASSUME NEW j \in Refs, Captured(y[j])
      PROVE  LET p == y[j].pid IN
             \/ e[p].txn = j /\ e[p].status = "paid" /\ (n[p] > 0 \/ Tells(q, p))
             \/ StoresPaid(q, p) /\ q.upd.txn = j /\ q.next = "announce"
  <2> DEFINE p == x[j].pid
  <2>1. Captured(x[j]) /\ y[j].pid = p /\ p \in Payments
    BY <1>1
  <2>2. \/ d[p].txn = j /\ d[p].status = "paid" /\ (n[p] > 0 \/ Tells(r, p))
        \/ StoresPaid(r, p) /\ r.upd.txn = j /\ r.next = "announce"
    BY <2>1 DEF AllUnderWay, CapturesUnderWay
  <2> HIDE DEF p
  <2>3. SameOutcome(d[p], e[p])
    BY <2>1
  <2> QED
    BY <2>1, <2>2, <2>3 DEF SameOutcome
<1>2. ASSUME NEW p \in Payments
      PROVE  /\ n[p] > 0 => Closes(e[p]) \/ (StoresPaid(q, p) /\ q.upd.completed)
             /\ e[p].status = "paid" /\ p \notin v => n[p] > 0 \/ Tells(q, p)
  <2>1. /\ n[p] > 0 => Closes(d[p]) \/ (StoresPaid(r, p) /\ r.upd.completed)
        /\ d[p].status = "paid" /\ p \notin u => n[p] > 0 \/ Tells(r, p)
    BY DEF AllUnderWay, NewsUnderWay
  <2>2. Closes(d[p]) => Closes(e[p])
    BY DEF Closes, SameOutcome, ClosedStatuses
  <2>3. e[p].status = "paid" => d[p].status = "paid"
    BY DEF SameOutcome
  <2> QED
    BY <2>1, <2>2, <2>3
<1> QED
  BY <1>1, <1>2 DEF AllUnderWay, CapturesUnderWay, NewsUnderWay

(* What is to be shown of a step that moves the request on to q. *)
LEMMA Turn ==
  ASSUME OneAtATime, IInv, NEW s \in Slots, NEW q, req' = [req EXCEPT ![s] = q],
         RequestAlone(db', q),
         faults' = 0 => AllUnderWay(db', ext', sent', trusted', q)
  PROVE  AloneInv'
<1>1. req'[s] = q /\ Slots = {s}
  BY PartsOfIInv DEF Parts, TypeOK, OneAtATime
<1> QED
  BY <1>1 DEF AloneInv

(* The same of one that stores and sends nothing. *)
LEMMA QuietTurn ==
  ASSUME OneAtATime, IInv, AloneInv, NEW s \in Slots, NEW q, req' = [req EXCEPT ![s] = q],
         UNCHANGED <<db, sent, faults>>, trusted \subseteq trusted',
         \A j \in Refs : Captured(ext'[j]) => Captured(ext[j]) /\ ext'[j].pid = ext[j].pid,
         req[s].pc \notin Patching \cup {"announce"},
         RequestAlone(db, q),
         StoresPaid(q, q.pid) => q.next = "announce" \/ q.pid \in trusted'
  PROVE  AloneInv'
<1>1. faults = 0 => AllUnderWay(db, ext, sent, trusted, req[s])
  BY TheRequest
<1>2. \A p : ~Tells(req[s], p) /\ ~StoresPaid(req[s], p)
  BY DEF Tells, StoresPaid
<1>3. \A j \in Refs : Captured(ext'[j]) =>
        Captured(ext[j]) /\ ext'[j].pid = ext[j].pid /\ ext[j].pid \in Payments
  BY CapturedHasSession
<1>4. \A p \in Payments : SameOutcome(db[p], db[p])
  BY DEF SameOutcome
<1>5. faults = 0 => AllUnderWay(db, ext', sent, trusted', q)
  BY <1>1, <1>2, <1>3, <1>4, NothingSaid
<1> QED
  BY <1>5, Turn

-----------------------------------------------------------------------------
(* What AloneInv says of the requests the steps make. *)

(* One that has ended, or has the rest of a list to do. *)
LEMMA RemainderAlone ==
  ASSUME NEW d, NEW r, \A p \in r.todo : d[p].status = "in-progress"
  PROVE  /\ RequestAlone(d, Remainder(r)) /\ RequestAlone(d, Idle)
         /\ \A p : ~StoresPaid(Remainder(r), p) /\ ~StoresPaid(Idle, p)
         /\ \A p : ~Tells(Remainder(r), p) /\ ~Tells(Idle, p)
BY DEF RequestAlone, ListIsCurrent, NotYetPaid, UpdateCloses, Remainder, Idle, InHand, StoresPaid,
       Tells, Patching, Deciding

(* One that goes on to write an update that closes a session, or names no
   status. *)
MayPatch(d, r, update, next) ==
  /\ \A q \in r.todo : d[q].status = "in-progress"
  /\ r.pid \notin r.todo
  /\ \/ update.status \in ClosedStatuses /\ d[r.pid].status # "paid"
     \/ update.status = "" /\ update.txn = NoRef
  /\ next = "announce" => Closes(update)

LEMMA CallPatchAlone ==
  ASSUME NEW d, NEW r \in Request, NEW update \in PaymentResource,
         NEW next \in {"idle", "announce"}, MayPatch(d, r, update, next)
  PROVE  /\ RequestAlone(d, CallPatch(r, update, next))
         /\ CallPatch(r, update, next).pid = r.pid /\ CallPatch(r, update, next).next = next
         /\ CallPatch(r, update, next).upd = update
<1> DEFINE c == CallPatch(r, update, next)
<1>1. /\ c.pc = "patch-read" /\ c.pid = r.pid /\ c.upd = update /\ c.next = next
      /\ c.todo = r.todo
  BY DEF CallPatch, Request
<1> HIDE DEF c
<1>2. RequestAlone(d, c)
  BY <1>1 DEF RequestAlone, ListIsCurrent, NotYetPaid, UpdateCloses, Deciding, MayPatch,
              ClosedStatuses
<1> QED
  BY <1>1, <1>2 DEF c

(* One that has just read a session. *)
LEMMA SnapshotAlone ==
  ASSUME NEW d, NEW r, r.upd = Blank, r.next = "idle",
         r.pc \in {"journey-create"} \cup Deciding,
         \A q \in r.todo : d[q].status = "in-progress", r.pid \notin r.todo,
         r.pc = "journey-create" \/ d[r.pid].status # "paid"
  PROVE  RequestAlone(d, r) /\ \A p : ~StoresPaid(r, p)
<1>1. Blank.status = "" /\ Blank.txn = NoRef
  BY DEF Blank
<1> QED
  BY <1>1 DEF RequestAlone, ListIsCurrent, NotYetPaid, UpdateCloses, Deciding, StoresPaid, Patching

(* The statuses the callbacks and the status check store. *)
LEMMA VerdictCloses ==
  ASSUME NEW x
  PROVE  /\ LET v == CheckPaymentProviderStatus(callGovPay(x)) IN
              v.status \in ClosedStatuses /\ (v.status = "paid" => v.type \in {"Success", "Created"})
         /\ GetPaymentStatus(callGovPay(x)) \in ClosedStatuses
         /\ CaptureStatus(x) \in ClosedStatuses /\ (CaptureStatus(x) = "paid" <=> x = "captured")
BY DEF CheckPaymentProviderStatus, callGovPay, GetPaymentStatus, CaptureStatus, Answer, Verdict,
       ClosedStatuses

-----------------------------------------------------------------------------
(* The steps that store and send nothing. *)

LEMMA PatchBeginsAlone ==
  ASSUME OneAtATime, IInv, AloneInv, NEW s \in Slots, NEW p \in Payments,
         NEW m \in OfferedMethods,         HandlePatchPaymentSession(s, p, m)
  PROVE  AloneInv'
<1> DEFINE r0 == [Idle EXCEPT !.pid = p]
           upd == [Blank EXCEPT !.method = m]
           q == CallPatch(r0, upd, "idle")
<1>1. /\ r0 \in Request /\ r0.pid = p /\ r0.todo = {} /\ upd.status = "" /\ upd.txn = NoRef
      /\ upd \in PaymentResource
  BY BlankType, RequestsAssumption DEF Idle, Request, Blank, PaymentResource
<1>2. /\ req[s].pc = "idle" /\ req' = [req EXCEPT ![s] = q]
      /\ UNCHANGED <<db, sent, faults, trusted, ext>>
  BY DEF HandlePatchPaymentSession, Begin
<1> HIDE DEF r0, upd
<1>3. RequestAlone(db, q) /\ q.upd = upd
  <2>1. MayPatch(db, r0, upd, "idle")
    BY <1>1 DEF MayPatch
  <2> QED
    BY <1>1, <2>1, CallPatchAlone
<1> HIDE DEF q
<1>4. \A t : ~StoresPaid(q, t)
  BY <1>1, <1>3 DEF StoresPaid
<1> QED
  BY <1>2, <1>3, <1>4, QuietTurn DEF Patching

LEMMA JourneyBeginsAlone ==
  ASSUME OneAtATime, IInv, AloneInv, NEW s \in Slots, NEW p \in Payments,
         CreateExternalPaymentJourney(s, p)
  PROVE  AloneInv'
<1> DEFINE q == [Idle EXCEPT !.pc = "journey-create", !.pid = p, !.sess = TransformToRest(db[p])]
<1>1. /\ req[s].pc = "idle" /\ req' = [req EXCEPT ![s] = q]
      /\ UNCHANGED <<db, sent, faults, trusted, ext>>
  BY DEF CreateExternalPaymentJourney, Begin
<1>2. q.pc = "journey-create" /\ q.pid = p /\ q.upd = Blank /\ q.next = "idle" /\ q.todo = {}
  BY DEF Idle
<1> HIDE DEF q
<1>3. RequestAlone(db, q) /\ \A t : ~StoresPaid(q, t)
  BY <1>2, SnapshotAlone
<1> QED
  BY <1>1, <1>3, QuietTurn DEF Patching

(* A callback that begins finds the session not paid. *)
LEMMA GovPayBeginsAlone ==
  ASSUME OneAtATime, IInv, AloneInv, NEW s \in Slots, NEW p \in Payments,
         HandleGovPayCallback(s, p)
  PROVE  AloneInv'
<1> DEFINE q == [Idle EXCEPT !.pc = "govpay-status", !.pid = p, !.late = IsExpired(age[p]),
                             !.sess = TransformToRest(db[p])]
<1>1. /\ req[s].pc = "idle" /\ req' = [req EXCEPT ![s] = q] /\ db[p].status # "paid"
      /\ UNCHANGED <<db, sent, faults, trusted, ext>>
  BY DEF HandleGovPayCallback, Begin
<1>2. q.pc = "govpay-status" /\ q.pid = p /\ q.upd = Blank /\ q.next = "idle" /\ q.todo = {}
  BY DEF Idle
<1> HIDE DEF q
<1>3. RequestAlone(db, q) /\ \A t : ~StoresPaid(q, t)
  BY <1>1, <1>2, SnapshotAlone DEF Deciding
<1> QED
  BY <1>1, <1>3, QuietTurn DEF Patching

LEMMA PayPalBeginsAlone ==
  ASSUME OneAtATime, IInv, AloneInv, NEW s \in Slots, NEW p \in Payments,
         HandlePayPalCallback(s, p)
  PROVE  AloneInv'
<1> DEFINE doc == TransformToRest(db[p])
           r0 == [Idle EXCEPT !.pid = p]
           upd == TransformToDB([doc EXCEPT !.status = "expired"])
           late == CallPatch(r0, upd, "idle")
           asks == [Idle EXCEPT !.pc = "paypal-order", !.pid = p, !.sess = doc]
<1>1. /\ req[s].pc = "idle" /\ db[p].status # "paid"
      /\ req' = [req EXCEPT ![s] = late] \/ req' = [req EXCEPT ![s] = asks]
      /\ UNCHANGED <<db, sent, faults, trusted, ext>>
  BY DEF HandlePayPalCallback, Begin
<1>2. asks.pc = "paypal-order" /\ asks.pid = p /\ asks.upd = Blank /\ asks.next = "idle" /\ asks.todo = {}
  BY DEF Idle
<1>3. r0 \in Request /\ r0.pid = p /\ r0.todo = {}
  BY BlankType DEF Idle, Request
<1>4. upd.status = "expired" /\ upd.txn = NoRef /\ upd \in PaymentResource
  BY InCollection DEF TransformToRest, TransformToDB, PaymentResource, Statuses, ClosedStatuses,
                      AnyRef
<1> HIDE DEF asks, upd, r0, doc
<1>5. RequestAlone(db, asks) /\ \A t : ~StoresPaid(asks, t)
  BY <1>1, <1>2, SnapshotAlone DEF Deciding
<1>6. RequestAlone(db, late) /\ late.upd = upd
  <2>1. MayPatch(db, r0, upd, "idle")
    BY <1>1, <1>3, <1>4 DEF MayPatch, ClosedStatuses
  <2> QED
    BY <1>3, <1>4, <2>1, CallPatchAlone
<1> HIDE DEF late
<1>7. \A t : ~StoresPaid(late, t)
  BY <1>4, <1>6 DEF StoresPaid
<1> QED
  BY <1>1, <1>5, <1>6, <1>7, QuietTurn DEF Patching

(* What is known of a request about to ask a provider. *)
LEMMA AboutToAsk ==
  ASSUME OneAtATime, IInv, AloneInv, NEW s \in Slots, req[s].pc \in Deciding
  PROVE  /\ req[s] \in Request /\ req[s].pid \in Payments /\ req[s].sess \in PaymentResource
         /\ db[req[s].pid].status # "paid"
         /\ \A p \in req[s].todo : db[p].status = "in-progress"
         /\ req[s].pid \notin req[s].todo
         /\ RequestAlone(db, req[s]) /\ req[s].pc \notin Patching \cup {"announce"}
<1>1. InHand(req[s])
  BY DEF Deciding, InHand
<1> QED
  BY <1>1, TheRequest, InSlot DEF RequestAlone, ListIsCurrent, NotYetPaid, Deciding, Patching

(* GOV.UK Pay's answer: a session to be paid is announced, or trusted. *)
LEMMA GovPayStatusAlone ==
  ASSUME OneAtATime, IInv, AloneInv, NEW s \in Slots, GovPayCallbackStatus(s)
  PROVE  AloneInv'
<1> DEFINE r == req[s]
           ref == r.sess.ref
           v == CheckPaymentProviderStatus(callGovPay(Held(ref)))
           expired == [r.sess EXCEPT !.status = "expired"]
           closed == [r.sess EXCEPT !.status = v.status, !.prov = IF v.named THEN ref ELSE NoRef,
                                    !.completed = @ \/ v.type = "Success"]
           next == IF v.type = "Success" THEN "announce" ELSE "idle"
<1>1. /\ r \in Request /\ r.pid \in Payments /\ r.sess \in PaymentResource
      /\ db[r.pid].status # "paid" /\ r.pid \notin r.todo
      /\ \A p \in r.todo : db[p].status = "in-progress"
      /\ r.pc \notin Patching \cup {"announce"}
  BY AboutToAsk DEF GovPayCallbackStatus, Deciding
<1>2. UNCHANGED <<db, ext, sent, faults>> /\ trusted \subseteq trusted'
  BY DEF GovPayCallbackStatus
<1>3. ASSUME NEW q, req' = [req EXCEPT ![s] = q], RequestAlone(db, q),
             StoresPaid(q, q.pid) => q.next = "announce" \/ q.pid \in trusted'
      PROVE  AloneInv'
  BY <1>1, <1>2, <1>3, QuietTurn
<1>4. CASE req' = [req EXCEPT ![s] = Idle]
  <2>1. RequestAlone(db, Idle) /\ ~StoresPaid(Idle, Idle.pid)
    BY <1>1, RemainderAlone
  <2> QED
    BY <1>3, <1>4, <2>1
<1>5. CASE req' = [req EXCEPT ![s] = CallPatch(r, TransformToDB(expired), "idle")]
  <2>1. expired \in PaymentResource
    BY <1>1 DEF PaymentResource, Statuses, ClosedStatuses
  <2>2. /\ TransformToDB(expired) \in PaymentResource
        /\ TransformToDB(expired).status = "expired"
    <3>1. expired.status = "expired"
      BY <1>1 DEF PaymentResource
    <3> HIDE DEF expired
    <3> QED
      BY <2>1, <3>1, TransformType DEF TransformToDB, PaymentResource
  <2> HIDE DEF expired, r
  <2>3. MayPatch(db, r, TransformToDB(expired), "idle")
    BY <1>1, <2>2 DEF MayPatch, ClosedStatuses
  <2> DEFINE q == CallPatch(r, TransformToDB(expired), "idle")
  <2>4. RequestAlone(db, q) /\ q.upd = TransformToDB(expired)
    BY <1>1, <2>2, <2>3, CallPatchAlone
  <2> HIDE DEF q
  <2>5. ~StoresPaid(q, q.pid)
    BY <2>2, <2>4 DEF StoresPaid
  <2> QED
    BY <1>3, <1>5, <2>4, <2>5 DEF q
<1>6. ASSUME req' = [req EXCEPT ![s] = CallPatch(r, TransformToDB(closed), next)],
             trusted' = IF v.type = "Created" THEN trusted \cup {r.pid} ELSE trusted
      PROVE  AloneInv'
  <2>1. v.status \in ClosedStatuses /\ (v.status = "paid" => v.type \in {"Success", "Created"})
    BY VerdictCloses
  <2>3. next \in {"idle", "announce"} /\ (v.type = "Success" <=> next = "announce")
    OBVIOUS
  <2>4. v.type = "Created" => r.pid \in trusted'
    BY <1>6
  <2> HIDE DEF v, next
  <2>5. /\ closed \in PaymentResource /\ closed.status = v.status
        /\ next = "announce" => closed.completed
    BY <1>1, <2>1, <2>3 DEF PaymentResource, Statuses, AnyRef
  <2> HIDE DEF closed
  <2>6. /\ TransformToDB(closed) \in PaymentResource /\ TransformToDB(closed).status = v.status
        /\ next = "announce" => TransformToDB(closed).completed
    BY <2>5, TransformType DEF TransformToDB, PaymentResource
  <2> HIDE DEF r
  <2> DEFINE upd == TransformToDB(closed)
             q == CallPatch(r, upd, next)
  <2>7. next = "announce" => Closes(upd)
    BY <2>1, <2>6 DEF Closes
  <2> HIDE DEF upd
  <2>8. RequestAlone(db, q) /\ q.upd = upd /\ q.pid = r.pid /\ q.next = next
    <3>1. upd \in PaymentResource /\ upd.status \in ClosedStatuses
      BY <2>1, <2>6 DEF upd
    <3>2. MayPatch(db, r, upd, next)
      BY <1>1, <2>7, <3>1 DEF MayPatch
    <3> QED
      BY <1>1, <2>3, <3>1, <3>2, CallPatchAlone
  <2> HIDE DEF q
  <2>9. StoresPaid(q, q.pid) => q.next = "announce" \/ q.pid \in trusted'
    BY <2>1, <2>3, <2>4, <2>6, <2>8 DEF StoresPaid, upd
  <2> QED
    BY <1>3, <1>6, <2>8, <2>9 DEF q, upd
<1> QED
  BY <1>4, <1>5, <1>6 DEF GovPayCallbackStatus

(* PayPal's word of the order: a failure, or the capture comes next. *)
LEMMA PayPalOrderAlone ==
  ASSUME OneAtATime, IInv, AloneInv, NEW s \in Slots, PayPalOrderStatus(s)
  PROVE  AloneInv'
<1> DEFINE r == req[s]
           failed == [r.sess EXCEPT !.status = "failed", !.completed = TRUE]
           upd == TransformToDB(failed)
           on == [r EXCEPT !.pc = "paypal-capture"]
<1>1. /\ r \in Request /\ r.pid \in Payments /\ r.sess \in PaymentResource
      /\ db[r.pid].status # "paid" /\ r.pid \notin r.todo
      /\ \A p \in r.todo : db[p].status = "in-progress"
      /\ r.pc \notin Patching \cup {"announce"} /\ RequestAlone(db, r) /\ r.pc = "paypal-order"
  BY AboutToAsk DEF PayPalOrderStatus, Deciding
<1>2. /\ UNCHANGED <<db, ext, sent, faults, trusted>>
      /\ \/ req' = [req EXCEPT ![s] = Idle]
         \/ req' = [req EXCEPT ![s] = CallPatch(r, upd, "announce")]
         \/ req' = [req EXCEPT ![s] = on]
  BY DEF PayPalOrderStatus, outside
<1>3. RequestAlone(db, Idle) /\ ~StoresPaid(Idle, Idle.pid)
  BY <1>1, RemainderAlone
<1>4. upd \in PaymentResource /\ upd.status = "failed" /\ upd.completed
  <2>1. failed \in PaymentResource /\ failed.status = "failed" /\ failed.completed
    BY <1>1 DEF PaymentResource, Statuses, ClosedStatuses
  <2> HIDE DEF failed
  <2> QED
    BY <2>1, TransformType DEF TransformToDB, PaymentResource
<1>5. Closes(upd) /\ upd.status \in ClosedStatuses
  BY <1>4 DEF Closes, ClosedStatuses
<1>6. /\ on.pc = "paypal-capture" /\ on.pid = r.pid /\ on.upd = r.upd /\ on.next = r.next
      /\ on.todo = r.todo
  BY <1>1 DEF Request
<1> HIDE DEF upd, r, on
<1>7. RequestAlone(db, on) /\ ~StoresPaid(on, on.pid)
  BY <1>1, <1>6 DEF RequestAlone, ListIsCurrent, NotYetPaid, UpdateCloses, StoresPaid, Patching,
                    Deciding, InHand
<1> DEFINE call == CallPatch(r, upd, "announce")
<1>8. RequestAlone(db, call) /\ call.upd = upd
  <2>1. MayPatch(db, r, upd, "announce")
    BY <1>1, <1>5 DEF MayPatch
  <2> QED
    BY <1>1, <1>4, <2>1, CallPatchAlone
<1> HIDE DEF call
<1>9. ~StoresPaid(call, call.pid)
  BY <1>4, <1>8 DEF StoresPaid
<1> QED
  BY <1>1, <1>2, <1>3, <1>7, <1>8, <1>9, QuietTurn DEF r, call

(* The list of a status check is of sessions in progress. *)
LEMMA CheckBeginsAlone ==
  ASSUME OneAtATime, IInv, AloneInv, NEW s \in Slots, HandleCheckPaymentStatus(s)
  PROVE  AloneInv'
<1> DEFINE found == GetIncompleteGovPayPayments(db, age)
           q == [Idle EXCEPT !.pc = "sweep", !.todo = found]
<1>1. /\ req[s].pc = "idle" /\ req' = [req EXCEPT ![s] = q]
      /\ UNCHANGED <<db, sent, faults, trusted, ext>>
  BY DEF HandleCheckPaymentStatus, outside
<1>2. q.pc = "sweep" /\ q.todo = found
  BY DEF Idle
<1>3. \A p \in found : db[p].status = "in-progress"
  BY DEF GetIncompleteGovPayPayments
<1> HIDE DEF q, found
<1>4. RequestAlone(db, q) /\ ~StoresPaid(q, q.pid)
  BY <1>2, <1>3 DEF RequestAlone, ListIsCurrent, NotYetPaid, UpdateCloses, StoresPaid, Patching, InHand
<1> QED
  BY <1>1, <1>4, QuietTurn DEF Patching

LEMMA CheckNextAlone ==
  ASSUME OneAtATime, IInv, AloneInv, NEW s \in Slots, CheckNext(s)
  PROVE  AloneInv'
<1>1. /\ req[s].pc = "sweep" /\ UNCHANGED <<db, sent, faults, trusted, ext>>
      /\ \A p \in req[s].todo : db[p].status = "in-progress"
  BY TheRequest DEF CheckNext, outside, RequestAlone, ListIsCurrent
<1>2. PICK p \in req[s].todo :
        req' = [req EXCEPT ![s] = [Idle EXCEPT !.pc = "sweep-status", !.pid = p,
                                               !.sess = TransformToRest(db[p]),
                                               !.todo = req[s].todo \ {p}]]
  BY DEF CheckNext
<1> DEFINE q == [Idle EXCEPT !.pc = "sweep-status", !.pid = p, !.sess = TransformToRest(db[p]),
                             !.todo = req[s].todo \ {p}]
<1>3. /\ q.pc = "sweep-status" /\ q.pid = p /\ q.upd = Blank /\ q.next = "idle"
      /\ q.todo = req[s].todo \ {p} /\ req' = [req EXCEPT ![s] = q]
  BY <1>2 DEF Idle
<1> HIDE DEF q
<1>4. RequestAlone(db, q) /\ \A t : ~StoresPaid(q, t)
  <2>1. db[q.pid].status # "paid" /\ \A t \in q.todo : db[t].status = "in-progress"
    BY <1>1, <1>3
  <2> QED
    BY <1>3, <2>1, SnapshotAlone DEF Deciding
<1> QED
  BY <1>1, <1>3, <1>4, QuietTurn DEF Patching

(* A request that ends, or goes on with its list, and has stored nothing. *)
LEMMA EndAlone ==
  ASSUME OneAtATime, IInv, AloneInv, NEW s \in Slots,
         \/ req' = [req EXCEPT ![s] = Idle]
         \/ req' = [req EXCEPT ![s] = Remainder(req[s])],
         UNCHANGED <<db, sent, faults, trusted, ext>>,
         req[s].pc \notin Patching \cup {"announce"}
  PROVE  AloneInv'
<1>1. \A p \in req[s].todo : db[p].status = "in-progress"
  BY TheRequest DEF RequestAlone, ListIsCurrent
<1>2. /\ RequestAlone(db, Remainder(req[s])) /\ RequestAlone(db, Idle)
      /\ ~StoresPaid(Remainder(req[s]), Remainder(req[s]).pid) /\ ~StoresPaid(Idle, Idle.pid)
  BY <1>1, RemainderAlone
<1> QED
  BY <1>2, QuietTurn

(* A finished card payment: one that is paid is announced before it is
   stored. *)
LEMMA CheckFindsAlone ==
  ASSUME OneAtATime, IInv, AloneInv, NEW s \in Slots, CheckFinds(s)
  PROVE  AloneInv'
<1> DEFINE r == req[s]
           a == callGovPay(Held(r.sess.ref))
           upd == Closing(a, r.sess.ref)
           call == CallPatch(r, upd, "idle")
           q == [call EXCEPT !.pc = IF GetPaymentStatus(a) = "paid" THEN "sweep-announce"
                                                                    ELSE "patch-read"]
<1>1. /\ r \in Request /\ r.pid \in Payments /\ db[r.pid].status # "paid" /\ r.pid \notin r.todo
      /\ \A p \in r.todo : db[p].status = "in-progress"
      /\ r.pc \notin Patching \cup {"announce"}
  BY AboutToAsk DEF CheckFinds, Deciding
<1>2. /\ UNCHANGED <<db, ext, sent, faults, trusted>> /\ req' = [req EXCEPT ![s] = q]
  BY DEF CheckFinds, outside
<1>3. /\ upd.status = GetPaymentStatus(a) /\ upd.completed /\ upd.txn = NoRef
  BY DEF Closing, Blank
<1>4. GetPaymentStatus(a) \in ClosedStatuses
  BY VerdictCloses
<1>5. /\ q.pc = IF GetPaymentStatus(a) = "paid" THEN "sweep-announce" ELSE "patch-read"
      /\ q.pid = r.pid /\ q.upd = upd /\ q.next = "idle" /\ q.todo = r.todo
  BY <1>1 DEF CallPatch, Request
<1> HIDE DEF q, upd, call, a, r
<1>6. RequestAlone(db, q) /\ ~StoresPaid(q, q.pid)
  BY <1>1, <1>3, <1>4, <1>5 DEF RequestAlone, ListIsCurrent, NotYetPaid, UpdateCloses, StoresPaid,
                                Patching, Deciding
<1> QED
  BY <1>1, <1>2, <1>6, QuietTurn DEF r

(* A payment just made is not a capture. *)
LEMMA CreateAtProviderAlone ==
  ASSUME OneAtATime, IInv, AloneInv, NEW s \in Slots, CreateAtProvider(s)
  PROVE  AloneInv'
<1> DEFINE r == req[s]
<1>1. /\ r.pc = "journey-create" /\ r.pid \in Payments /\ UNCHANGED <<db, sent, faults, trusted>>
      /\ r.pc \notin Patching \cup {"announce"}
  BY InSlot DEF CreateAtProvider, InHand, Patching
<1>2. CASE req' = [req EXCEPT ![s] = Idle] /\ UNCHANGED ext
  BY <1>1, <1>2, EndAlone
<1>3. ASSUME NEW j \in Refs, NEW x, x.state = "reserved", ext' = [ext EXCEPT ![j] = x],
             req' = [req EXCEPT ![s] = [Idle EXCEPT !.pc = "journey-store", !.pid = r.pid,
                                                    !.upd = [Blank EXCEPT !.ref = j]]]
      PROVE  AloneInv'
  <2> DEFINE q == [Idle EXCEPT !.pc = "journey-store", !.pid = r.pid,
                               !.upd = [Blank EXCEPT !.ref = j]]
  <2>1. /\ q.pc = "journey-store" /\ q.pid = r.pid /\ q.next = "idle" /\ q.todo = {}
        /\ q.upd = [Blank EXCEPT !.ref = j] /\ req' = [req EXCEPT ![s] = q]
    BY <1>3 DEF Idle
  <2> HIDE DEF q
  <2>2. RequestAlone(db, q) /\ ~StoresPaid(q, q.pid)
    <3>1. /\ q.upd.status = "" /\ q.upd.txn = NoRef /\ q.upd = [Blank EXCEPT !.ref = q.upd.ref]
      BY <2>1 DEF Blank
    <3> QED
      BY <2>1, <3>1 DEF RequestAlone, ListIsCurrent, NotYetPaid, UpdateCloses, StoresPaid, Patching,
                         Deciding
  <2>3. ext'[j] = x /\ \A i \in Refs : i # j => ext'[i] = ext[i]
    BY <1>3, PartsOfIInv DEF Parts, TypeOK
  <2>4. \A i \in Refs : Captured(ext'[i]) => Captured(ext[i]) /\ ext'[i].pid = ext[i].pid
    BY <1>3, <2>3 DEF Captured
  <2> QED
    BY <1>1, <2>1, <2>2, <2>4, QuietTurn
<1>4. ASSUME NEW j \in Refs,
             ext' = [ext EXCEPT ![j] =
                       [pid |-> r.pid, state |-> "reserved",
                        by |-> IF r.sess.method = "credit-card" THEN "govpay" ELSE "paypal"]],
             req' = [req EXCEPT ![s] = [Idle EXCEPT !.pc = "journey-store", !.pid = r.pid,
                                                    !.upd = [Blank EXCEPT !.ref = j]]]
      PROVE  AloneInv'
  <2> DEFINE x == [pid |-> r.pid, state |-> "reserved",
                   by |-> IF r.sess.method = "credit-card" THEN "govpay" ELSE "paypal"]
  <2>1. x.state = "reserved" /\ ext' = [ext EXCEPT ![j] = x]
    BY <1>4
  <2> HIDE DEF x
  <2> QED
    BY <1>3, <1>4, <2>1
<1> QED
  BY <1>2, <1>4 DEF CreateAtProvider

-----------------------------------------------------------------------------
(* The steps that take money, store, or send. *)

(* An order is captured: the request goes on to record just this. *)
LEMMA CaptureAlone ==
  ASSUME OneAtATime, IInv, AloneInv, NEW s \in Slots, CapturePayment(s)
  PROVE  AloneInv'
<1> DEFINE r == req[s]
           j == r.sess.ref
<1>1. /\ r \in Request /\ r.pid \in Payments /\ r.sess \in PaymentResource
      /\ db[r.pid].status # "paid" /\ r.pid \notin r.todo
      /\ \A p \in r.todo : db[p].status = "in-progress"
      /\ r.pc \notin Patching \cup {"announce"}
  BY AboutToAsk DEF CapturePayment, Deciding
<1>2. UNCHANGED <<db, sent, faults, trusted>>
  BY DEF CapturePayment
<1>3. CASE req' = [req EXCEPT ![s] = Idle] /\ UNCHANGED ext
  BY <1>1, <1>2, <1>3, EndAlone
<1>4. ASSUME ext[j].state = "approved", NEW c \in CaptureStates, ext' = [ext EXCEPT ![j].state = c],
             req' = [req EXCEPT ![s] =
                       CallPatch(r, TransformToDB([r.sess EXCEPT !.status = CaptureStatus(c),
                                                                 !.txn = j, !.completed = TRUE]),
                                 "announce")]
      PROVE  AloneInv'
  <2> DEFINE done == [r.sess EXCEPT !.status = CaptureStatus(c), !.txn = j, !.completed = TRUE]
             upd == TransformToDB(done)
             q == CallPatch(r, upd, "announce")
  <2>1. j \in Refs /\ ext[j].pid = r.pid
    <3>1. RequestOK(db, ext, trusted, r) /\ r.pc = "paypal-capture" /\ InHand(r)
      BY InSlot DEF CapturePayment, InHand
    <3> QED
      BY <3>1, StoreAssumption DEF RequestOK, OwnedIn, MadeIn
  <2>2. CaptureStatus(c) \in ClosedStatuses /\ (CaptureStatus(c) = "paid" <=> c = "captured")
    BY VerdictCloses
  <2>3. /\ upd \in PaymentResource /\ upd.status = CaptureStatus(c) /\ upd.txn = j /\ upd.completed
    <3>1. /\ done \in PaymentResource /\ done.status = CaptureStatus(c) /\ done.txn = j
          /\ done.completed
      BY <1>1, <2>1, <2>2 DEF PaymentResource, Statuses, AnyRef
    <3> HIDE DEF done
    <3> QED
      BY <3>1, TransformType DEF TransformToDB, PaymentResource
  <2>4. \A i \in Refs : Captured(ext'[i]) =>
          ext'[i].pid = ext[i].pid /\ (Captured(ext[i]) \/ (i = j /\ c = "captured"))
    <3>1. ext \in [Refs -> ProviderPayment]
      BY PartsOfIInv DEF Parts, TypeOK
    <3> HIDE DEF j
    <3>2. ext'[j].pid = ext[j].pid /\ ext'[j].by = ext[j].by /\ ext'[j].state = c
      BY <1>4, <2>1, <3>1, FieldsStay
    <3>3. \A i \in Refs : i # j => ext'[i] = ext[i]
      BY <1>4, <3>1
    <3> QED
      BY <3>2, <3>3 DEF Captured
  <2>5. req' = [req EXCEPT ![s] = q]
    BY <1>4
  <2> HIDE DEF upd, done, j, r
  <2>6. /\ RequestAlone(db', q) /\ q.pid = r.pid /\ q.next = "announce" /\ q.upd = upd
        /\ q.pc = "patch-read"
    <3>1. MayPatch(db, r, upd, "announce")
      BY <1>1, <2>2, <2>3 DEF MayPatch, Closes
    <3>2. q.pc = "patch-read"
      BY <1>1 DEF CallPatch, Request
    <3> QED
      BY <1>1, <1>2, <2>3, <3>1, <3>2, CallPatchAlone
  <2> HIDE DEF q
  <2>7. ASSUME faults = 0 PROVE AllUnderWay(db, ext', sent, trusted, q)
    <3>1. AllUnderWay(db, ext, sent, trusted, r)
      BY <2>7, TheRequest DEF r
    <3>2. \A p : ~Tells(r, p) /\ ~StoresPaid(r, p)
      BY <1>1 DEF Tells, StoresPaid
    <3>3. CapturesUnderWay(db, ext', sent, q)
      <4> SUFFICES ASSUME NEW i \in Refs, Captured(ext'[i]), NEW p, p = ext'[i].pid
                   PROVE  \/ db[p].txn = i /\ db[p].status = "paid" /\ (sent[p] > 0 \/ Tells(q, p))
                          \/ StoresPaid(q, p) /\ q.upd.txn = i /\ q.next = "announce"
        BY DEF CapturesUnderWay
      <4>1. CASE Captured(ext[i])
        BY <2>4, <3>1, <3>2, <4>1 DEF AllUnderWay, CapturesUnderWay
      <4>2. CASE i = j /\ c = "captured"
        BY <2>1, <2>2, <2>3, <2>4, <2>6, <4>2 DEF StoresPaid, Patching
      <4> QED
        BY <2>4, <4>1, <4>2
    <3>4. NewsUnderWay(db, sent, trusted, q)
      BY <2>6, <3>1, <3>2 DEF AllUnderWay, NewsUnderWay
    <3> QED
      BY <3>3, <3>4 DEF AllUnderWay
  <2> QED
    BY <1>2, <2>5, <2>6, <2>7, Turn
<1> QED
  BY <1>3, <1>4 DEF CapturePayment

(* The identity of a payment is stored: no status changes. *)
LEMMA StoreAlone ==
  ASSUME OneAtATime, IInv, AloneInv, NEW s \in Slots, StoreExternalPaymentStatusDetails(s)
  PROVE  AloneInv' /\ \A p \in Payments : SameOutcome(db[p], db'[p])
<1> DEFINE r == req[s]
           j == r.upd.ref
<1>1. /\ r.pc = "journey-store" /\ RequestAlone(db, r) /\ r.pid \in Payments
      /\ j \in Refs
  <2>1. r.pc = "journey-store" /\ InHand(r)
    BY DEF StoreExternalPaymentStatusDetails, InHand
  <2> QED
    BY <2>1, TheRequest, InSlot DEF RequestOK
<1>2. r.upd.status = "" /\ r.upd.txn = NoRef /\ r.upd.completed = FALSE
  <2>1. r.upd = [Blank EXCEPT !.ref = r.upd.ref]
    BY <1>1 DEF RequestAlone, UpdateCloses, InHand
  <2>2. \A x : LET u == [Blank EXCEPT !.ref = x] IN
               u.status = "" /\ u.txn = NoRef /\ u.completed = FALSE
    BY DEF Blank
  <2> QED
    BY <2>1, <2>2
<1>3. /\ ext' = [ext EXCEPT ![j].state = "created"]
      /\ db' = [db EXCEPT ![r.pid] = PatchPaymentResource(@, r.upd)]
      /\ req' = [req EXCEPT ![s] = Idle] /\ UNCHANGED <<sent, faults, trusted>>
  BY DEF StoreExternalPaymentStatusDetails
<1>4. \A i \in Refs : Captured(ext'[i]) => Captured(ext[i]) /\ ext'[i].pid = ext[i].pid
  <2>1. ext \in [Refs -> ProviderPayment]
    BY PartsOfIInv DEF Parts, TypeOK
  <2> HIDE DEF j
  <2>2. ext'[j].state = "created"
    BY <1>1, <1>3, <2>1, FieldsStay
  <2>3. \A i \in Refs : i # j => ext'[i] = ext[i]
    BY <1>3, <2>1
  <2> QED
    BY <2>2, <2>3 DEF Captured
<1> HIDE DEF j, r
<1>5. \A p \in Payments : db'[p] = IF p = r.pid THEN PatchPaymentResource(db[p], r.upd) ELSE db[p]
  BY <1>3, PartsOfIInv DEF Parts, TypeOK
<1>6. ASSUME NEW p \in Payments PROVE SameOutcome(db[p], db'[p])
  <2>1. CASE p # r.pid
    BY <1>5, <2>1 DEF SameOutcome
  <2>2. CASE p = r.pid
    <3> DEFINE doc == PatchPaymentResource(db[p], r.upd)
    <3>1. doc.status = db[p].status /\ doc.txn = db[p].txn
      BY <1>2 DEF PatchPaymentResource
    <3>2. doc.completed = (db[p].completed \/ r.upd.completed)
      BY DEF PatchPaymentResource
    <3>3. db[p].completed \in BOOLEAN
      BY InCollection DEF PaymentResource
    <3>4. doc.completed = db[p].completed
      BY <1>2, <3>2, <3>3, Zenon
    <3> QED
      BY <1>5, <2>2, <3>1, <3>4 DEF SameOutcome
  <2> QED
    BY <2>1, <2>2
<1>7. RequestAlone(db', Idle) /\ \A p : ~StoresPaid(Idle, p)
  <2>1. \A p \in Idle.todo : db'[p].status = "in-progress"
    BY DEF Idle
  <2> QED
    BY <2>1, RemainderAlone
<1>8. ASSUME faults = 0 PROVE AllUnderWay(db', ext', sent, trusted, Idle)
  <2>1. AllUnderWay(db, ext, sent, trusted, r) /\ \A p : ~Tells(r, p) /\ ~StoresPaid(r, p)
    BY <1>1, <1>8, TheRequest DEF Tells, StoresPaid, Patching, r
  <2>2. \A i \in Refs : Captured(ext'[i]) =>
          Captured(ext[i]) /\ ext'[i].pid = ext[i].pid /\ ext[i].pid \in Payments
    BY <1>4, CapturedHasSession
  <2> QED
    BY <1>6, <1>7, <2>1, <2>2, NothingSaid
<1> QED
  BY <1>3, <1>6, <1>7, <1>8, Turn

(* The second read of PatchPaymentSession: only what was to open the session
   becomes the status in-progress. *)
LEMMA PatchReadAlone ==
  ASSUME OneAtATime, IInv, AloneInv, NEW s \in Slots, PatchRead(s)
  PROVE  AloneInv'
<1> DEFINE r == req[s]
           status == IF db[r.pid].status = "pending" THEN "in-progress" ELSE r.upd.status
           q == [r EXCEPT !.pc = "patch-write", !.upd.status = status]
<1>1. /\ r.pc = "patch-read" /\ r \in Request /\ RequestOK(db, ext, trusted, r)
      /\ r.pid \in Payments /\ r.upd \in PaymentResource /\ InHand(r) /\ RequestAlone(db, r)
  BY InSlot, TheRequest DEF PatchRead, InHand
<1>2. req' = [req EXCEPT ![s] = q] /\ UNCHANGED <<db, ext, sent, faults, trusted>>
  BY DEF PatchRead, outside
<1>3. /\ q.pc = "patch-write" /\ q.pid = r.pid /\ q.next = r.next /\ q.todo = r.todo
      /\ q.upd = [r.upd EXCEPT !.status = status]
  BY <1>1 DEF Request
<1> HIDE DEF q
<1>4. /\ q.upd.status = status /\ q.upd.txn = r.upd.txn /\ q.upd.completed = r.upd.completed
  <2> HIDE DEF r, status
  <2> QED
    BY <1>1, <1>3 DEF PaymentResource
<1>5. db[r.pid].status = "pending" => r.upd.status = ""
  <2>1. ASSUME db[r.pid].status = "pending" PROVE r.upd.status = ""
    <3>1. ~OpenedIn(db, r.pid)
      BY <2>1 DEF OpenedIn, OpenStatuses
    <3>2. r.upd = [Blank EXCEPT !.method = r.upd.method, !.status = ""]
      BY <1>1, <3>1 DEF RequestOK, Choosing
    <3> QED
      BY <3>2 DEF Blank
  <2> QED
    BY <2>1
<1>6. status = r.upd.status \/ (status = "in-progress" /\ db[r.pid].status = "pending")
  OBVIOUS
<1> HIDE DEF status, r
<1>7. /\ db[r.pid].status # "paid" \/ r.upd.status = ""
      /\ \A p \in r.todo : db[p].status = "in-progress"
      /\ r.pid \notin r.todo
      /\ \/ r.upd.status \in ClosedStatuses \cup {""}
         \/ r.upd.status = "in-progress" /\ db[r.pid].status = "pending"
      /\ r.upd.txn # NoRef => r.upd.status # ""
      /\ r.next = "announce" => Closes(r.upd)
  BY <1>1 DEF RequestAlone, ListIsCurrent, NotYetPaid, UpdateCloses
<1>8. r.next = "announce" => r.upd.status # "" /\ status = r.upd.status
  BY <1>5, <1>6, <1>7 DEF Closes, ClosedStatuses
<1>9. RequestAlone(db, q)
  <2>1. ListIsCurrent(db, q)
    BY <1>3, <1>7 DEF ListIsCurrent
  <2>2. NotYetPaid(db, q)
    BY <1>3, <1>4, <1>6, <1>7 DEF NotYetPaid, Deciding
  <2>3. q.upd.status \in ClosedStatuses \cup {""}
        \/ (q.upd.status = "in-progress" /\ db[q.pid].status = "pending")
    BY <1>3, <1>4, <1>6, <1>7
  <2>4. q.upd.txn # NoRef => q.upd.status # ""
    BY <1>4, <1>6, <1>7
  <2>5. q.next = "announce" => Closes(q.upd)
    BY <1>3, <1>4, <1>7, <1>8 DEF Closes
  <2>6. UpdateCloses(db, q)
    BY <1>3, <2>3, <2>4, <2>5 DEF UpdateCloses
  <2> QED
    BY <2>1, <2>2, <2>6 DEF RequestAlone
<1>10. ASSUME faults = 0 PROVE AllUnderWay(db, ext, sent, trusted, q)
  <2>1. AllUnderWay(db, ext, sent, trusted, r)
    BY <1>10, TheRequest DEF r
  <2>2. \A p : StoresPaid(r, p) => StoresPaid(q, p)
    BY <1>3, <1>4, <1>5, <1>6 DEF StoresPaid, Patching
  <2>3. \A p : ~Tells(r, p)
    BY <1>1 DEF Tells
  <2>4. StoresPaid(q, q.pid) => StoresPaid(r, r.pid)
    BY <1>1, <1>3, <1>4, <1>6 DEF StoresPaid, Patching
  <2>5. StoresPaid(q, q.pid) => q.next = "announce" \/ sent[q.pid] > 0 \/ q.pid \in trusted
    BY <1>3, <2>1, <2>4 DEF AllUnderWay, NewsUnderWay
  <2>6. \A j \in Refs : Captured(ext[j]) => ext[j].pid \in Payments
    BY CapturedHasSession
  <2>7. \A p \in Payments : SameOutcome(db[p], db[p])
    BY DEF SameOutcome
  <2> QED
    BY <1>3, <1>4, <2>1, <2>2, <2>3, <2>5, <2>6, <2>7, NothingSaid
<1> QED
  BY <1>2, <1>9, <1>10, Turn

(* The write of PatchPaymentSession: to a session that is not paid, unless it
   changes no status. *)
LEMMA PatchWriteAlone ==
  ASSUME OneAtATime, IInv, AloneInv, NEW s \in Slots, PatchWrite(s)
  PROVE  AloneInv' /\ \A p \in Payments : db[p].status = "paid" => db'[p].status = "paid"
<1> DEFINE r == req[s]
           p == r.pid
           u == r.upd
           doc == PatchPaymentResource(db[p], u)
           told == [Idle EXCEPT !.pc = "announce", !.pid = p]
           q == IF r.next = "announce" THEN told ELSE Remainder(r)
<1>1. /\ r.pc = "patch-write" /\ p \in Payments /\ RequestAlone(db, r) /\ InHand(r)
      /\ r \in Request /\ r.next \in {"idle", "announce"} /\ db[p] \in PaymentResource
  BY InSlot, InCollection, TheRequest DEF PatchWrite, InHand, Request
<1>2. /\ db' = [db EXCEPT ![p] = doc] /\ req' = [req EXCEPT ![s] = q]
      /\ UNCHANGED <<sent, ext, faults, trusted>>
  BY DEF PatchWrite, outside
<1>3. db'[p] = doc /\ \A t \in Payments : t # p => db'[t] = db[t]
  BY <1>1, <1>2, PartsOfIInv DEF Parts, TypeOK
<1>4. /\ doc.status = IF u.status = "" THEN db[p].status ELSE u.status
      /\ doc.txn = IF u.txn = NoRef THEN db[p].txn ELSE u.txn
      /\ doc.completed = (db[p].completed \/ u.completed)
  BY DEF PatchPaymentResource
<1>5. /\ told.pc = "announce" /\ told.pid = p /\ told.upd = Blank /\ told.next = "idle"
      /\ told.todo = {} /\ Blank.status = "" /\ Blank.txn = NoRef
  BY DEF Idle, Blank
<1>6. /\ \A t \in r.todo : t \in Payments /\ db[t].status = "in-progress" /\ t # p
      /\ db[p].status # "paid" \/ u.status = ""
      /\ \/ u.status \in ClosedStatuses \cup {""}
         \/ u.status = "in-progress" /\ db[p].status = "pending"
      /\ u.txn # NoRef => u.status # ""
      /\ r.next = "announce" => Closes(u)
  BY <1>1 DEF RequestAlone, ListIsCurrent, NotYetPaid, UpdateCloses, Request
<1> HIDE DEF doc, told
<1>7. /\ \A t : ~StoresPaid(q, t)
      /\ \A t : Tells(q, t) <=> r.next = "announce" /\ t = p
  <2>1. \A t : ~StoresPaid(told, t) /\ (Tells(told, t) <=> t = p)
    BY <1>5 DEF StoresPaid, Tells, Patching
  <2>2. \A t : ~StoresPaid(Remainder(r), t) /\ ~Tells(Remainder(r), t)
    BY <1>6, RemainderAlone
  <2> QED
    BY <2>1, <2>2
<1>8. Closes(u) => Closes(db'[p])
  BY <1>3, <1>4 DEF Closes, ClosedStatuses
<1>9. Closes(db[p]) => Closes(db'[p])
  BY <1>3, <1>4, <1>6 DEF Closes, ClosedStatuses
<1>10. RequestAlone(db', q)
  <2>1. r.next = "announce" => RequestAlone(db', told)
    <3>1. ListIsCurrent(db', told) /\ NotYetPaid(db', told)
      BY <1>5 DEF ListIsCurrent, NotYetPaid, Deciding
    <3>2. r.next = "announce" => Closes(db'[told.pid])
      BY <1>5, <1>6, <1>8
    <3>3. r.next = "announce" => UpdateCloses(db', told)
      BY <1>5, <3>2 DEF UpdateCloses
    <3> QED
      BY <3>1, <3>3 DEF RequestAlone
  <2>2. \A t \in r.todo : db'[t].status = "in-progress"
    <3>1. ASSUME NEW t \in r.todo PROVE db'[t].status = "in-progress"
      <4>1. t \in Payments /\ t # p /\ db[t].status = "in-progress"
        BY <1>6
      <4> QED
        BY <1>3, <4>1
    <3> QED
      BY <3>1
  <2>3. RequestAlone(db', Remainder(r))
    BY <2>2, RemainderAlone
  <2> QED
    BY <2>1, <2>3
<1> HIDE DEF q, r, p, u
<1>11. ASSUME faults = 0 PROVE AllUnderWay(db', ext, sent, trusted, q)
  <2>1. CapturesUnderWay(db, ext, sent, r) /\ NewsUnderWay(db, sent, trusted, r)
    BY <1>11, TheRequest DEF AllUnderWay, r
  <2>2. \A t : ~Tells(r, t) /\ (StoresPaid(r, t) <=> t = p /\ u.status = "paid")
    BY <1>1 DEF Tells, StoresPaid, Patching, p, u
  <2>3. CapturesUnderWay(db', ext, sent, q)
    <3> SUFFICES ASSUME NEW i \in Refs, Captured(ext[i]), NEW t, t = ext[i].pid
                 PROVE  /\ db'[t].txn = i /\ db'[t].status = "paid"
                        /\ sent[t] > 0 \/ Tells(q, t)
      BY DEF CapturesUnderWay
    <3>1. t \in Payments /\ i # NoRef
      BY CapturedHasSession, StoreAssumption
    <3>2. \/ db[t].txn = i /\ db[t].status = "paid" /\ sent[t] > 0
          \/ t = p /\ u.status = "paid" /\ u.txn = i /\ r.next = "announce"
      BY <2>1, <2>2 DEF CapturesUnderWay, u
    <3> QED
      BY <1>3, <1>4, <1>6, <1>7, <3>1, <3>2
  <2>4. ASSUME NEW t \in Payments
        PROVE  /\ sent[t] > 0 => Closes(db'[t])
               /\ db'[t].status = "paid" /\ t \notin trusted => sent[t] > 0 \/ Tells(q, t)
    <3>1. /\ sent[t] > 0 => Closes(db[t]) \/ (t = p /\ u.status = "paid" /\ u.completed)
          /\ db[t].status = "paid" /\ t \notin trusted => sent[t] > 0
          /\ u.status = "paid" => r.next = "announce" \/ sent[p] > 0 \/ p \in trusted
      BY <2>1, <2>2 DEF NewsUnderWay, u, p
    <3>2. u.status = "paid" /\ u.completed => Closes(u)
      BY DEF Closes, ClosedStatuses
    <3>3. sent[t] > 0 => Closes(db'[t])
      BY <1>3, <1>8, <1>9, <3>1, <3>2
    <3>4. db'[t].status = "paid" => db[t].status = "paid" \/ (t = p /\ u.status = "paid")
      BY <1>3, <1>4
    <3> QED
      BY <1>7, <3>1, <3>3, <3>4
  <2> QED
    BY <1>7, <2>3, <2>4 DEF AllUnderWay, NewsUnderWay
<1>12. \A t \in Payments : db[t].status = "paid" => db'[t].status = "paid"
  BY <1>3, <1>4, <1>6
<1> QED
  BY <1>2, <1>10, <1>11, <1>12, Turn DEF q

(* A callback's message, of a session it has just closed. *)
LEMMA AnnounceAlone ==
  ASSUME OneAtATime, IInv, AloneInv, NEW s \in Slots, Announce(s)
  PROVE  AloneInv'
<1> DEFINE r == req[s]
           p == r.pid
<1>1. /\ r.pc = "announce" /\ p \in Payments /\ RequestAlone(db, r) /\ InHand(r)
  BY InSlot, TheRequest DEF Announce, InHand
<1>2. /\ UNCHANGED <<db, ext, faults, trusted>> /\ req' = [req EXCEPT ![s] = Idle]
      /\ sent' = [sent EXCEPT ![p] = IF @ < MaxSent THEN @ + 1 ELSE @]
  BY DEF Announce, ProduceMessage, outside
<1>3. sent'[p] > 0 /\ \A t \in Payments : t # p => sent'[t] = sent[t]
  BY <1>1, <1>2, PartsOfIInv DEF Parts, TypeOK, MaxSent
<1>4. Closes(db[p])
  BY <1>1 DEF RequestAlone, UpdateCloses
<1>5. \A t : ~StoresPaid(r, t) /\ (Tells(r, t) <=> t = p)
  BY <1>1 DEF StoresPaid, Tells, Patching
<1>6. RequestAlone(db', Idle) /\ \A t : ~StoresPaid(Idle, t)
  <2>1. \A t \in Idle.todo : db'[t].status = "in-progress"
    BY DEF Idle
  <2> QED
    BY <2>1, RemainderAlone
<1> HIDE DEF p, r
<1>7. ASSUME faults = 0 PROVE AllUnderWay(db, ext, sent', trusted, Idle)
  <2>1. CapturesUnderWay(db, ext, sent, r) /\ NewsUnderWay(db, sent, trusted, r)
    BY <1>7, TheRequest DEF AllUnderWay, r
  <2>2. \A j \in Refs : Captured(ext[j]) => ext[j].pid \in Payments
    BY CapturedHasSession
  <2>3. CapturesUnderWay(db, ext, sent', Idle)
    BY <1>3, <1>5, <2>1, <2>2 DEF CapturesUnderWay
  <2>4. NewsUnderWay(db, sent', trusted, Idle)
    BY <1>3, <1>4, <1>5, <1>6, <2>1 DEF NewsUnderWay
  <2> QED
    BY <2>3, <2>4 DEF AllUnderWay
<1> QED
  BY <1>2, <1>6, <1>7, Turn

(* The message of a status check, before its write. *)
LEMMA CheckAnnouncesAlone ==
  ASSUME OneAtATime, IInv, AloneInv, NEW s \in Slots, CheckAnnounces(s)
  PROVE  AloneInv'
<1> DEFINE r == req[s]
           p == r.pid
           q == [r EXCEPT !.pc = "patch-read"]
<1>1. /\ r.pc = "sweep-announce" /\ p \in Payments /\ RequestAlone(db, r) /\ InHand(r)
      /\ r \in Request
  BY InSlot, TheRequest DEF CheckAnnounces, InHand
<1>2. /\ UNCHANGED <<db, ext, faults, trusted>> /\ req' = [req EXCEPT ![s] = q]
      /\ sent' = [sent EXCEPT ![p] = IF @ < MaxSent THEN @ + 1 ELSE @]
  BY DEF CheckAnnounces, ProduceMessage, outside
<1>3. sent'[p] > 0 /\ \A t \in Payments : t # p => sent'[t] = sent[t]
  BY <1>1, <1>2, PartsOfIInv DEF Parts, TypeOK, MaxSent
<1>4. /\ q.pc = "patch-read" /\ q.pid = p /\ q.upd = r.upd /\ q.next = r.next /\ q.todo = r.todo
  BY <1>1 DEF Request
<1> HIDE DEF q
<1>5. r.upd.completed /\ r.upd.status = "paid"
  BY <1>1 DEF RequestAlone, UpdateCloses
<1>6. \A t : ~StoresPaid(r, t) /\ ~Tells(r, t)
  BY <1>1 DEF StoresPaid, Tells, Patching
<1>7. RequestAlone(db, q)
  BY <1>1, <1>4 DEF RequestAlone, ListIsCurrent, NotYetPaid, UpdateCloses, Deciding, InHand
<1>8. StoresPaid(q, p)
  BY <1>4, <1>5 DEF StoresPaid, Patching
<1> HIDE DEF p, r
<1>9. ASSUME faults = 0 PROVE AllUnderWay(db, ext, sent', trusted, q)
  <2>1. CapturesUnderWay(db, ext, sent, r) /\ NewsUnderWay(db, sent, trusted, r)
    BY <1>9, TheRequest DEF AllUnderWay, r
  <2>2. \A j \in Refs : Captured(ext[j]) => ext[j].pid \in Payments
    BY CapturedHasSession
  <2>3. CapturesUnderWay(db, ext, sent', q)
    BY <1>3, <1>6, <2>1, <2>2 DEF CapturesUnderWay
  <2>4. NewsUnderWay(db, sent', trusted, q)
    BY <1>3, <1>4, <1>5, <1>6, <1>8, <2>1 DEF NewsUnderWay
  <2> QED
    BY <2>3, <2>4 DEF AllUnderWay
<1> QED
  BY <1>2, <1>7, <1>9, Turn

-----------------------------------------------------------------------------
(* The steps that move no request, and those that end one. *)

(* The collection and the providers move on under a request that does not. *)
LEMMA AroundAlone ==
  ASSUME OneAtATime, IInv, AloneInv, UNCHANGED <<req, sent, faults, trusted>>,
         \A p \in Payments : db'[p] = db[p] \/ (db[p].status = "" /\ db'[p].status = "pending"),
         \A j \in Refs : Captured(ext'[j]) => Captured(ext[j]) /\ ext'[j].pid = ext[j].pid
  PROVE  AloneInv'
<1> SUFFICES ASSUME NEW s \in Slots
             PROVE  /\ RequestAlone(db', req[s])
                    /\ faults = 0 => AllUnderWay(db', ext', sent, trusted, req[s])
  BY DEF AloneInv
<1> DEFINE r == req[s]
<1>1. /\ RequestAlone(db, r) /\ (faults = 0 => AllUnderWay(db, ext, sent, trusted, r))
      /\ r.todo \subseteq Payments
      /\ InHand(r) => r.pid \in Payments /\ db[r.pid].status # ""
  BY TheRequest, InSlot DEF RequestOK
<1>2. \A p \in Payments : SameOutcome(db[p], db'[p])
  BY DEF SameOutcome
<1>3. \A j \in Refs : Captured(ext'[j]) =>
        Captured(ext[j]) /\ ext'[j].pid = ext[j].pid /\ ext[j].pid \in Payments
  BY CapturedHasSession
<1> HIDE DEF r
<1>4. InHand(r) => db'[r.pid] = db[r.pid]
  BY <1>1
<1>5. \A p \in r.todo : db[p].status = "in-progress" => db'[p].status = "in-progress"
  BY <1>1
<1>6. RequestAlone(db', r)
  <2>1. ListIsCurrent(db', r)
    BY <1>1, <1>5 DEF RequestAlone, ListIsCurrent
  <2>2. InHand(r) => NotYetPaid(db', r) /\ UpdateCloses(db', r)
    BY <1>1, <1>4 DEF RequestAlone, NotYetPaid, UpdateCloses
  <2> QED
    BY <2>1, <2>2 DEF RequestAlone, NotYetPaid, UpdateCloses
<1>7. StoresPaid(r, r.pid) /\ faults = 0 =>
        r.next = "announce" \/ sent[r.pid] > 0 \/ r.pid \in trusted
  BY <1>1 DEF AllUnderWay, NewsUnderWay
<1>8. faults = 0 => AllUnderWay(db', ext', sent, trusted, r)
  BY <1>1, <1>2, <1>3, <1>7, NothingSaid
<1> QED
  BY <1>6, <1>8 DEF r

(* A payment at a provider that moves on without a capture. *)
LEMMA ProviderMovesAlone ==
  ASSUME OneAtATime, IInv, AloneInv, NEW j \in Refs, NEW c, c # "captured",
         ext' = [ext EXCEPT ![j].state = c], UNCHANGED <<db, req, sent, faults, trusted>>
  PROVE  AloneInv'
<1>1. ext \in [Refs -> ProviderPayment]
  BY PartsOfIInv DEF Parts, TypeOK
<1>2. ext'[j].state = c /\ \A i \in Refs : i # j => ext'[i] = ext[i]
  BY <1>1, FieldsStay
<1> QED
  BY <1>2, AroundAlone DEF Captured

LEMMA WorldAlone ==
  ASSUME OneAtATime, IInv, AloneInv,
         \/ \E p \in Payments : CreatePaymentSession(p)
         \/ \E j \in Refs : GovPayMoves(j) \/ PayPalApproved(j)
         \/ Tick \/ UNCHANGED vars
  PROVE  AloneInv'
<1>1. ASSUME NEW p \in Payments, CreatePaymentSession(p) PROVE AloneInv'
  <2>1. /\ db[p].status = "" /\ db' = [db EXCEPT ![p] = NewResource]
        /\ UNCHANGED <<req, sent, faults, trusted>> /\ UNCHANGED ext
    BY <1>1 DEF CreatePaymentSession, outside
  <2>2. db'[p] = NewResource /\ \A t \in Payments : t # p => db'[t] = db[t]
    BY <2>1, PartsOfIInv DEF Parts, TypeOK
  <2>3. NewResource.status = "pending"
    BY DEF NewResource, Blank
  <2> QED
    BY <2>1, <2>2, <2>3, AroundAlone
<1>2. ASSUME NEW j \in Refs, GovPayMoves(j) PROVE AloneInv'
  <2>1. /\ \E c \in {"started"} \cup GovPayOutcomes : ext' = [ext EXCEPT ![j].state = c]
        /\ UNCHANGED <<db, req, sent, faults, trusted>>
    BY <1>2 DEF GovPayMoves
  <2>2. \A c \in {"started"} \cup GovPayOutcomes : c # "captured"
    BY OutcomesAssumption DEF GovPayFailures
  <2> QED
    BY <2>1, <2>2, ProviderMovesAlone
<1>3. ASSUME NEW j \in Refs, PayPalApproved(j) PROVE AloneInv'
  BY <1>3, ProviderMovesAlone DEF PayPalApproved
<1>4. CASE Tick
  BY <1>4, AroundAlone DEF Tick
<1>5. CASE UNCHANGED vars
  BY <1>5, AroundAlone DEF vars
<1> QED
  BY <1>1, <1>2, <1>3, <1>4, <1>5

(* A fault: nothing is said of recording and announcing any more. *)
LEMMA FaultAlone ==
  ASSUME OneAtATime, IInv, AloneInv, NEW s \in Slots, RequestDies(s) \/ CheckContinues(s)
  PROVE  AloneInv'
<1>1. /\ UNCHANGED db /\ faults' = faults + 1 /\ faults \in Nat
      /\ req' = [req EXCEPT ![s] = Idle] \/ req' = [req EXCEPT ![s] = Remainder(req[s])]
  BY PartsOfIInv DEF RequestDies, CheckContinues, Parts, TypeOK
<1>2. \A p \in req[s].todo : db'[p].status = "in-progress"
  BY <1>1, TheRequest DEF RequestAlone, ListIsCurrent
<1>3. RequestAlone(db', Idle) /\ RequestAlone(db', Remainder(req[s]))
  BY <1>2, RemainderAlone
<1>4. faults' # 0
  BY <1>1
<1> QED
  BY <1>1, <1>3, <1>4, Turn

-----------------------------------------------------------------------------
(* All together. *)

LEMMA InitAlone == Init => AloneInv
<1> SUFFICES ASSUME Init, NEW s \in Slots
             PROVE  /\ RequestAlone(db, Idle)
                    /\ AllUnderWay(db, ext, sent, trusted, Idle)
  BY DEF AloneInv, Init
<1>1. RequestAlone(db, Idle) /\ \A p : ~StoresPaid(Idle, p)
  <2>1. \A p \in Idle.todo : db[p].status = "in-progress"
    BY DEF Idle
  <2> QED
    BY <2>1, RemainderAlone
<1>2. \A p \in Payments : db[p].status = "" /\ ~(sent[p] > 0)
  <2>1. \A p \in Payments : db[p] = Blank /\ sent[p] = 0
    BY DEF Init
  <2>2. Blank.status = "" /\ ~(0 > 0)
    BY DEF Blank
  <2> QED
    BY <2>1, <2>2, Zenon
<1>3. \A j \in Refs : ~Captured(ext[j])
  BY DEF Init, NotMade, Captured
<1> QED
  BY <1>1, <1>2, <1>3 DEF AllUnderWay, CapturesUnderWay, NewsUnderWay

LEMMA NextAlone == OneAtATime /\ IInv /\ AloneInv /\ [Next]_vars => AloneInv'
<1> SUFFICES ASSUME OneAtATime, IInv, AloneInv, [Next]_vars PROVE AloneInv'
  OBVIOUS
<1>1. ASSUME NEW s \in Slots, Arrive(s) PROVE AloneInv'
  BY <1>1, PatchBeginsAlone, JourneyBeginsAlone, GovPayBeginsAlone, PayPalBeginsAlone,
     CheckBeginsAlone DEF Arrive
<1>2. ASSUME NEW s \in Slots, Proceed(s) PROVE AloneInv'
  <2>1. ASSUME CheckSkips(s) PROVE AloneInv'
    BY <2>1, EndAlone DEF CheckSkips, outside, Patching
  <2> QED
    BY <1>2, <2>1, PatchReadAlone, PatchWriteAlone, AnnounceAlone, CreateAtProviderAlone,
       StoreAlone, GovPayStatusAlone, PayPalOrderAlone, CaptureAlone, CheckNextAlone,
       CheckFindsAlone, CheckAnnouncesAlone DEF Proceed
<1> QED
  BY <1>1, <1>2, WorldAlone, FaultAlone DEF Next

(* Requests that do not overlap keep AloneInv. *)
THEOREM SafeAlone == OneAtATime => (Spec => []AloneInv)
<1> SUFFICES ASSUME OneAtATime PROVE Spec => []AloneInv
  OBVIOUS
<1>1. IInv /\ AloneInv /\ [Next]_vars => AloneInv'
  BY NextAlone
<1> QED
  BY <1>1, InitAlone, Safe, PTL DEF Spec

-----------------------------------------------------------------------------
(* Without overlap, once a session is paid no replayed callback, PATCH or
   status check takes that back, whatever fails. *)
THEOREM PaidStays == OneAtATime => (Spec => PaidIsFinal)
<1> SUFFICES ASSUME OneAtATime PROVE Spec => PaidIsFinal
  OBVIOUS
<1>1. IInv /\ AloneInv /\ [Next]_vars
        => [\A p \in Payments : db[p].status = "paid" => db'[p].status = "paid"]_vars
  <2> SUFFICES ASSUME IInv, AloneInv, Next, NEW p \in Payments, db[p].status = "paid"
               PROVE  db'[p].status = "paid"
    OBVIOUS
  <2>1. CASE UNCHANGED db
    BY <2>1
  <2>2. ASSUME NEW t \in Payments, CreatePaymentSession(t) PROVE db'[p].status = "paid"
    <3>1. t # p /\ db' = [db EXCEPT ![t] = NewResource]
      BY <2>2 DEF CreatePaymentSession
    <3> QED
      BY <3>1, PartsOfIInv DEF Parts, TypeOK
  <2>3. ASSUME NEW s \in Slots, PatchWrite(s) PROVE db'[p].status = "paid"
    BY <2>3, PatchWriteAlone
  <2>4. ASSUME NEW s \in Slots, StoreExternalPaymentStatusDetails(s) PROVE db'[p].status = "paid"
    BY <2>4, StoreAlone DEF SameOutcome
  <2>5. ASSUME NEW s \in Slots, Proceed(s), ~PatchWrite(s), ~StoreExternalPaymentStatusDetails(s)
        PROVE  UNCHANGED db
    BY <2>5 DEF Proceed, PatchRead, Announce, CreateAtProvider, GovPayCallbackStatus,
                PayPalOrderStatus, CapturePayment, CheckNext, CheckSkips, CheckFinds, CheckAnnounces
  <2>6. ASSUME NEW s \in Slots, Arrive(s) PROVE UNCHANGED db
    BY <2>6 DEF Arrive, HandlePatchPaymentSession, CreateExternalPaymentJourney,
                HandleGovPayCallback, HandlePayPalCallback, HandleCheckPaymentStatus
  <2>7. ASSUME NEW s \in Slots, CheckContinues(s) \/ RequestDies(s) PROVE UNCHANGED db
    BY <2>7 DEF CheckContinues, RequestDies
  <2>8. ASSUME \/ \E j \in Refs : GovPayMoves(j) \/ PayPalApproved(j)
               \/ Tick
        PROVE  UNCHANGED db
    BY <2>8 DEF GovPayMoves, PayPalApproved, Tick
  <2> QED
    BY <2>1, <2>2, <2>3, <2>4, <2>5, <2>6, <2>7, <2>8 DEF Next
<1> QED
  BY <1>1, Safe, SafeAlone, PTL DEF Spec, PaidIsFinal

(* A request that is done is about to do nothing. *)
LEMMA NothingAtRest ==
  ASSUME OneAtATime, IInv, AloneInv, AtRest, faults = 0
  PROVE  \E s \in Slots : /\ AllUnderWay(db, ext, sent, trusted, req[s])
                          /\ \A p : ~Tells(req[s], p) /\ ~StoresPaid(req[s], p)
BY TheRequest DEF OneAtATime, AtRest, Tells, StoresPaid, Patching

(* Without overlap and faults, an order PayPal captured is stored as paid and
   announced by the time no request is left. *)
THEOREM CaptureRecorded == OneAtATime => (Spec => []CaptureIsRecorded)
<1> SUFFICES ASSUME OneAtATime PROVE Spec => []CaptureIsRecorded
  OBVIOUS
<1>1. IInv /\ AloneInv => CaptureIsRecorded
  BY NothingAtRest DEF CaptureIsRecorded, Captured, AllUnderWay, CapturesUnderWay
<1> QED
  BY <1>1, Safe, SafeAlone, PTL

(* And what consumers were told is what the collection says: every announced
   session is closed, and every paid one announced, those trusted aside. *)
THEOREM NewsAgree == OneAtATime => (Spec => []NewsAgrees)
<1> SUFFICES ASSUME OneAtATime PROVE Spec => []NewsAgrees
  OBVIOUS
<1>1. IInv /\ AloneInv => NewsAgrees
  BY NothingAtRest DEF NewsAgrees, Closes, AllUnderWay, NewsUnderWay
<1> QED
  BY <1>1, Safe, SafeAlone, PTL
=============================================================================
