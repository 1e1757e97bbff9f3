--------------------------- MODULE PaymentsProofs ---------------------------
(***************************************************************************)
(* The safety of the payment journey, for any number of sessions, provider *)
(* payments, concurrent requests and faults.                               *)
(*                                                                         *)
(* The invariant IInv is taken apart into what it says of one session and  *)
(* of one request.  What it says of them survives every change of the rest *)
(* of the state that only adds to it (Grows), so that each action is left  *)
(* with the one session and the one request it changes.                    *)
(***************************************************************************)
EXTENDS PaymentsInvariants, TLAPS

-----------------------------------------------------------------------------
(* Type correctness. *)

(* A patched document is a document. *)
LEMMA PatchType ==
  ASSUME NEW doc \in PaymentResource, NEW update \in PaymentResource
  PROVE  PatchPaymentResource(doc, update) \in PaymentResource
BY DEF PaymentResource, PatchPaymentResource

(* The conversions between stored and served sessions keep them sessions. *)
LEMMA TransformType ==
  ASSUME NEW doc \in PaymentResource
  PROVE  TransformToRest(doc) \in PaymentResource /\ TransformToDB(doc) \in PaymentResource
BY DEF PaymentResource, TransformToRest, TransformToDB, AnyRef

(* The empty values are sessions and requests. *)
LEMMA BlankType ==
  /\ Blank \in PaymentResource /\ NewResource \in PaymentResource
  /\ Idle \in Request /\ NotMade \in ProviderPayment
BY DEF Blank, NewResource, PaymentResource, Statuses, OpenStatuses, AnyRef, Idle, Request, PCs,
       NotMade, ProviderPayment

(* A request is about a session, unless it has none in hand. *)
ActiveTyped(r) == InHand(r) => r.pid \in Payments

(* What is left of a request is a request. *)
LEMMA RemainderType ==
  ASSUME NEW r \in Request PROVE Remainder(r) \in Request /\ ActiveTyped(Remainder(r))
BY BlankType DEF Remainder, Request, Idle, PCs, ActiveTyped, InHand

(* A request that goes on to PatchPaymentSession is a request. *)
LEMMA CallPatchType ==
  ASSUME NEW r \in Request, NEW update \in PaymentResource, NEW next \in {"idle", "announce"},
         r.pid \in Payments
  PROVE  /\ CallPatch(r, update, next) \in Request
         /\ ActiveTyped(CallPatch(r, update, next))
BY BlankType DEF CallPatch, Request, PCs, ActiveTyped, InHand

(* The statuses the service derives from the providers' answers. *)
LEMMA StatusType ==
  ASSUME NEW x
  PROVE  /\ CheckPaymentProviderStatus(callGovPay(x)).status \in Statuses
         /\ GetPaymentStatus(callGovPay(x)) \in Statuses
         /\ CaptureStatus(x) \in Statuses
BY DEF CheckPaymentProviderStatus, callGovPay, GetPaymentStatus, CaptureStatus, Answer, Verdict,
       Statuses, ClosedStatuses

(* The bounds are numbers, and the bounded counters stay in range. *)
LEMMA BoundsAreNat == MaxRequests \in Nat /\ MaxFaults \in Nat /\ MaxAge \in Nat
BY StoreAssumption, RequestsAssumption

LEMMA Bounds ==
  /\ \A n \in 0 .. MaxSent : (IF n < MaxSent THEN n + 1 ELSE n) \in 0 .. MaxSent
  /\ \A n \in Ages : n < MaxAge => n + 1 \in Ages
BY BoundsAreNat DEF MaxSent, Ages

(* A request that begins is counted within the bound. *)
LEMMA BeginType ==
  ASSUME TypeOK, NEW s, NEW op, NEW p, Begin(s, op, p)
  PROVE  issued' \in Nat /\ issued' <= MaxRequests
<1>1. issued \in Nat /\ issued < MaxRequests /\ issued' = issued + 1
  BY DEF TypeOK, Begin
<1> QED
  BY <1>1, BoundsAreNat

(* Initially every variable has its type. *)
LEMMA InitTypeOK == Init => TypeOK
<1> SUFFICES ASSUME Init PROVE TypeOK
  OBVIOUS
<1>1. 0 \in Ages /\ 0 \in 0 .. MaxSent /\ 0 <= MaxRequests /\ 0 <= MaxFaults
  BY BoundsAreNat DEF Ages, MaxSent
<1>2. \A s \in Slots : req[s].pc = "idle"
  BY DEF Init, Idle
<1> QED
  BY <1>1, <1>2, BlankType DEF Init, TypeOK, InHand

(* A slot that takes a request of the right type keeps the types of all. *)
LEMMA SlotType ==
  ASSUME TypeOK, NEW s \in Slots, NEW r \in Request, ActiveTyped(r), req' = [req EXCEPT ![s] = r]
  PROVE  /\ req' \in [Slots -> Request]
         /\ \A t \in Slots : ActiveTyped(req'[t])
BY DEF TypeOK, ActiveTyped, InHand

(* Every step keeps the types. *)
LEMMA NextTypeOK == TypeOK /\ FreshRefs /\ [Next]_vars => TypeOK'
<1> SUFFICES ASSUME TypeOK, FreshRefs, [Next]_vars PROVE TypeOK'
  OBVIOUS
<1>a. ASSUME NEW s \in Slots
      PROVE /\ req[s] \in Request /\ req[s].sess \in PaymentResource
            /\ req[s].upd \in PaymentResource /\ req[s].pc \in PCs
            /\ req[s].pid \in Payments \cup {NoPayment} /\ req[s].todo \in SUBSET Payments
            /\ ActiveTyped(req[s])
  BY DEF TypeOK, Request, ActiveTyped, InHand
<1>1. ASSUME NEW p \in Payments, CreatePaymentSession(p) PROVE TypeOK'
  BY <1>1, BlankType DEF TypeOK, CreatePaymentSession, outside
<1>2. ASSUME NEW s \in Slots, NEW p \in Payments, NEW m \in OfferedMethods,
             HandlePatchPaymentSession(s, p, m)
      PROVE TypeOK'
  <2> DEFINE r == CallPatch([Idle EXCEPT !.pid = p], [Blank EXCEPT !.method = m], "idle")
  <2>1. [Idle EXCEPT !.pid = p] \in Request
    BY BlankType DEF Request
  <2>2. [Blank EXCEPT !.method = m] \in PaymentResource
    BY BlankType, RequestsAssumption DEF PaymentResource
  <2>3. r \in Request /\ ActiveTyped(r)
    <3>1. [Idle EXCEPT !.pid = p].pid \in Payments
      BY DEF Idle
    <3> QED
      BY <2>1, <2>2, <3>1, CallPatchType
  <2> HIDE DEF r
  <2>4. req' \in [Slots -> Request] /\ \A t \in Slots : ActiveTyped(req'[t])
    BY <1>2, <2>3, SlotType DEF HandlePatchPaymentSession, r
  <2>5. issued' \in Nat /\ issued' <= MaxRequests
    BY <1>2, BeginType DEF HandlePatchPaymentSession
  <2>6. UNCHANGED <<db, age, ext, sent, trusted, faults>>
    BY <1>2 DEF HandlePatchPaymentSession
  <2> QED
    BY <2>4, <2>5, <2>6 DEF TypeOK, ActiveTyped, InHand
<1>3. ASSUME NEW s \in Slots, NEW p \in Payments, CreateExternalPaymentJourney(s, p)
      PROVE TypeOK'
  <2> DEFINE r == [Idle EXCEPT !.pc = "journey-create", !.pid = p, !.sess = TransformToRest(db[p])]
  <2>1. r \in Request /\ ActiveTyped(r)
    BY BlankType, TransformType DEF TypeOK, Request, PCs, ActiveTyped, InHand
  <2>2. req' = [req EXCEPT ![s] = r] /\ UNCHANGED <<db, age, ext, sent, trusted, faults>>
    BY <1>3 DEF CreateExternalPaymentJourney
  <2>3. issued' \in Nat /\ issued' <= MaxRequests
    BY <1>3, BeginType DEF CreateExternalPaymentJourney
  <2> HIDE DEF r
  <2> QED
    BY <2>1, <2>2, <2>3, SlotType DEF TypeOK, ActiveTyped, InHand
<1>4. ASSUME NEW s \in Slots, CreateAtProvider(s) PROVE TypeOK'
  <2>1. ASSUME req' = [req EXCEPT ![s] = Idle], UNCHANGED ext PROVE TypeOK'
    <3>1. Idle \in Request /\ ActiveTyped(Idle)
      BY BlankType DEF Idle, ActiveTyped, InHand
    <3> QED
      BY <1>4, <2>1, <3>1, SlotType DEF TypeOK, CreateAtProvider, ActiveTyped, InHand
  <2>2. ASSUME NEW j \in Refs,
               ext' = [ext EXCEPT ![j] =
                         [pid |-> req[s].pid, state |-> "reserved",
                          by |-> IF req[s].sess.method = "credit-card" THEN "govpay" ELSE "paypal"]],
               req' = [req EXCEPT ![s] = [Idle EXCEPT !.pc = "journey-store", !.pid = req[s].pid,
                                                      !.upd = [Blank EXCEPT !.ref = j]]]
        PROVE TypeOK'
    <3> DEFINE r == [Idle EXCEPT !.pc = "journey-store", !.pid = req[s].pid,
                                 !.upd = [Blank EXCEPT !.ref = j]]
    <3>1. req[s].pid \in Payments
      BY <1>4, <1>a DEF CreateAtProvider, ActiveTyped, InHand
    <3>2. [Blank EXCEPT !.ref = j] \in PaymentResource
      BY BlankType DEF PaymentResource, AnyRef
    <3>3. r \in Request /\ ActiveTyped(r)
      BY <3>1, <3>2, BlankType DEF Request, PCs, ActiveTyped, InHand
    <3>4. ext' \in [Refs -> ProviderPayment]
      <4>1. [pid |-> req[s].pid, state |-> "reserved",
             by |-> IF req[s].sess.method = "credit-card" THEN "govpay" ELSE "paypal"]
               \in ProviderPayment
        BY <3>1 DEF ProviderPayment, GovPayStates, PayPalStates
      <4> QED
        BY <2>2, <4>1 DEF TypeOK
    <3> HIDE DEF r
    <3> QED
      BY <1>4, <2>2, <3>3, <3>4, SlotType DEF TypeOK, CreateAtProvider, ActiveTyped, InHand, r
  <2> QED
    BY <1>4, <2>1, <2>2 DEF CreateAtProvider
<1>5. ASSUME NEW s \in Slots, StoreExternalPaymentStatusDetails(s) PROVE TypeOK'
  <2>1. db' \in [Payments -> PaymentResource]
    BY <1>5, <1>a, PatchType DEF TypeOK, StoreExternalPaymentStatusDetails
  <2>2. ext' \in [Refs -> ProviderPayment]
    BY <1>5 DEF TypeOK, FreshRefs, Storing, StoreExternalPaymentStatusDetails, ProviderPayment,
                GovPayStates, PayPalStates
  <2>3. Idle \in Request /\ ActiveTyped(Idle)
    BY BlankType DEF Idle, ActiveTyped, InHand
  <2> QED
    BY <1>5, <2>1, <2>2, <2>3, SlotType DEF TypeOK, StoreExternalPaymentStatusDetails, ActiveTyped, InHand
<1>6. ASSUME NEW s \in Slots, PatchRead(s) PROVE TypeOK'
  <2> DEFINE r == [req[s] EXCEPT !.pc = "patch-write",
                                 !.upd.status = IF db[req[s].pid].status = "pending"
                                                THEN "in-progress" ELSE @]
  <2>1. r \in Request
    <3>1. [req[s].upd EXCEPT !.status = IF db[req[s].pid].status = "pending"
                                        THEN "in-progress" ELSE @] \in PaymentResource
      BY <1>a DEF PaymentResource, Statuses
    <3> QED
      BY <3>1, <1>a DEF Request, PCs
  <2>2. ActiveTyped(r)
    BY <1>a, <1>6 DEF PatchRead, ActiveTyped, InHand
  <2>3. req' = [req EXCEPT ![s] = r]
    BY <1>6 DEF PatchRead
  <2> HIDE DEF r
  <2> QED
    BY <1>6, <2>1, <2>2, <2>3, SlotType DEF TypeOK, PatchRead, outside, ActiveTyped, InHand
<1>7. ASSUME NEW s \in Slots, PatchWrite(s) PROVE TypeOK'
  <2> DEFINE r == IF req[s].next = "announce" THEN [Idle EXCEPT !.pc = "announce", !.pid = req[s].pid]
                                              ELSE Remainder(req[s])
  <2>1. db' \in [Payments -> PaymentResource]
    BY <1>7, <1>a, PatchType DEF TypeOK, PatchWrite
  <2>2. r \in Request /\ ActiveTyped(r)
    <3>1. req[s].pid \in Payments
      BY <1>7, <1>a DEF PatchWrite, ActiveTyped, InHand
    <3>2. Remainder(req[s]) \in Request /\ ActiveTyped(Remainder(req[s]))
      BY <1>a, RemainderType, BlankType DEF Remainder, ActiveTyped, InHand, Idle
    <3>3. [Idle EXCEPT !.pc = "announce", !.pid = req[s].pid] \in Request
      BY <3>1, BlankType DEF Request, PCs
    <3> QED
      BY <3>1, <3>2, <3>3 DEF ActiveTyped, InHand, Idle
  <2>3. req' = [req EXCEPT ![s] = r]
    BY <1>7 DEF PatchWrite
  <2> HIDE DEF r
  <2> QED
    BY <1>7, <2>1, <2>2, <2>3, SlotType DEF TypeOK, PatchWrite, outside, ActiveTyped, InHand
<1>8. ASSUME NEW s \in Slots, NEW p \in Payments, HandleGovPayCallback(s, p) PROVE TypeOK'
  <2> DEFINE r == [Idle EXCEPT !.pc = "govpay-status", !.pid = p, !.late = IsExpired(age[p]),
                               !.sess = TransformToRest(db[p])]
  <2>1. r \in Request /\ ActiveTyped(r)
    <3>1. IsExpired(age[p]) \in BOOLEAN
      BY DEF IsExpired
    <3>2. TransformToRest(db[p]) \in PaymentResource
      BY TransformType DEF TypeOK
    <3> QED
      BY <3>1, <3>2, BlankType DEF Request, PCs, ActiveTyped, InHand
  <2>2. req' = [req EXCEPT ![s] = r] /\ UNCHANGED <<db, age, ext, sent, trusted, faults>>
    BY <1>8 DEF HandleGovPayCallback
  <2>3. issued' \in Nat /\ issued' <= MaxRequests
    BY <1>8, BeginType DEF HandleGovPayCallback
  <2> HIDE DEF r
  <2> QED
    BY <2>1, <2>2, <2>3, SlotType DEF TypeOK, ActiveTyped, InHand
<1>9. ASSUME NEW s \in Slots, GovPayCallbackStatus(s) PROVE TypeOK'
  <2> DEFINE v == CheckPaymentProviderStatus(callGovPay(Held(req[s].sess.ref)))
             expired == [req[s].sess EXCEPT !.status = "expired"]
             closed == [req[s].sess EXCEPT !.status = v.status,
                                           !.prov = IF v.named THEN req[s].sess.ref ELSE NoRef,
                                           !.completed = @ \/ v.type = "Success"]
  <2>1. req[s].pid \in Payments
    BY <1>9, <1>a DEF GovPayCallbackStatus, ActiveTyped, InHand
  <2>2. expired \in PaymentResource
    BY <1>a DEF PaymentResource, Statuses, ClosedStatuses
  <2>3. closed \in PaymentResource
    <3>1. v.status \in Statuses
      BY StatusType
    <3> QED
      BY <1>a, <3>1 DEF PaymentResource, AnyRef
  <2>4. \E r \in Request : ActiveTyped(r) /\ req' = [req EXCEPT ![s] = r]
    <3>1. CASE req' = [req EXCEPT ![s] = CallPatch(req[s], TransformToDB(expired), "idle")]
      BY <3>1, <1>a, <2>1, <2>2, TransformType, CallPatchType
    <3>2. CASE req' = [req EXCEPT ![s] = CallPatch(req[s], TransformToDB(closed),
                                                   IF v.type = "Success" THEN "announce" ELSE "idle")]
      BY <3>2, <1>a, <2>1, <2>3, TransformType, CallPatchType
    <3>3. CASE req' = [req EXCEPT ![s] = Idle]
      BY <3>3, BlankType DEF ActiveTyped, InHand, Idle
    <3> QED
      BY <1>9, <3>1, <3>2, <3>3 DEF GovPayCallbackStatus
  <2>5. trusted' \in SUBSET Payments /\ UNCHANGED <<db, age, ext, sent, issued, faults>>
    BY <1>9, <2>1 DEF GovPayCallbackStatus, TypeOK
  <2> QED
    BY <2>4, <2>5, SlotType DEF TypeOK, ActiveTyped, InHand
<1>10. ASSUME NEW s \in Slots, NEW p \in Payments, HandlePayPalCallback(s, p) PROVE TypeOK'
  <2> DEFINE late == [TransformToRest(db[p]) EXCEPT !.status = "expired"]
             asks == [Idle EXCEPT !.pc = "paypal-order", !.pid = p, !.sess = TransformToRest(db[p])]
  <2>1. TransformToRest(db[p]) \in PaymentResource
    BY TransformType DEF TypeOK
  <2>2. /\ CallPatch([Idle EXCEPT !.pid = p], TransformToDB(late), "idle") \in Request
        /\ ActiveTyped(CallPatch([Idle EXCEPT !.pid = p], TransformToDB(late), "idle"))
    <3>1. late \in PaymentResource
      BY <2>1 DEF PaymentResource, Statuses, ClosedStatuses
    <3>2. [Idle EXCEPT !.pid = p] \in Request /\ [Idle EXCEPT !.pid = p].pid \in Payments
      BY BlankType DEF Request, Idle
    <3> QED
      BY <3>1, <3>2, TransformType, CallPatchType
  <2>3. asks \in Request
    BY <2>1, BlankType DEF Request, PCs
  <2>4. \E r \in Request : ActiveTyped(r) /\ req' = [req EXCEPT ![s] = r]
    <3>1. CASE req' = [req EXCEPT ![s] = CallPatch([Idle EXCEPT !.pid = p], TransformToDB(late), "idle")]
      BY <3>1, <2>2
    <3>2. CASE req' = [req EXCEPT ![s] = asks]
      BY <3>2, <2>3 DEF ActiveTyped, InHand, Idle
    <3> QED
      BY <1>10, <3>1, <3>2 DEF HandlePayPalCallback
  <2>5. issued' \in Nat /\ issued' <= MaxRequests
    BY <1>10, BeginType DEF HandlePayPalCallback
  <2>6. UNCHANGED <<db, age, ext, sent, trusted, faults>>
    BY <1>10 DEF HandlePayPalCallback
  <2> QED
    BY <2>4, <2>5, <2>6, SlotType DEF TypeOK, ActiveTyped, InHand
<1>11. ASSUME NEW s \in Slots, PayPalOrderStatus(s) PROVE TypeOK'
  <2> DEFINE failed == [req[s].sess EXCEPT !.status = "failed", !.completed = TRUE]
  <2>1. req[s].pid \in Payments
    BY <1>11, <1>a DEF PayPalOrderStatus, ActiveTyped, InHand
  <2>2. failed \in PaymentResource
    BY <1>a DEF PaymentResource, Statuses, ClosedStatuses
  <2>3. \E r \in Request : ActiveTyped(r) /\ req' = [req EXCEPT ![s] = r]
    <3>1. CASE req' = [req EXCEPT ![s] = CallPatch(req[s], TransformToDB(failed), "announce")]
      BY <3>1, <1>a, <2>1, <2>2, TransformType, CallPatchType
    <3>2. CASE req' = [req EXCEPT ![s].pc = "paypal-capture"]
      <4>1. [req[s] EXCEPT !.pc = "paypal-capture"] \in Request
        BY <1>a DEF Request, PCs
      <4> QED
        BY <3>2, <4>1, <2>1 DEF ActiveTyped, InHand, Request
    <3>3. CASE req' = [req EXCEPT ![s] = Idle]
      BY <3>3, BlankType DEF ActiveTyped, InHand, Idle
    <3> QED
      BY <1>11, <3>1, <3>2, <3>3 DEF PayPalOrderStatus
  <2>4. UNCHANGED <<db, sent, outside>>
    BY <1>11 DEF PayPalOrderStatus
  <2> QED
    BY <2>3, <2>4, SlotType DEF TypeOK, ActiveTyped, InHand, outside
<1>12. ASSUME NEW s \in Slots, CapturePayment(s) PROVE TypeOK'
  <2> DEFINE j == req[s].sess.ref
  <2>1. req[s].pid \in Payments
    BY <1>12, <1>a DEF CapturePayment, ActiveTyped, InHand
  <2>2. CASE req' = [req EXCEPT ![s] = Idle] /\ UNCHANGED ext
    <3>1. Idle \in Request /\ ActiveTyped(Idle)
      BY BlankType DEF Idle, ActiveTyped, InHand
    <3> QED
      BY <1>12, <2>2, <3>1, SlotType DEF TypeOK, CapturePayment, ActiveTyped, InHand
  <2>3. ASSUME ext[j].state = "approved", NEW c \in CaptureStates,
               ext' = [ext EXCEPT ![j].state = c],
               req' = [req EXCEPT ![s] =
                         CallPatch(req[s], TransformToDB([req[s].sess EXCEPT
                                                            !.status = CaptureStatus(c),
                                                            !.txn = j, !.completed = TRUE]),
                                   "announce")]
        PROVE TypeOK'
    <3> DEFINE done == [req[s].sess EXCEPT !.status = CaptureStatus(c), !.txn = j, !.completed = TRUE]
               r == CallPatch(req[s], TransformToDB(done), "announce")
    <3>1. done \in PaymentResource
      <4>1. CaptureStatus(c) \in Statuses /\ j \in AnyRef
        BY <1>a, StatusType DEF PaymentResource
      <4> QED
        BY <1>a, <4>1 DEF PaymentResource
    <3>2. r \in Request /\ ActiveTyped(r)
      BY <3>1, <1>a, <2>1, TransformType, CallPatchType
    <3>3. ext' \in [Refs -> ProviderPayment]
      <4>1. ASSUME j \in Refs PROVE [ext[j] EXCEPT !.state = c] \in ProviderPayment
        <5>1. ext[j] \in ProviderPayment
          BY <4>1 DEF TypeOK
        <5>2. ext[j] \in [pid: Payments, by: {"paypal"}, state: PayPalStates]
          BY <5>1, <2>3 DEF ProviderPayment, GovPayStates, GovPayFailures
        <5>3. c \in PayPalStates
          BY DEF PayPalStates
        <5> HIDE DEF j
        <5> QED
          BY <5>2, <5>3 DEF ProviderPayment
      <4> HIDE DEF j
      <4> QED
        BY <2>3, <4>1 DEF TypeOK
    <3> HIDE DEF r
    <3> QED
      BY <1>12, <2>3, <3>2, <3>3, SlotType DEF TypeOK, CapturePayment, ActiveTyped, InHand, r
  <2> QED
    BY <1>12, <2>2, <2>3 DEF CapturePayment
<1>13. ASSUME NEW s \in Slots, HandleCheckPaymentStatus(s) PROVE TypeOK'
  <2> DEFINE r == [Idle EXCEPT !.pc = "sweep", !.todo = GetIncompleteGovPayPayments(db, age)]
  <2>1. r \in Request /\ ActiveTyped(r)
    BY BlankType DEF Request, PCs, ActiveTyped, InHand, GetIncompleteGovPayPayments, Idle
  <2>2. req' = [req EXCEPT ![s] = r] /\ UNCHANGED <<db, sent, outside>>
    BY <1>13 DEF HandleCheckPaymentStatus
  <2> HIDE DEF r
  <2> QED
    BY <2>1, <2>2, SlotType DEF TypeOK, ActiveTyped, InHand, outside
<1>14. ASSUME NEW s \in Slots, CheckNext(s) PROVE TypeOK'
  <2>1. PICK p \in req[s].todo :
          req' = [req EXCEPT ![s] = [Idle EXCEPT !.pc = "sweep-status", !.pid = p,
                                                 !.sess = TransformToRest(db[p]),
                                                 !.todo = req[s].todo \ {p}]]
    BY <1>14 DEF CheckNext
  <2> DEFINE r == [Idle EXCEPT !.pc = "sweep-status", !.pid = p, !.sess = TransformToRest(db[p]),
                               !.todo = req[s].todo \ {p}]
  <2>2. p \in Payments /\ TransformToRest(db[p]) \in PaymentResource
    BY <1>a, TransformType DEF TypeOK
  <2>3. r \in Request /\ ActiveTyped(r)
    BY <1>a, <2>2, BlankType DEF Request, PCs, ActiveTyped, InHand
  <2>4. UNCHANGED <<db, sent, outside>>
    BY <1>14 DEF CheckNext
  <2> HIDE DEF r
  <2> QED
    BY <2>1, <2>3, <2>4, SlotType DEF TypeOK, ActiveTyped, InHand, outside, r
<1>15. ASSUME NEW s \in Slots, CheckSkips(s) PROVE TypeOK'
  <2>1. Remainder(req[s]) \in Request /\ ActiveTyped(Remainder(req[s]))
    BY <1>a, RemainderType
  <2> QED
    BY <1>15, <2>1, SlotType DEF TypeOK, CheckSkips, ActiveTyped, InHand, outside
<1>16. ASSUME NEW s \in Slots, CheckFinds(s) PROVE TypeOK'
  <2> DEFINE a == callGovPay(Held(req[s].sess.ref))
             call == CallPatch(req[s], Closing(a, req[s].sess.ref), "idle")
             r == [call EXCEPT !.pc = IF GetPaymentStatus(a) = "paid" THEN "sweep-announce"
                                                                      ELSE "patch-read"]
  <2>1. Closing(a, req[s].sess.ref) \in PaymentResource
    <3>1. GetPaymentStatus(a) \in Statuses
      BY StatusType
    <3>2. req[s].sess.ref \in AnyRef
      BY <1>a DEF PaymentResource
    <3> QED
      BY <3>1, <3>2, BlankType DEF Closing, PaymentResource, AnyRef
  <2>2. req[s].pid \in Payments
    BY <1>16, <1>a DEF CheckFinds, ActiveTyped, InHand
  <2>3. call \in Request /\ call.pid = req[s].pid
    <3>1. call.pid = req[s].pid
      BY <1>a DEF CallPatch, Request
    <3> QED
      BY <3>1, <1>a, <2>1, <2>2, CallPatchType
  <2>4. r \in Request /\ ActiveTyped(r)
    BY <2>2, <2>3 DEF Request, PCs, ActiveTyped, InHand
  <2>5. req' = [req EXCEPT ![s] = r] /\ UNCHANGED <<db, sent, outside>>
    BY <1>16 DEF CheckFinds
  <2> HIDE DEF r
  <2> QED
    BY <2>4, <2>5, SlotType DEF TypeOK, ActiveTyped, InHand, outside
<1>17. ASSUME NEW s \in Slots, CheckAnnounces(s) PROVE TypeOK'
  <2> DEFINE r == [req[s] EXCEPT !.pc = "patch-read"]
  <2>1. r \in Request /\ ActiveTyped(r)
    BY <1>17, <1>a DEF Request, PCs, ActiveTyped, InHand, CheckAnnounces
  <2>2. req' = [req EXCEPT ![s] = r] /\ UNCHANGED <<db, outside>>
    BY <1>17 DEF CheckAnnounces
  <2>3. sent' \in [Payments -> 0 .. MaxSent]
    BY <1>17, Bounds DEF TypeOK, CheckAnnounces, ProduceMessage
  <2> HIDE DEF r
  <2> QED
    BY <2>1, <2>2, <2>3, SlotType DEF TypeOK, ActiveTyped, InHand, outside
<1>18. ASSUME NEW s \in Slots, Announce(s) PROVE TypeOK'
  <2>1. Idle \in Request /\ ActiveTyped(Idle)
    BY BlankType DEF Idle, ActiveTyped, InHand
  <2>2. sent' \in [Payments -> 0 .. MaxSent]
    BY <1>18, Bounds DEF TypeOK, Announce, ProduceMessage
  <2> QED
    BY <1>18, <2>1, <2>2, SlotType DEF TypeOK, Announce, ActiveTyped, InHand, outside
<1>19. ASSUME NEW s \in Slots, CheckContinues(s) PROVE TypeOK'
  <2>1. Remainder(req[s]) \in Request /\ ActiveTyped(Remainder(req[s]))
    BY <1>a, RemainderType
  <2>2. faults' \in Nat /\ faults' <= MaxFaults
    BY <1>19, BoundsAreNat DEF TypeOK, CheckContinues
  <2> QED
    BY <1>19, <2>1, <2>2, SlotType DEF TypeOK, CheckContinues, ActiveTyped, InHand
<1>20. ASSUME NEW s \in Slots, RequestDies(s) PROVE TypeOK'
  <2>1. Idle \in Request /\ ActiveTyped(Idle)
    BY BlankType DEF Idle, ActiveTyped, InHand
  <2>2. faults' \in Nat /\ faults' <= MaxFaults
    BY <1>20, BoundsAreNat DEF TypeOK, RequestDies
  <2> QED
    BY <1>20, <2>1, <2>2, SlotType DEF TypeOK, RequestDies, ActiveTyped, InHand
<1>21. ASSUME NEW j \in Refs, GovPayMoves(j) PROVE TypeOK'
  <2>1. ext' \in [Refs -> ProviderPayment]
    BY <1>21, OutcomesAssumption DEF TypeOK, GovPayMoves, ProviderPayment, GovPayStates
  <2> QED
    BY <1>21, <2>1 DEF TypeOK, GovPayMoves
<1>22. ASSUME NEW j \in Refs, PayPalApproved(j) PROVE TypeOK'
  <2>1. ext' \in [Refs -> ProviderPayment]
    BY <1>22 DEF TypeOK, PayPalApproved, ProviderPayment, PayPalStates
  <2> QED
    BY <1>22, <2>1 DEF TypeOK, PayPalApproved
<1>23. ASSUME Tick PROVE TypeOK'
  <2>1. age' \in [Payments -> Ages]
    BY <1>23, Bounds DEF TypeOK, Tick
  <2> QED
    BY <1>23, <2>1 DEF TypeOK, Tick
<1>24. CASE UNCHANGED vars
  BY <1>24 DEF vars, TypeOK
<1> QED
  BY <1>1, <1>2, <1>3, <1>4, <1>5, <1>6, <1>7, <1>8, <1>9, <1>10, <1>11, <1>12, <1>13, <1>14,
     <1>15, <1>16, <1>17, <1>18, <1>19, <1>20, <1>21, <1>22, <1>23, <1>24
  DEF Next, Arrive, Proceed

-----------------------------------------------------------------------------
(* The state functions of the invariant, with the collection d, the payments
   x of the providers and the trusted payments u as parameters, so that
   lemmas can speak of them before and after a step. *)
OpenedIn(d, p) == d[p].status \notin OpenStatuses
MadeIn(x, p) == {j \in Refs : x[j].pid = p}
OwnedIn(x, doc, p) ==
  /\ {doc.ref, doc.prov, doc.txn} \subseteq MadeIn(x, p) \cup {NoRef}
  /\ doc.prov # NoRef => x[doc.prov].by = "govpay"
  /\ doc.txn # NoRef => x[doc.txn].state \in CaptureStates
PayIn(x, u, p) == p \in u \/ \E j \in MadeIn(x, p) : MoneyTaken(x[j])
TellIn(x, p) ==
  \E j \in MadeIn(x, p) : x[j].by = "paypal" \/ x[j].state \in {"success", "cancelled"}

(* What IInv says of one session, of which n messages were sent ... *)
SessionOK(d, x, u, n, p) ==
  /\ d[p].status \in OpenStatuses =>
       d[p] \in {Blank, NewResource} /\ MadeIn(x, p) = {} /\ n[p] = 0 /\ p \notin u
  /\ OwnedIn(x, d[p], p)
  /\ d[p].status = "paid" => PayIn(x, u, p)
  /\ n[p] > 0 => TellIn(x, p)

(* ... of one request ... *)
RequestOK(d, x, u, r) ==
  /\ \A p \in r.todo : OpenedIn(d, p)
  /\ InHand(r) =>
       /\ d[r.pid].status # ""
       /\ OpenedIn(d, r.pid) \/ Choosing(r)
       /\ r.upd.status # "pending"
       /\ OwnedIn(x, r.sess, r.pid) /\ OwnedIn(x, r.upd, r.pid)
       /\ r.upd.status = "paid" => PayIn(x, u, r.pid)
       /\ r.pc \in {"announce", "sweep-announce"} \/ r.next = "announce" => TellIn(x, r.pid)
       /\ r.pc = "journey-store" => r.upd.ref \in Refs /\ x[r.upd.ref].state = "reserved"
       /\ r.pc = "paypal-capture" => r.sess.ref \in Refs

(* ... and of two. *)
Apart(q) == \A s, t \in Slots :
  q[s].pc = "journey-store" /\ q[t].pc = "journey-store" /\ q[s].upd.ref = q[t].upd.ref => s = t

Parts ==
  /\ TypeOK
  /\ \A p \in Payments : SessionOK(db, ext, trusted, sent, p)
  /\ \A s \in Slots : RequestOK(db, ext, trusted, req[s])
  /\ Apart(req)

(* The invariant is the sum of its parts. *)
LEMMA PartsOfIInv == IInv <=> Parts
<1> SUFFICES ASSUME TypeOK
    PROVE OpenInv /\ NamesInv /\ GroundsInv
            <=> /\ \A p \in Payments : SessionOK(db, ext, trusted, sent, p)
                /\ \A s \in Slots : RequestOK(db, ext, trusted, req[s])
                /\ Apart(req)
  BY DEF IInv, Parts
<1>1. /\ \A p : MadeFor(p) = MadeIn(ext, p) /\ Opened(p) = OpenedIn(db, p)
      /\ \A p : GroundsToPay(p) <=> PayIn(ext, trusted, p)
      /\ \A p : GroundsToTell(p) <=> TellIn(ext, p)
      /\ \A doc, p : Owned(doc, p) <=> OwnedIn(ext, doc, p)
  BY DEF MadeFor, MadeIn, Opened, OpenedIn, GroundsToPay, PayIn, GroundsToTell, TellIn, Owned, OwnedIn
<1>2. trusted \subseteq Payments /\ \A s \in Slots : req[s].todo \subseteq Payments
  BY DEF TypeOK, Request
<1>3. (\A p \in Payments : SessionOK(db, ext, trusted, sent, p))
        <=> /\ PendingIsUntouched /\ trusted \subseteq {p \in Payments : Opened(p)}
            /\ NamesAreOwn /\ PaidHasGrounds /\ AnnouncedHasGrounds
  BY <1>1, <1>2 DEF SessionOK, PendingIsUntouched, OpenedIn, NamesAreOwn, PaidHasGrounds,
                    AnnouncedHasGrounds
<1>4. (\A s \in Slots : RequestOK(db, ext, trusted, req[s])) /\ Apart(req)
        <=> /\ RequestsAreOpen /\ RequestNamesAreOwn /\ FreshRefs /\ CapturesNamed
            /\ RequestsHaveGrounds
  BY <1>1, <1>2 DEF RequestOK, Apart, RequestsAreOpen, RequestNamesAreOwn, FreshRefs, Storing,
                    CapturesNamed, RequestsHaveGrounds, InHand
<1> QED
  BY <1>3, <1>4 DEF OpenInv, NamesInv, GroundsInv

(* After a step as before it. *)
LEMMA PartsOfIInvNext == IInv' <=> Parts'
BY PartsOfIInv, PTL

-----------------------------------------------------------------------------
(* What only grows. *)

Settled == CaptureStates \cup {"success", "cancelled"}

(* A provider's payment keeps its session and its provider, and a settled one
   its state; payments once trusted stay so. *)
Grows(x, y, u, v) ==
  /\ \A j \in Refs : x[j].pid \in Payments =>
       /\ y[j].pid = x[j].pid /\ y[j].by = x[j].by
       /\ x[j].state \in Settled => y[j].state = x[j].state
  /\ u \subseteq v

(* Sessions stay created and open. *)
Opens(d, e) == \A p \in Payments :
  (d[p].status # "" => e[p].status # "") /\ (OpenedIn(d, p) => OpenedIn(e, p))

(* Names and grounds survive it. *)
LEMMA GroundsStay ==
  ASSUME NEW x, NEW y, NEW u, NEW v, Grows(x, y, u, v), NEW p \in Payments
  PROVE  /\ MadeIn(x, p) \subseteq MadeIn(y, p)
         /\ \A doc : OwnedIn(x, doc, p) => OwnedIn(y, doc, p)
         /\ PayIn(x, u, p) => PayIn(y, v, p)
         /\ TellIn(x, p) => TellIn(y, p)
<1>1. \A j \in MadeIn(x, p) :
        /\ j \in MadeIn(y, p) /\ y[j].by = x[j].by
        /\ x[j].state \in Settled => y[j].state = x[j].state
  BY DEF Grows, MadeIn
<1>2. \A doc : OwnedIn(x, doc, p) => OwnedIn(y, doc, p)
  <2> SUFFICES ASSUME NEW doc, OwnedIn(x, doc, p) PROVE OwnedIn(y, doc, p)
    OBVIOUS
  <2>1. {doc.ref, doc.prov, doc.txn} \subseteq MadeIn(y, p) \cup {NoRef}
    BY <1>1 DEF OwnedIn
  <2>2. doc.prov # NoRef => y[doc.prov].by = "govpay"
    BY <1>1 DEF OwnedIn
  <2>3. doc.txn # NoRef => y[doc.txn].state \in CaptureStates
    BY <1>1 DEF OwnedIn, Settled
  <2> QED
    BY <2>1, <2>2, <2>3 DEF OwnedIn
<1>3. PayIn(x, u, p) => PayIn(y, v, p)
  BY <1>1 DEF PayIn, MoneyTaken, Settled, CaptureStates, Grows
<1>4. TellIn(x, p) => TellIn(y, p)
  BY <1>1 DEF TellIn, Settled
<1> QED
  BY <1>1, <1>2, <1>3, <1>4

(* So does what the invariant says of a request that does not move, as long
   as the payment it has just made stays unknown to the payer. *)
LEMMA RequestStays ==
  ASSUME NEW d, NEW e, NEW x, NEW y, NEW u, NEW v, Grows(x, y, u, v), Opens(d, e),
         NEW r \in Request, ActiveTyped(r), RequestOK(d, x, u, r),
         r.pc = "journey-store" => y[r.upd.ref].state = "reserved"
  PROVE  RequestOK(e, y, v, r)
<1>1. \A p \in r.todo : OpenedIn(e, p)
  BY DEF RequestOK, Opens, Request
<1>2. ASSUME InHand(r) PROVE RequestOK(e, y, v, r)
  <2>1. r.pid \in Payments
    BY <1>2 DEF ActiveTyped
  <2>2. e[r.pid].status # "" /\ (OpenedIn(e, r.pid) \/ Choosing(r))
    BY <1>2, <2>1 DEF RequestOK, Opens
  <2> QED
    BY <1>1, <1>2, <2>1, <2>2, GroundsStay DEF RequestOK
<1> QED
  BY <1>1, <1>2 DEF RequestOK

(* Nothing changes: nothing shrinks. *)
LEMMA Still ==
  ASSUME NEW d, NEW x, NEW u PROVE Grows(x, x, u, u) /\ Opens(d, d)
BY DEF Grows, Opens

(* Grounds found, messages not sent and the document not touched: the session
   is as it was. *)
LEMMA SessionStays ==
  ASSUME NEW d, NEW e, NEW x, NEW y, NEW u, NEW v, NEW n, NEW m, NEW p \in Payments,
         Grows(x, y, u, v), SessionOK(d, x, u, n, p), e[p] = d[p], m[p] = n[p],
         d[p].status \in OpenStatuses => MadeIn(y, p) = {} /\ p \notin v
  PROVE  SessionOK(e, y, v, m, p)
BY GroundsStay DEF SessionOK

-----------------------------------------------------------------------------
(* Steps that move one request. *)

(* Sessions are in order after a step that leaves the collection alone, sends
   nothing, and makes no payment for a session that is not open. *)
LEMMA SessionsStay ==
  ASSUME IInv, Grows(ext, ext', trusted, trusted'), UNCHANGED <<db, sent>>,
         \A p \in Payments : db[p].status \in OpenStatuses =>
           MadeIn(ext', p) = {} /\ p \notin trusted'
  PROVE  \A p \in Payments : SessionOK(db', ext', trusted', sent', p)
<1> SUFFICES ASSUME NEW p \in Payments PROVE SessionOK(db', ext', trusted', sent', p)
  OBVIOUS
<1>1. SessionOK(db, ext, trusted, sent, p)
  BY PartsOfIInv DEF Parts
<1>2. db'[p] = db[p] /\ sent'[p] = sent[p]
  OBVIOUS
<1> QED
  BY <1>1, <1>2, SessionStays

(* Requests are in order after a step that moves none of them. *)
LEMMA RequestsStay ==
  ASSUME IInv, TypeOK', Grows(ext, ext', trusted, trusted'), Opens(db, db'), UNCHANGED req,
         \A p \in Payments : SessionOK(db', ext', trusted', sent', p),
         \A t \in Slots : req[t].pc = "journey-store" => ext'[req[t].upd.ref].state = "reserved"
  PROVE  IInv'
<1>1. Parts
  BY PartsOfIInv
<1>2. ASSUME NEW t \in Slots PROVE RequestOK(db', ext', trusted', req'[t])
  <2>1. /\ req[t] \in Request /\ ActiveTyped(req[t]) /\ RequestOK(db, ext, trusted, req[t])
        /\ req'[t] = req[t]
    BY <1>1 DEF Parts, TypeOK, ActiveTyped
  <2> QED
    BY <2>1, RequestStays
<1>3. Parts'
  BY <1>1, <1>2 DEF Parts, Apart
<1> QED
  BY <1>3, PartsOfIInvNext

(* What is to be shown of a step that moves the request in slot s to r. *)
LEMMA OneSlot ==
  ASSUME IInv, TypeOK', NEW s \in Slots, NEW r, req' = [req EXCEPT ![s] = r],
         Grows(ext, ext', trusted, trusted'), Opens(db, db'),
         RequestOK(db', ext', trusted', r),
         \A p \in Payments : SessionOK(db', ext', trusted', sent', p),
         \A t \in Slots : t # s /\ req[t].pc = "journey-store" =>
           /\ ext'[req[t].upd.ref].state = "reserved"
           /\ r.pc = "journey-store" => req[t].upd.ref # r.upd.ref
  PROVE  IInv'
<1>1. Parts
  BY PartsOfIInv
<1>2. req'[s] = r /\ \A t \in Slots : t # s => req'[t] = req[t]
  BY <1>1 DEF Parts, TypeOK
<1>3. ASSUME NEW t \in Slots PROVE RequestOK(db', ext', trusted', req'[t])
  <2>1. CASE t = s
    BY <1>2, <2>1
  <2>2. CASE t # s
    <3>1. req[t] \in Request /\ ActiveTyped(req[t]) /\ RequestOK(db, ext, trusted, req[t])
      BY <1>1 DEF Parts, TypeOK, ActiveTyped
    <3> QED
      BY <1>2, <2>2, <3>1, RequestStays
  <2> QED
    BY <2>1, <2>2
<1>4. Apart(req')
  BY <1>1, <1>2 DEF Parts, Apart
<1>5. Parts'
  BY <1>3, <1>4 DEF Parts
<1> QED
  BY <1>5, PartsOfIInvNext

(* The same when nothing else changes, but for a payment called trusted. *)
LEMMA QuietSlot ==
  ASSUME IInv, TypeOK', NEW s \in Slots, NEW r, req' = [req EXCEPT ![s] = r],
         UNCHANGED <<db, ext, sent>>, r.pc # "journey-store",
         RequestOK(db, ext, trusted', r), trusted \subseteq trusted',
         \A p \in Payments : p \in trusted' => p \in trusted \/ OpenedIn(db, p)
  PROVE  IInv'
<1>1. Parts
  BY PartsOfIInv
<1>2. Grows(ext, ext', trusted, trusted') /\ Opens(db, db')
  BY DEF Grows, Opens
<1>3. ASSUME NEW p \in Payments, db[p].status \in OpenStatuses
      PROVE  MadeIn(ext', p) = {} /\ p \notin trusted'
  BY <1>1, <1>3 DEF Parts, SessionOK, OpenedIn
<1>4. ASSUME NEW t \in Slots, req[t].pc = "journey-store"
      PROVE  ext'[req[t].upd.ref].state = "reserved"
  BY <1>1, <1>4 DEF Parts, RequestOK, InHand
<1>5. \A p \in Payments : SessionOK(db', ext', trusted', sent', p)
  BY <1>2, <1>3, SessionsStay
<1> QED
  BY <1>2, <1>4, <1>5, OneSlot

(* A request that has ended, or has the rest of a list to do, is in order. *)
LEMMA RemainderOK ==
  ASSUME NEW d, NEW x, NEW u, NEW r \in Request, RequestOK(d, x, u, r)
  PROVE  /\ RequestOK(d, x, u, Remainder(r)) /\ Remainder(r).pc # "journey-store"
         /\ RequestOK(d, x, u, Idle) /\ Idle.pc # "journey-store"
BY DEF Remainder, Idle, RequestOK, InHand

(* Nothing is named by an update that names nothing. *)
LEMMA BlankOwned ==
  ASSUME NEW x, NEW p PROVE OwnedIn(x, Blank, p)
BY DEF OwnedIn, Blank

(* A request that goes on to write an update is in order when the session is
   open and the update names its own payments and is paid, and announced,
   only on grounds. *)
LEMMA CallPatchOK ==
  ASSUME NEW d, NEW x, NEW u, NEW r \in Request, NEW update \in PaymentResource,
         NEW next \in {"idle", "announce"},
         \A p \in r.todo : OpenedIn(d, p),
         r.pid \in Payments, OpenedIn(d, r.pid), update.status # "pending",
         OwnedIn(x, update, r.pid), update.status = "paid" => PayIn(x, u, r.pid),
         next = "announce" => TellIn(x, r.pid)
  PROVE  /\ RequestOK(d, x, u, CallPatch(r, update, next))
         /\ CallPatch(r, update, next).pc = "patch-read"
<1> DEFINE c == CallPatch(r, update, next)
<1>1. /\ c.pc = "patch-read" /\ c.pid = r.pid /\ c.sess = Blank /\ c.upd = update
      /\ c.next = next /\ c.todo = r.todo
  BY DEF CallPatch, Request
<1>2. d[r.pid].status # ""
  BY DEF OpenedIn, OpenStatuses
<1> HIDE DEF c
<1>3. RequestOK(d, x, u, c)
  BY <1>1, <1>2, BlankOwned DEF RequestOK
<1> QED
  BY <1>1, <1>3 DEF c

(* A request that has just read an open session is in order. *)
LEMMA SnapshotOK ==
  ASSUME NEW d, NEW x, NEW u, NEW p \in Payments, OpenedIn(d, p), NEW doc, OwnedIn(x, doc, p),
         NEW r, r.pid = p, r.sess = doc, r.upd = Blank, r.next = "idle",
         r.pc \in {"journey-create", "govpay-status", "paypal-order", "sweep-status"},
         \A q \in r.todo : OpenedIn(d, q)
  PROVE  RequestOK(d, x, u, r) /\ r.pc # "journey-store"
<1>1. d[p].status # ""
  BY DEF OpenedIn, OpenStatuses
<1>2. Blank.status = ""
  BY DEF Blank
<1> QED
  BY <1>1, <1>2, BlankOwned DEF RequestOK

(* The conversions neither add names nor change the status. *)
LEMMA TransformOK ==
  ASSUME NEW x, NEW p, NEW doc \in PaymentResource, OwnedIn(x, doc, p)
  PROVE  /\ OwnedIn(x, TransformToRest(doc), p) /\ OwnedIn(x, TransformToDB(doc), p)
         /\ TransformToDB(doc).status = doc.status
BY DEF PaymentResource, OwnedIn, TransformToRest, TransformToDB

(* The verdict of a callback on an answer about a payment of the session: paid
   is GOV.UK Pay's success or its "created", an id comes from GOV.UK Pay, and
   a successful response is of a payment that succeeded or was cancelled. *)
LEMMA VerdictOK ==
  ASSUME NEW x \in ProviderPayment
  PROVE  LET v == CheckPaymentProviderStatus(callGovPay(x)) IN
         /\ v.status # "pending"
         /\ v.status = "paid" => MoneyTaken(x) \/ v.type = "Created"
         /\ v.named => x.by = "govpay"
         /\ v.type = "Success" => x.state \in {"success", "cancelled"}
BY DEF CheckPaymentProviderStatus, callGovPay, Answer, Verdict, MoneyTaken, ProviderPayment,
       GovPayStates, GovPayFailures

(* What a status check concludes from an answer. *)
LEMMA FinishedOK ==
  ASSUME NEW x \in ProviderPayment
  PROVE  /\ GetPaymentStatus(callGovPay(x)) # "pending"
         /\ GetPaymentStatus(callGovPay(x)) = "paid" => x.by = "govpay" /\ x.state = "success"
BY DEF GetPaymentStatus, callGovPay, Answer, ProviderPayment, GovPayStates, GovPayFailures

-----------------------------------------------------------------------------
(* The steps, one by one. *)

(* What IInv gives about the request in a slot. *)
LEMMA InSlot ==
  ASSUME IInv, NEW s \in Slots
  PROVE  /\ req[s] \in Request /\ RequestOK(db, ext, trusted, req[s])
         /\ req[s].sess \in PaymentResource /\ req[s].upd \in PaymentResource
         /\ \A p \in req[s].todo : p \in Payments /\ OpenedIn(db, p)
         /\ InHand(req[s]) =>
              /\ req[s].pid \in Payments
              /\ req[s].pc \notin Patching => OpenedIn(db, req[s].pid)
<1>1. Parts
  BY PartsOfIInv
<1>2. req[s] \in Request /\ RequestOK(db, ext, trusted, req[s])
      /\ (InHand(req[s]) => req[s].pid \in Payments)
  BY <1>1 DEF Parts, TypeOK
<1>3. /\ req[s].sess \in PaymentResource /\ req[s].upd \in PaymentResource
      /\ req[s].todo \subseteq Payments
  BY <1>2 DEF Request
<1> QED
  BY <1>2, <1>3 DEF RequestOK, Choosing

(* And about a session; a session with a payment at a provider is open. *)
LEMMA InCollection ==
  ASSUME IInv, NEW p \in Payments
  PROVE  /\ db[p] \in PaymentResource /\ SessionOK(db, ext, trusted, sent, p)
         /\ OwnedIn(ext, db[p], p)
         /\ \A j \in Refs : ext[j].pid = p => OpenedIn(db, p)
<1>1. Parts
  BY PartsOfIInv
<1>2. db[p] \in PaymentResource /\ SessionOK(db, ext, trusted, sent, p)
  BY <1>1 DEF Parts, TypeOK
<1> QED
  BY <1>2 DEF SessionOK, OpenedIn, MadeIn

(* A callback that begins finds its session open. *)
LEMMA SentBackOpen ==
  ASSUME IInv, NEW p \in Payments, NEW by, SentBack(p, by) PROVE OpenedIn(db, p)
BY InCollection DEF SentBack

(* A PATCH that begins knows its session exists and carries a method alone. *)
LEMMA KeepsPatch ==
  ASSUME IInv, TypeOK', NEW s \in Slots, NEW p \in Payments, NEW m \in OfferedMethods,
         HandlePatchPaymentSession(s, p, m)
  PROVE  IInv'
<1> DEFINE r == CallPatch([Idle EXCEPT !.pid = p], [Blank EXCEPT !.method = m], "idle")
<1>1. /\ r.pc = "patch-read" /\ r.pid = p /\ r.sess = Blank /\ r.next = "idle" /\ r.todo = {}
      /\ r.upd = [Blank EXCEPT !.method = m]
  BY DEF CallPatch, Idle
<1> HIDE DEF r
<1>2. db[p].status # ""
  BY DEF HandlePatchPaymentSession, Begin
<1>3. Choosing(r) /\ r.upd.status = "" /\ OwnedIn(ext, r.upd, p)
  BY <1>1 DEF Choosing, Patching, Blank, OwnedIn
<1>4. RequestOK(db, ext, trusted, r)
  BY <1>1, <1>2, <1>3, BlankOwned DEF RequestOK
<1>5. req' = [req EXCEPT ![s] = r] /\ UNCHANGED <<db, ext, sent, trusted>>
  BY DEF HandlePatchPaymentSession, r
<1> QED
  BY <1>1, <1>4, <1>5, QuietSlot

(* A journey begins on an open session only. *)
LEMMA KeepsJourney ==
  ASSUME IInv, TypeOK', NEW s \in Slots, NEW p \in Payments, CreateExternalPaymentJourney(s, p)
  PROVE  IInv'
<1> DEFINE r == [Idle EXCEPT !.pc = "journey-create", !.pid = p, !.sess = TransformToRest(db[p])]
<1>1. /\ r.pc = "journey-create" /\ r.pid = p /\ r.sess = TransformToRest(db[p])
      /\ r.upd = Blank /\ r.next = "idle" /\ r.todo = {}
  BY DEF Idle
<1> HIDE DEF r
<1>2. OpenedIn(db, p)
  BY DEF CreateExternalPaymentJourney, OpenedIn, OpenStatuses
<1>3. RequestOK(db, ext, trusted, r) /\ r.pc # "journey-store"
  BY <1>1, <1>2, InCollection, TransformOK, SnapshotOK
<1>4. req' = [req EXCEPT ![s] = r] /\ UNCHANGED <<db, ext, sent, trusted>>
  BY DEF CreateExternalPaymentJourney, r
<1> QED
  BY <1>3, <1>4, QuietSlot

(* A GOV.UK Pay callback begins with a snapshot of an open session. *)
LEMMA KeepsGovPayBegin ==
  ASSUME IInv, TypeOK', NEW s \in Slots, NEW p \in Payments, HandleGovPayCallback(s, p)
  PROVE  IInv'
<1> DEFINE r == [Idle EXCEPT !.pc = "govpay-status", !.pid = p, !.late = IsExpired(age[p]),
                             !.sess = TransformToRest(db[p])]
<1>1. /\ r.pc = "govpay-status" /\ r.pid = p /\ r.sess = TransformToRest(db[p])
      /\ r.upd = Blank /\ r.next = "idle" /\ r.todo = {}
  BY DEF Idle
<1> HIDE DEF r
<1>2. OpenedIn(db, p)
  BY SentBackOpen DEF HandleGovPayCallback
<1>3. RequestOK(db, ext, trusted, r) /\ r.pc # "journey-store"
  BY <1>1, <1>2, InCollection, TransformOK, SnapshotOK
<1>4. req' = [req EXCEPT ![s] = r] /\ UNCHANGED <<db, ext, sent, trusted>>
  BY DEF HandleGovPayCallback, r
<1> QED
  BY <1>3, <1>4, QuietSlot

(* So does a PayPal callback, or it goes on to write the session off. *)
LEMMA KeepsPayPalBegin ==
  ASSUME IInv, TypeOK', NEW s \in Slots, NEW p \in Payments, HandlePayPalCallback(s, p)
  PROVE  IInv'
<1> DEFINE doc == TransformToRest(db[p])
           upd == TransformToDB([doc EXCEPT !.status = "expired"])
           late == CallPatch([Idle EXCEPT !.pid = p], upd, "idle")
           asks == [Idle EXCEPT !.pc = "paypal-order", !.pid = p, !.sess = doc]
<1>1. OpenedIn(db, p) /\ doc \in PaymentResource /\ OwnedIn(ext, doc, p)
  BY SentBackOpen, InCollection, TransformOK, TransformType DEF HandlePayPalCallback
<1>2. RequestOK(db, ext, trusted, late) /\ late.pc # "journey-store"
  <2>1. /\ upd \in PaymentResource /\ upd.status = "expired" /\ OwnedIn(ext, upd, p)
    <3>1. /\ [doc EXCEPT !.status = "expired"] \in PaymentResource
          /\ [doc EXCEPT !.status = "expired"].status = "expired"
          /\ OwnedIn(ext, [doc EXCEPT !.status = "expired"], p)
      <4> HIDE DEF doc
      <4> QED
        BY <1>1 DEF PaymentResource, Statuses, ClosedStatuses, OwnedIn
    <3> QED
      BY <3>1, TransformOK, TransformType
  <2>2. /\ [Idle EXCEPT !.pid = p] \in Request /\ [Idle EXCEPT !.pid = p].pid = p
        /\ [Idle EXCEPT !.pid = p].todo = {}
    BY BlankType DEF Request, Idle
  <2> HIDE DEF upd
  <2> QED
    BY <1>1, <2>1, <2>2, CallPatchOK
<1>3. RequestOK(db, ext, trusted, asks) /\ asks.pc # "journey-store"
  <2>1. /\ asks.pc = "paypal-order" /\ asks.pid = p /\ asks.sess = doc
        /\ asks.upd = Blank /\ asks.next = "idle" /\ asks.todo = {}
    BY DEF Idle
  <2> HIDE DEF asks
  <2> QED
    BY <1>1, <2>1, SnapshotOK
<1>4. /\ req' = [req EXCEPT ![s] = late] \/ req' = [req EXCEPT ![s] = asks]
      /\ UNCHANGED <<db, ext, sent, trusted>>
  BY DEF HandlePayPalCallback
<1> HIDE DEF late, asks
<1> QED
  BY <1>2, <1>3, <1>4, QuietSlot

(* The second read of PatchPaymentSession opens a pending session, and
   takes the status off no other. *)
LEMMA KeepsPatchRead ==
  ASSUME IInv, TypeOK', NEW s \in Slots, PatchRead(s)
  PROVE  IInv'
<1> DEFINE q == req[s]
           status == IF db[q.pid].status = "pending" THEN "in-progress" ELSE q.upd.status
           r == [q EXCEPT !.pc = "patch-write", !.upd.status = status]
<1>1. /\ q.pc = "patch-read" /\ q \in Request /\ RequestOK(db, ext, trusted, q)
      /\ q.pid \in Payments /\ q.upd \in PaymentResource /\ InHand(q)
  BY InSlot DEF PatchRead, InHand
<1>2. /\ r.pc = "patch-write" /\ r.pid = q.pid /\ r.sess = q.sess /\ r.next = q.next
      /\ r.todo = q.todo /\ r.upd = [q.upd EXCEPT !.status = status]
  BY <1>1 DEF Request
<1>3. req' = [req EXCEPT ![s] = r] /\ UNCHANGED <<db, ext, sent, trusted>>
  BY DEF PatchRead, outside
<1> HIDE DEF r
<1>4. r.upd.status = status /\ OwnedIn(ext, r.upd, q.pid)
  <2>1. OwnedIn(ext, q.upd, q.pid)
    BY <1>1 DEF RequestOK
  <2> HIDE DEF q, status
  <2>2. /\ r.upd.status = status /\ r.upd.ref = q.upd.ref /\ r.upd.prov = q.upd.prov
        /\ r.upd.txn = q.upd.txn
    BY <1>1, <1>2 DEF PaymentResource
  <2> QED
    BY <2>1, <2>2 DEF OwnedIn
<1>5. OpenedIn(db, q.pid) \/ Choosing(r)
  <2>1. CASE OpenedIn(db, q.pid)
    BY <2>1
  <2>2. CASE ~OpenedIn(db, q.pid)
    <3>1. Choosing(q) /\ db[q.pid].status = "pending"
      BY <1>1, <2>2 DEF RequestOK, OpenedIn, OpenStatuses
    <3>2. q.upd = [Blank EXCEPT !.method = q.upd.method, !.status = ""]
      BY <1>1, <3>1 DEF Choosing
    <3>3. r.upd = [Blank EXCEPT !.method = r.upd.method, !.status = "in-progress"]
      BY <1>2, <3>1, <3>2 DEF Blank
    <3> QED
      BY <1>2, <3>3 DEF Choosing, Patching
  <2> QED
    BY <2>1, <2>2
<1>6. status # "pending" /\ (status = "paid" => PayIn(ext, trusted, q.pid))
  BY <1>1 DEF RequestOK
<1>7. RequestOK(db, ext, trusted, r) /\ r.pc # "journey-store"
  BY <1>1, <1>2, <1>4, <1>5, <1>6 DEF RequestOK, InHand
<1> QED
  BY <1>3, <1>7, QuietSlot

(* The payment a snapshot names, if any, is one of GOV.UK Pay's or PayPal's
   for this session. *)
LEMMA HeldOK ==
  ASSUME IInv, NEW ref \in AnyRef PROVE Held(ref) \in ProviderPayment
BY BlankType, PartsOfIInv DEF Parts, TypeOK, Held

(* The answer of GOV.UK Pay: paid and a message follow on grounds only. *)
LEMMA KeepsGovPayStatus ==
  ASSUME IInv, TypeOK', NEW s \in Slots, GovPayCallbackStatus(s)
  PROVE  IInv'
<1> DEFINE q == req[s]
           ref == q.sess.ref
           v == CheckPaymentProviderStatus(callGovPay(Held(ref)))
           prov == IF v.named THEN ref ELSE NoRef
           expired == [q.sess EXCEPT !.status = "expired"]
           closed == [q.sess EXCEPT !.status = v.status, !.prov = prov,
                                    !.completed = @ \/ v.type = "Success"]
           next == IF v.type = "Success" THEN "announce" ELSE "idle"
<1>1. /\ q.pc = "govpay-status" /\ q \in Request /\ RequestOK(db, ext, trusted, q)
      /\ q.pid \in Payments /\ q.sess \in PaymentResource /\ InHand(q)
      /\ OpenedIn(db, q.pid) /\ OwnedIn(ext, q.sess, q.pid)
      /\ \A p \in q.todo : OpenedIn(db, p)
  BY InSlot DEF GovPayCallbackStatus, InHand, Patching, RequestOK
<1>2. UNCHANGED <<db, ext, sent>> /\ trusted \subseteq trusted'
      /\ \A p : p \in trusted' => p \in trusted \/ p = q.pid
  BY DEF GovPayCallbackStatus
<1>3. \A r : RequestOK(db, ext, trusted', r) /\ r.pc # "journey-store"
             /\ req' = [req EXCEPT ![s] = r] => IInv'
  BY <1>1, <1>2, QuietSlot
<1>4. CASE req' = [req EXCEPT ![s] = Idle]
  BY <1>3, <1>4 DEF RequestOK, Idle, InHand
<1>5. CASE req' = [req EXCEPT ![s] = CallPatch(q, TransformToDB(expired), "idle")]
  <2>1. expired \in PaymentResource /\ OwnedIn(ext, expired, q.pid) /\ expired.status = "expired"
    BY <1>1 DEF PaymentResource, Statuses, ClosedStatuses, OwnedIn
  <2> HIDE DEF expired, q
  <2>2. /\ RequestOK(db, ext, trusted', CallPatch(q, TransformToDB(expired), "idle"))
        /\ CallPatch(q, TransformToDB(expired), "idle").pc = "patch-read"
    BY <1>1, <2>1, TransformOK, TransformType, CallPatchOK
  <2> QED
    BY <1>3, <1>5, <2>2
<1>6. ASSUME ref # NoRef, req' = [req EXCEPT ![s] = CallPatch(q, TransformToDB(closed), next)],
             trusted' = IF v.type = "Created" THEN trusted \cup {q.pid} ELSE trusted
      PROVE  IInv'
  <2>1. ref \in Refs /\ ext[ref].pid = q.pid /\ Held(ref) = ext[ref]
    BY <1>1, <1>6 DEF OwnedIn, MadeIn, Held
  <2>2. Held(ref) \in ProviderPayment
    BY <2>1, HeldOK DEF AnyRef
  <2>3. /\ v.status # "pending"
        /\ v.status = "paid" => PayIn(ext, trusted', q.pid)
        /\ v.named => ext[ref].by = "govpay"
        /\ next = "announce" => TellIn(ext, q.pid)
    <3>1. /\ v.status # "pending"
          /\ v.status = "paid" => MoneyTaken(ext[ref]) \/ v.type = "Created"
          /\ v.named => ext[ref].by = "govpay"
          /\ v.type = "Success" => ext[ref].state \in {"success", "cancelled"}
      BY <2>1, <2>2, VerdictOK
    <3> HIDE DEF v
    <3> QED
      BY <2>1, <3>1, <1>6 DEF PayIn, TellIn, MadeIn
  <2>4. v.status \in Statuses /\ next \in {"idle", "announce"}
    BY StatusType
  <2> HIDE DEF v, next
  <2>5. closed \in PaymentResource /\ closed.status = v.status
    BY <1>1, <2>4 DEF PaymentResource, AnyRef
  <2>6. OwnedIn(ext, closed, q.pid)
    <3>1. closed.ref = ref /\ closed.prov = prov /\ closed.txn = q.sess.txn
      BY <1>1 DEF PaymentResource
    <3> HIDE DEF closed
    <3> QED
      BY <1>1, <2>1, <2>3, <3>1 DEF OwnedIn, MadeIn
  <2> HIDE DEF closed, q
  <2>7. /\ RequestOK(db, ext, trusted', CallPatch(q, TransformToDB(closed), next))
        /\ CallPatch(q, TransformToDB(closed), next).pc = "patch-read"
    <3>1. /\ TransformToDB(closed) \in PaymentResource /\ TransformToDB(closed).status = v.status
          /\ OwnedIn(ext, TransformToDB(closed), q.pid)
      BY <2>5, <2>6, TransformOK, TransformType
    <3> QED
      BY <1>1, <2>3, <2>4, <3>1, CallPatchOK
  <2> QED
    BY <1>3, <1>6, <2>7
<1> QED
  BY <1>4, <1>5, <1>6 DEF GovPayCallbackStatus

(* The state of the order at PayPal: never paid yet. *)
LEMMA KeepsPayPalOrder ==
  ASSUME IInv, TypeOK', NEW s \in Slots, PayPalOrderStatus(s)
  PROVE  IInv'
<1> DEFINE q == req[s]
           ref == q.sess.ref
           order == IF Held(ref).by = "paypal" THEN Held(ref).state ELSE "none"
           failed == [q.sess EXCEPT !.status = "failed", !.completed = TRUE]
           r == [q EXCEPT !.pc = "paypal-capture"]
<1>1. /\ q.pc = "paypal-order" /\ q \in Request /\ RequestOK(db, ext, trusted, q)
      /\ q.pid \in Payments /\ q.sess \in PaymentResource /\ InHand(q)
      /\ OpenedIn(db, q.pid) /\ OwnedIn(ext, q.sess, q.pid)
      /\ \A p \in q.todo : OpenedIn(db, p)
  BY InSlot DEF PayPalOrderStatus, InHand, Patching, RequestOK
<1>2. UNCHANGED <<db, ext, sent, trusted>>
  BY DEF PayPalOrderStatus, outside
<1>3. order # "none" => ref \in Refs /\ ext[ref].pid = q.pid /\ ext[ref].by = "paypal"
  BY <1>1, StoreAssumption DEF OwnedIn, MadeIn, Held, NotMade
<1>4. CASE req' = [req EXCEPT ![s] = Idle]
  <2>1. RequestOK(db, ext, trusted, Idle) /\ Idle.pc # "journey-store"
    BY <1>1, RemainderOK
  <2> QED
    BY <1>2, <1>4, <2>1, QuietSlot
<1>5. CASE order # "none" /\ req' = [req EXCEPT ![s] = CallPatch(q, TransformToDB(failed), "announce")]
  <2>1. TellIn(ext, q.pid)
    BY <1>3, <1>5 DEF TellIn, MadeIn
  <2>2. failed \in PaymentResource /\ OwnedIn(ext, failed, q.pid) /\ failed.status = "failed"
    BY <1>1 DEF PaymentResource, Statuses, ClosedStatuses, OwnedIn
  <2> HIDE DEF failed, q, order
  <2>3. /\ RequestOK(db, ext, trusted, CallPatch(q, TransformToDB(failed), "announce"))
        /\ CallPatch(q, TransformToDB(failed), "announce").pc = "patch-read"
    BY <1>1, <2>1, <2>2, TransformOK, TransformType, CallPatchOK
  <2> QED
    BY <1>2, <1>5, <2>3, QuietSlot
<1>6. CASE order # "none" /\ req' = [req EXCEPT ![s] = r]
  <2>1. /\ r.pc = "paypal-capture" /\ r.pid = q.pid /\ r.sess = q.sess /\ r.upd = q.upd
        /\ r.next = q.next /\ r.todo = q.todo
    BY <1>1 DEF Request
  <2>2. q.sess.ref \in Refs
    BY <1>3, <1>6
  <2> HIDE DEF r
  <2>3. RequestOK(db, ext, trusted, r)
    BY <1>1, <2>1, <2>2 DEF RequestOK, InHand
  <2> QED
    BY <1>2, <1>6, <2>1, <2>3, QuietSlot
<1> QED
  <2>1. order \in {"reserved", "created", "approved"} => order # "none"
    OBVIOUS
  <2> HIDE DEF failed
  <2> QED
    BY <1>4, <1>5, <1>6, <2>1 DEF PayPalOrderStatus, failed

(* The list of a status check holds open sessions only. *)
LEMMA KeepsCheckBegin ==
  ASSUME IInv, TypeOK', NEW s \in Slots, HandleCheckPaymentStatus(s)
  PROVE  IInv'
<1> DEFINE found == GetIncompleteGovPayPayments(db, age)
           r == [Idle EXCEPT !.pc = "sweep", !.todo = found]
<1>1. \A p \in found : OpenedIn(db, p)
  BY DEF GetIncompleteGovPayPayments, OpenedIn, OpenStatuses
<1>2. RequestOK(db, ext, trusted, r) /\ r.pc # "journey-store"
  <2>1. r.pc = "sweep" /\ r.todo = found
    BY DEF Idle
  <2> HIDE DEF r, found
  <2> QED
    BY <1>1, <2>1 DEF RequestOK, InHand
<1>3. req' = [req EXCEPT ![s] = r] /\ UNCHANGED <<db, ext, sent, trusted>>
  BY DEF HandleCheckPaymentStatus, outside
<1> HIDE DEF r
<1> QED
  BY <1>2, <1>3, QuietSlot

(* The next session of the list is read, and is open. *)
LEMMA KeepsCheckNext ==
  ASSUME IInv, TypeOK', NEW s \in Slots, CheckNext(s)
  PROVE  IInv'
<1>1. PICK p \in req[s].todo :
        req' = [req EXCEPT ![s] = [Idle EXCEPT !.pc = "sweep-status", !.pid = p,
                                               !.sess = TransformToRest(db[p]),
                                               !.todo = req[s].todo \ {p}]]
  BY DEF CheckNext
<1> DEFINE r == [Idle EXCEPT !.pc = "sweep-status", !.pid = p, !.sess = TransformToRest(db[p]),
                             !.todo = req[s].todo \ {p}]
<1>2. p \in Payments /\ OpenedIn(db, p) /\ \A q \in req[s].todo \ {p} : OpenedIn(db, q)
  BY InSlot
<1>3. /\ r.pc = "sweep-status" /\ r.pid = p /\ r.sess = TransformToRest(db[p])
      /\ r.upd = Blank /\ r.next = "idle" /\ r.todo = req[s].todo \ {p}
  BY DEF Idle
<1>4. req' = [req EXCEPT ![s] = r] /\ UNCHANGED <<db, ext, sent, trusted>>
  BY <1>1 DEF CheckNext, outside
<1> HIDE DEF r
<1>5. RequestOK(db, ext, trusted, r) /\ r.pc # "journey-store"
  BY <1>2, <1>3, InCollection, TransformOK, SnapshotOK
<1> QED
  BY <1>4, <1>5, QuietSlot

(* A request that ends, or goes on with its list, and changes nothing. *)
LEMMA KeepsEnd ==
  ASSUME IInv, TypeOK', NEW s \in Slots, UNCHANGED <<db, ext, sent, trusted>>,
         \/ req' = [req EXCEPT ![s] = Idle]
         \/ req' = [req EXCEPT ![s] = Remainder(req[s])]
  PROVE  IInv'
<1>1. /\ RequestOK(db, ext, trusted, Idle) /\ Idle.pc # "journey-store"
      /\ RequestOK(db, ext, trusted, Remainder(req[s])) /\ Remainder(req[s]).pc # "journey-store"
  BY InSlot, RemainderOK
<1> QED
  BY <1>1, QuietSlot

(* A finished card payment is paid, or announced, only when it succeeded. *)
LEMMA KeepsCheckFinds ==
  ASSUME IInv, TypeOK', NEW s \in Slots, CheckFinds(s)
  PROVE  IInv'
<1> DEFINE q == req[s]
           ref == q.sess.ref
           a == callGovPay(Held(ref))
           upd == Closing(a, ref)
           call == CallPatch(q, upd, "idle")
           r == [call EXCEPT !.pc = IF GetPaymentStatus(a) = "paid" THEN "sweep-announce"
                                                                    ELSE "patch-read"]
<1>1. /\ q.pc = "sweep-status" /\ q \in Request /\ RequestOK(db, ext, trusted, q)
      /\ q.pid \in Payments /\ q.sess \in PaymentResource /\ InHand(q)
      /\ OpenedIn(db, q.pid) /\ OwnedIn(ext, q.sess, q.pid)
      /\ \A p \in q.todo : OpenedIn(db, p)
  BY InSlot DEF CheckFinds, InHand, Patching, RequestOK
<1>2. ref \in AnyRef
  BY <1>1 DEF PaymentResource
<1>3. /\ GetPaymentStatus(a) # "pending" /\ GetPaymentStatus(a) \in Statuses
      /\ GetPaymentStatus(a) = "paid" =>
           /\ ref \in Refs /\ ext[ref].pid = q.pid /\ ext[ref].by = "govpay"
           /\ ext[ref].state = "success"
  <2>1. Held(ref) \in ProviderPayment
    BY <1>2, HeldOK
  <2>2. /\ GetPaymentStatus(a) # "pending"
        /\ GetPaymentStatus(a) = "paid" => Held(ref).by = "govpay" /\ Held(ref).state = "success"
    BY <2>1, FinishedOK
  <2>3. Held(ref).by = "govpay" =>
          ref \in Refs /\ ext[ref].pid = q.pid /\ Held(ref) = ext[ref]
    BY <1>1, StoreAssumption DEF OwnedIn, MadeIn, Held, NotMade
  <2>4. GetPaymentStatus(a) \in Statuses
    BY StatusType
  <2> HIDE DEF a, ref, q
  <2> QED
    BY <2>2, <2>3, <2>4
<1>4. GetPaymentStatus(a) = "paid" => PayIn(ext, trusted, q.pid) /\ TellIn(ext, q.pid)
  BY <1>3 DEF PayIn, TellIn, MadeIn, MoneyTaken
<1> HIDE DEF a
<1>5. /\ upd \in PaymentResource /\ upd.status = GetPaymentStatus(a)
      /\ OwnedIn(ext, upd, q.pid)
  <2>1. /\ upd.status = GetPaymentStatus(a) /\ upd.ref = NoRef /\ upd.txn = NoRef
        /\ upd.prov = IF GetPaymentStatus(a) = "paid" THEN ref ELSE NoRef
    BY DEF Closing, Blank
  <2>2. upd \in PaymentResource
    BY <1>2, <1>3, BlankType DEF Closing, PaymentResource, AnyRef
  <2> HIDE DEF upd
  <2> QED
    BY <1>3, <2>1, <2>2 DEF OwnedIn, MadeIn
<1>6. RequestOK(db, ext, trusted, call)
  <2> HIDE DEF upd, q
  <2> QED
    BY <1>1, <1>3, <1>4, <1>5, CallPatchOK
<1>7. /\ r.pid = q.pid /\ r.sess = Blank /\ r.upd = upd /\ r.next = "idle" /\ r.todo = q.todo
      /\ r.pc = IF GetPaymentStatus(a) = "paid" THEN "sweep-announce" ELSE "patch-read"
      /\ call.pid = q.pid /\ call.sess = Blank /\ call.upd = upd /\ call.pc = "patch-read"
      /\ call.todo = q.todo
  BY <1>1 DEF CallPatch, Request
<1>8. req' = [req EXCEPT ![s] = r] /\ UNCHANGED <<db, ext, sent, trusted>>
  BY DEF CheckFinds, outside, a
<1> HIDE DEF r, call, upd, q
<1>9. RequestOK(db, ext, trusted, r) /\ r.pc # "journey-store"
  BY <1>1, <1>4, <1>6, <1>7 DEF RequestOK, InHand
<1> QED
  BY <1>8, <1>9, QuietSlot

(* A message about p is sent: on grounds. *)
LEMMA KeepsMessage ==
  ASSUME IInv, TypeOK', NEW s \in Slots, InHand(req[s]), TellIn(ext, req[s].pid),
         OpenedIn(db, req[s].pid), ProduceMessage(req[s].pid), UNCHANGED <<db, ext, trusted>>,
         NEW r, req' = [req EXCEPT ![s] = r], RequestOK(db, ext, trusted, r),
         r.pc # "journey-store"
  PROVE  IInv'
<1>1. Grows(ext, ext', trusted, trusted') /\ Opens(db, db')
  BY Still
<1>2. ASSUME NEW p \in Payments PROVE SessionOK(db', ext', trusted', sent', p)
  <2>1. SessionOK(db, ext, trusted, sent, p)
    BY InCollection
  <2>2. CASE p = req[s].pid
    BY <2>1, <2>2 DEF SessionOK, OpenedIn
  <2>3. CASE p # req[s].pid
    <3>1. sent'[p] = sent[p]
      BY <2>3, PartsOfIInv DEF ProduceMessage, Parts, TypeOK
    <3> QED
      BY <2>1, <3>1 DEF SessionOK
  <2> QED
    BY <2>2, <2>3
<1>3. ASSUME NEW t \in Slots, req[t].pc = "journey-store"
      PROVE  ext'[req[t].upd.ref].state = "reserved"
  BY <1>3, InSlot DEF RequestOK, InHand
<1> QED
  BY <1>1, <1>2, <1>3, OneSlot

(* The message of a callback. *)
LEMMA KeepsAnnounce ==
  ASSUME IInv, TypeOK', NEW s \in Slots, Announce(s)
  PROVE  IInv'
<1>1. /\ InHand(req[s]) /\ RequestOK(db, ext, trusted, req[s]) /\ req[s] \in Request
      /\ OpenedIn(db, req[s].pid) /\ req[s].pc = "announce"
  BY InSlot DEF Announce, InHand, Patching
<1>2. TellIn(ext, req[s].pid)
  BY <1>1 DEF RequestOK
<1>3. RequestOK(db, ext, trusted, Idle) /\ Idle.pc # "journey-store"
  BY <1>1, RemainderOK
<1>4. req' = [req EXCEPT ![s] = Idle] /\ UNCHANGED <<db, ext, trusted>> /\ ProduceMessage(req[s].pid)
  BY DEF Announce, outside
<1> QED
  BY <1>1, <1>2, <1>3, <1>4, KeepsMessage

(* The message of a status check, before its write. *)
LEMMA KeepsCheckAnnounces ==
  ASSUME IInv, TypeOK', NEW s \in Slots, CheckAnnounces(s)
  PROVE  IInv'
<1> DEFINE q == req[s]
           r == [q EXCEPT !.pc = "patch-read"]
<1>1. /\ InHand(q) /\ RequestOK(db, ext, trusted, q) /\ q \in Request
      /\ OpenedIn(db, q.pid) /\ q.pc = "sweep-announce"
  BY InSlot DEF CheckAnnounces, InHand, Patching
<1>2. TellIn(ext, q.pid)
  BY <1>1 DEF RequestOK
<1>3. /\ r.pc = "patch-read" /\ r.pid = q.pid /\ r.sess = q.sess /\ r.upd = q.upd
      /\ r.next = q.next /\ r.todo = q.todo
  BY <1>1 DEF Request
<1>4. /\ req' = [req EXCEPT ![s] = r] /\ UNCHANGED <<db, ext, trusted>>
      /\ ProduceMessage(q.pid)
  BY DEF CheckAnnounces, outside
<1> HIDE DEF r
<1>5. RequestOK(db, ext, trusted, r) /\ r.pc # "journey-store"
  BY <1>1, <1>2, <1>3 DEF RequestOK, InHand
<1> QED
  BY <1>1, <1>2, <1>4, <1>5, KeepsMessage

(* It stays the payment it is. *)
LEMMA FieldsStay ==
  ASSUME NEW x \in ProviderPayment, NEW c
  PROVE  LET y == [x EXCEPT !.state = c] IN y.pid = x.pid /\ y.by = x.by /\ y.state = c
<1>1. CASE x \in [pid: Payments, by: {"govpay"}, state: GovPayStates]
  BY <1>1
<1>2. CASE x \in [pid: Payments, by: {"paypal"}, state: PayPalStates]
  BY <1>2
<1>3. CASE x = [pid |-> NoPayment, by |-> "none", state |-> "none"]
  BY <1>3
<1> QED
  BY <1>1, <1>2, <1>3 DEF ProviderPayment

(* A provider's payment j moves on: an unsettled one of a session, past
   "reserved". *)
LEMMA Moves ==
  ASSUME IInv, NEW j \in Refs, ext[j].pid \in Payments, ext[j].state \notin Settled,
         NEW c, ext' = [ext EXCEPT ![j].state = c],
         UNCHANGED <<db, sent, trusted>>
  PROVE  /\ Grows(ext, ext', trusted, trusted') /\ Opens(db, db')
         /\ \A p \in Payments : SessionOK(db', ext', trusted', sent', p)
         /\ \A i \in Refs : i # j => ext'[i] = ext[i]
<1>1. /\ \A i \in Refs : ext'[i].pid = ext[i].pid /\ ext'[i].by = ext[i].by
      /\ \A i \in Refs : i # j => ext'[i] = ext[i]
  <2>1. ext \in [Refs -> ProviderPayment]
    BY PartsOfIInv DEF Parts, TypeOK
  <2>2. ext'[j].pid = ext[j].pid /\ ext'[j].by = ext[j].by
    BY <2>1, FieldsStay
  <2> QED
    BY <2>1, <2>2
<1>2. Grows(ext, ext', trusted, trusted')
  BY <1>1 DEF Grows
<1>3. Opens(db, db')
  BY DEF Opens
<1>4. ASSUME NEW p \in Payments, db[p].status \in OpenStatuses
      PROVE  MadeIn(ext', p) = {} /\ p \notin trusted'
  <2>1. SessionOK(db, ext, trusted, sent, p)
    BY InCollection
  <2>2. MadeIn(ext', p) = MadeIn(ext, p)
    BY <1>1 DEF MadeIn
  <2> QED
    BY <1>4, <2>1, <2>2 DEF SessionOK
<1>5. UNCHANGED <<db, sent>>
  OBVIOUS
<1> QED
  BY <1>1, <1>2, <1>3, <1>4, <1>5, SessionsStay

(* No request is touched when a payment past "reserved" moves on by itself. *)
LEMMA KeepsMove ==
  ASSUME IInv, TypeOK', NEW j \in Refs, ext[j].state \notin Settled \cup {"reserved", "none"},
         NEW c, ext' = [ext EXCEPT ![j].state = c], UNCHANGED <<db, sent, trusted, req>>
  PROVE  IInv'
<1>1. ext[j].pid \in Payments
  <2>1. ext[j] \in ProviderPayment
    BY PartsOfIInv DEF Parts, TypeOK
  <2>2. CASE ext[j] = [pid |-> NoPayment, by |-> "none", state |-> "none"]
    BY <2>2
  <2> QED
    BY <2>1, <2>2 DEF ProviderPayment
<1>2. /\ Grows(ext, ext', trusted, trusted') /\ Opens(db, db')
      /\ \A p \in Payments : SessionOK(db', ext', trusted', sent', p)
      /\ \A i \in Refs : i # j => ext'[i] = ext[i]
  BY <1>1, Moves
<1>3. ASSUME NEW s \in Slots, req[s].pc = "journey-store"
      PROVE  ext'[req[s].upd.ref].state = "reserved"
  BY <1>2, <1>3, InSlot DEF RequestOK, InHand
<1>4. UNCHANGED req
  OBVIOUS
<1> QED
  BY <1>2, <1>3, <1>4, RequestsStay

(* The document of one session is written, and the session is in order. *)
LEMMA OneDocument ==
  ASSUME IInv, Grows(ext, ext', trusted, trusted'), UNCHANGED sent,
         NEW p \in Payments, NEW doc, db' = [db EXCEPT ![p] = doc],
         db[p].status # "" => doc.status # "",
         OpenedIn(db, p) => doc.status \notin OpenStatuses,
         SessionOK(db', ext', trusted', sent', p),
         \A q \in Payments : db[q].status \in OpenStatuses =>
           MadeIn(ext', q) = {} /\ q \notin trusted'
  PROVE  /\ Opens(db, db')
         /\ \A q \in Payments : SessionOK(db', ext', trusted', sent', q)
<1>1. db'[p] = doc /\ \A q \in Payments : q # p => db'[q] = db[q]
  BY PartsOfIInv DEF Parts, TypeOK
<1>2. Opens(db, db')
  BY <1>1 DEF Opens, OpenedIn
<1>3. ASSUME NEW q \in Payments, q # p PROVE SessionOK(db', ext', trusted', sent', q)
  <2>1. SessionOK(db, ext, trusted, sent, q)
    BY InCollection
  <2>2. db'[q] = db[q] /\ sent'[q] = sent[q]
    BY <1>1, <1>3
  <2> HIDE <1>1
  <2> QED
    BY <2>1, <2>2, SessionStays
<1> QED
  BY <1>2, <1>3

(* A new session touches no other, and no request is about it. *)
LEMMA KeepsCreate ==
  ASSUME IInv, TypeOK', NEW p \in Payments, CreatePaymentSession(p)
  PROVE  IInv'
<1>1. /\ db[p].status = "" /\ db' = [db EXCEPT ![p] = NewResource]
      /\ UNCHANGED <<ext, sent, trusted>> /\ UNCHANGED req
  BY DEF CreatePaymentSession, outside
<1>2. db'[p] = NewResource /\ NewResource.status = "pending" /\ OwnedIn(ext, NewResource, p)
  BY <1>1, PartsOfIInv DEF Parts, TypeOK, NewResource, Blank, OwnedIn
<1>3. ASSUME NEW q \in Payments, db[q].status \in OpenStatuses
      PROVE  MadeIn(ext', q) = {} /\ q \notin trusted'
  BY <1>1, <1>3, InCollection DEF SessionOK
<1>4. SessionOK(db', ext', trusted', sent', p)
  <2>1. SessionOK(db, ext, trusted, sent, p)
    BY InCollection
  <2> QED
    BY <1>1, <1>2, <2>1 DEF SessionOK, OpenStatuses
<1>5. Grows(ext, ext', trusted, trusted')
  BY <1>1, Still
<1>6. /\ Opens(db, db') /\ \A q \in Payments : SessionOK(db', ext', trusted', sent', q)
  <2>1. ~OpenedIn(db, p)
    BY <1>1 DEF OpenedIn, OpenStatuses
  <2> QED
    BY <1>1, <1>2, <1>3, <1>4, <1>5, <2>1, OneDocument
<1>7. ASSUME NEW t \in Slots, req[t].pc = "journey-store"
      PROVE  ext'[req[t].upd.ref].state = "reserved"
  BY <1>1, <1>7, InSlot DEF RequestOK, InHand
<1> QED
  BY <1>1, <1>5, <1>6, <1>7, RequestsStay

(* A request writes its update: to a session that is open, or that the update
   opens. *)
LEMMA Patched ==
  ASSUME IInv, Grows(ext, ext', trusted, trusted'), UNCHANGED sent, NEW s \in Slots,
         InHand(req[s]), req[s].pc # "patch-read",
         db' = [db EXCEPT ![req[s].pid] = PatchPaymentResource(@, req[s].upd)],
         \A q \in Payments : db[q].status \in OpenStatuses =>
           MadeIn(ext', q) = {} /\ q \notin trusted'
  PROVE  /\ Opens(db, db') /\ OpenedIn(db', req[s].pid)
         /\ \A q \in Payments : SessionOK(db', ext', trusted', sent', q)
<1> DEFINE p == req[s].pid
           upd == req[s].upd
           doc == PatchPaymentResource(db[p], upd)
<1>1. /\ p \in Payments /\ upd \in PaymentResource /\ upd.status # "pending"
      /\ OwnedIn(ext, upd, p) /\ (upd.status = "paid" => PayIn(ext, trusted, p))
      /\ OpenedIn(db, p) \/ upd.status = "in-progress"
  <2>1. RequestOK(db, ext, trusted, req[s]) /\ p \in Payments /\ upd \in PaymentResource
    BY InSlot
  <2>2. Choosing(req[s]) => upd.status = "in-progress"
    BY DEF Choosing, Patching, Blank
  <2> QED
    BY <2>1, <2>2 DEF RequestOK
<1>2. /\ db[p] \in PaymentResource /\ SessionOK(db, ext, trusted, sent, p)
      /\ OwnedIn(ext, db[p], p)
  BY <1>1, InCollection
<1>3. /\ OwnedIn(ext', db[p], p) /\ OwnedIn(ext', upd, p)
      /\ PayIn(ext, trusted, p) => PayIn(ext', trusted', p)
      /\ TellIn(ext, p) => TellIn(ext', p)
  BY <1>1, <1>2, GroundsStay
<1>4. db' = [db EXCEPT ![p] = doc] /\ db'[p] = doc
  BY <1>1, PartsOfIInv DEF Parts, TypeOK
<1>5. /\ doc.status = IF upd.status = "" THEN db[p].status ELSE upd.status
      /\ doc.ref = IF upd.ref = NoRef THEN db[p].ref ELSE upd.ref
      /\ doc.prov = IF upd.prov = NoRef THEN db[p].prov ELSE upd.prov
      /\ doc.txn = IF upd.txn = NoRef THEN db[p].txn ELSE upd.txn
  BY DEF PatchPaymentResource
<1> HIDE DEF p, upd, doc
<1>6. doc.status \notin OpenStatuses
  BY <1>1, <1>5 DEF OpenedIn, OpenStatuses
<1>7. OwnedIn(ext', doc, p)
  BY <1>3, <1>5 DEF OwnedIn
<1>8. SessionOK(db', ext', trusted', sent', p)
  <2>1. doc.status = "paid" => PayIn(ext', trusted', p)
    BY <1>1, <1>2, <1>3, <1>5 DEF SessionOK
  <2>2. sent'[p] > 0 => TellIn(ext', p)
    BY <1>2, <1>3 DEF SessionOK
  <2> QED
    BY <1>4, <1>6, <1>7, <2>1, <2>2 DEF SessionOK
<1>9. doc.status # ""
  BY <1>6 DEF OpenStatuses
<1>10. OpenedIn(db', p)
  BY <1>4, <1>6 DEF OpenedIn
<1>11. UNCHANGED sent
  OBVIOUS
<1> QED
  BY <1>1, <1>4, <1>6, <1>8, <1>9, <1>10, <1>11, OneDocument DEF p

(* The write of PatchPaymentSession, whatever is stored by now. *)
LEMMA KeepsPatchWrite ==
  ASSUME IInv, TypeOK', NEW s \in Slots, PatchWrite(s)
  PROVE  IInv'
<1> DEFINE q == req[s]
           told == [Idle EXCEPT !.pc = "announce", !.pid = q.pid]
<1>1. /\ q.pc = "patch-write" /\ InHand(q) /\ q \in Request /\ RequestOK(db, ext, trusted, q)
      /\ q.pid \in Payments /\ \A p \in q.todo : p \in Payments /\ OpenedIn(db, p)
  BY InSlot DEF PatchWrite, InHand
<1>2. /\ db' = [db EXCEPT ![q.pid] = PatchPaymentResource(@, q.upd)]
      /\ UNCHANGED sent /\ UNCHANGED <<ext, trusted>>
      /\ req' = [req EXCEPT ![s] = IF q.next = "announce" THEN told ELSE Remainder(q)]
  BY DEF PatchWrite, outside
<1>3. Grows(ext, ext', trusted, trusted')
  BY <1>2, Still
<1>4. ASSUME NEW p \in Payments, db[p].status \in OpenStatuses
      PROVE  MadeIn(ext', p) = {} /\ p \notin trusted'
  BY <1>2, <1>4, InCollection DEF SessionOK
<1>5. /\ Opens(db, db') /\ OpenedIn(db', q.pid)
      /\ \A p \in Payments : SessionOK(db', ext', trusted', sent', p)
  BY <1>1, <1>2, <1>3, <1>4, Patched
<1>6. RequestOK(db', ext', trusted', Remainder(q)) /\ Remainder(q).pc # "journey-store"
  <2>1. \A p \in q.todo : OpenedIn(db', p)
    BY <1>1, <1>5 DEF Opens
  <2> QED
    BY <2>1 DEF Remainder, Idle, RequestOK, InHand
<1>7. q.next = "announce" => RequestOK(db', ext', trusted', told) /\ told.pc # "journey-store"
  <2>1. q.next = "announce" => TellIn(ext', q.pid)
    BY <1>1, <1>2 DEF RequestOK
  <2>2. /\ told.pc = "announce" /\ told.pid = q.pid /\ told.sess = Blank /\ told.upd = Blank
        /\ told.todo = {} /\ Blank.status = ""
    BY DEF Idle, Blank
  <2>3. db'[q.pid].status # ""
    BY <1>5 DEF OpenedIn, OpenStatuses
  <2> HIDE DEF told
  <2> QED
    BY <1>5, <2>1, <2>2, <2>3, BlankOwned DEF RequestOK
<1>8. ASSUME NEW t \in Slots, req[t].pc = "journey-store"
      PROVE  ext'[req[t].upd.ref].state = "reserved"
  BY <1>2, <1>8, InSlot DEF RequestOK, InHand
<1> HIDE DEF told, q
<1> QED
  <2>1. PICK r : /\ req' = [req EXCEPT ![s] = r] /\ RequestOK(db', ext', trusted', r)
                 /\ r.pc # "journey-store"
    BY <1>2, <1>6, <1>7
  <2> QED
    BY <1>3, <1>5, <1>8, <2>1, OneSlot

(* A payment made at a provider is new, and one request knows of it. *)
LEMMA KeepsCreateAtProvider ==
  ASSUME IInv, TypeOK', NEW s \in Slots, CreateAtProvider(s)
  PROVE  IInv'
<1> DEFINE q == req[s]
<1>1. /\ q.pc = "journey-create" /\ q \in Request /\ RequestOK(db, ext, trusted, q)
      /\ q.pid \in Payments /\ OpenedIn(db, q.pid)
  BY InSlot DEF CreateAtProvider, InHand, Patching
<1>2. UNCHANGED <<db, sent, trusted>>
  BY DEF CreateAtProvider
<1>3. CASE req' = [req EXCEPT ![s] = Idle] /\ UNCHANGED ext
  <2>1. UNCHANGED <<db, ext, sent, trusted>>
    BY <1>2, <1>3
  <2> QED
    BY <1>3, <2>1, KeepsEnd
<1>4. ASSUME NEW j \in Refs, ext[j] = NotMade,
             NEW x, x.pid = q.pid, x.state = "reserved", ext' = [ext EXCEPT ![j] = x],
             req' = [req EXCEPT ![s] = [Idle EXCEPT !.pc = "journey-store", !.pid = q.pid,
                                                    !.upd = [Blank EXCEPT !.ref = j]]]
      PROVE  IInv'
  <2> DEFINE r == [Idle EXCEPT !.pc = "journey-store", !.pid = q.pid,
                               !.upd = [Blank EXCEPT !.ref = j]]
  <2>1. /\ r.pc = "journey-store" /\ r.pid = q.pid /\ r.sess = Blank /\ r.next = "idle"
        /\ r.todo = {} /\ r.upd.ref = j /\ r.upd.status = "" /\ r.upd.prov = NoRef
        /\ r.upd.txn = NoRef /\ req' = [req EXCEPT ![s] = r]
    BY <1>4 DEF Idle, Blank
  <2> HIDE DEF r, q
  <2>2. ext'[j] = x /\ \A i \in Refs : i # j => ext'[i] = ext[i]
    BY <1>4, PartsOfIInv DEF Parts, TypeOK
  <2>3. ext[j].pid = NoPayment /\ ext[j].state = "none"
    BY <1>4 DEF NotMade
  <2>4. Grows(ext, ext', trusted, trusted') /\ Opens(db, db')
    BY <1>2, <2>2, <2>3, StoreAssumption DEF Grows, Opens
  <2>5. ASSUME NEW p \in Payments, db[p].status \in OpenStatuses
        PROVE  MadeIn(ext', p) = {} /\ p \notin trusted'
    <3>1. MadeIn(ext, p) = {} /\ p \notin trusted
      BY <2>5, InCollection DEF SessionOK
    <3>2. p # q.pid
      BY <1>1, <2>5 DEF OpenedIn
    <3> QED
      BY <1>2, <1>4, <2>2, <3>1, <3>2 DEF MadeIn
  <2>6. UNCHANGED <<db, sent>>
    BY <1>2
  <2>7. \A p \in Payments : SessionOK(db', ext', trusted', sent', p)
    <3> HIDE <1>4
    <3> QED
      BY <2>4, <2>5, <2>6, SessionsStay
  <2>8. RequestOK(db', ext', trusted', r)
    <3>1. OpenedIn(db', q.pid) /\ db'[q.pid].status # ""
      BY <1>1, <2>6 DEF OpenedIn, OpenStatuses
    <3>2. j \in MadeIn(ext', q.pid) /\ ext'[j].state = "reserved"
      BY <1>4, <2>2 DEF MadeIn
    <3>3. OwnedIn(ext', r.upd, q.pid)
      BY <2>1, <3>2 DEF OwnedIn
    <3> QED
      BY <2>1, <3>1, <3>2, <3>3, BlankOwned DEF RequestOK
  <2>9. ASSUME NEW t \in Slots, req[t].pc = "journey-store"
        PROVE  ext'[req[t].upd.ref].state = "reserved" /\ req[t].upd.ref # j
    <3>1. req[t].upd.ref \in Refs /\ ext[req[t].upd.ref].state = "reserved"
      BY <2>9, InSlot DEF RequestOK, InHand
    <3> QED
      BY <2>2, <2>3, <3>1
  <2> QED
    BY <2>1, <2>4, <2>7, <2>8, <2>9, OneSlot
<1> QED
  <2>1. ASSUME NEW j \in Refs, ext[j] = NotMade,
               ext' = [ext EXCEPT ![j] =
                         [pid |-> q.pid, state |-> "reserved",
                          by |-> IF q.sess.method = "credit-card" THEN "govpay" ELSE "paypal"]],
               req' = [req EXCEPT ![s] = [Idle EXCEPT !.pc = "journey-store", !.pid = q.pid,
                                                      !.upd = [Blank EXCEPT !.ref = j]]]
        PROVE  IInv'
    <3> DEFINE x == [pid |-> q.pid, state |-> "reserved",
                     by |-> IF q.sess.method = "credit-card" THEN "govpay" ELSE "paypal"]
    <3>1. x.pid = q.pid /\ x.state = "reserved" /\ ext' = [ext EXCEPT ![j] = x]
      BY <2>1
    <3> HIDE DEF x
    <3> QED
      BY <1>4, <2>1, <3>1
  <2> QED
    BY <1>3, <2>1 DEF CreateAtProvider

(* Its identity is stored in its own session. *)
LEMMA KeepsStore ==
  ASSUME IInv, TypeOK', NEW s \in Slots, StoreExternalPaymentStatusDetails(s)
  PROVE  IInv'
<1> DEFINE q == req[s]
           j == q.upd.ref
<1>1. /\ q.pc = "journey-store" /\ InHand(q) /\ q \in Request /\ RequestOK(db, ext, trusted, q)
  BY InSlot DEF StoreExternalPaymentStatusDetails, InHand
<1>2. /\ j \in Refs /\ ext[j].state = "reserved" /\ ext[j].pid \in Payments
  <2>1. j \in Refs /\ ext[j].state = "reserved" /\ j \in MadeIn(ext, q.pid)
    BY <1>1, StoreAssumption DEF RequestOK, OwnedIn
  <2> QED
    BY <1>1, <2>1, InSlot DEF MadeIn
<1>3. /\ ext' = [ext EXCEPT ![j].state = "created"]
      /\ db' = [db EXCEPT ![q.pid] = PatchPaymentResource(@, q.upd)]
      /\ req' = [req EXCEPT ![s] = Idle] /\ UNCHANGED sent /\ UNCHANGED trusted
  BY DEF StoreExternalPaymentStatusDetails
<1>4. /\ \A i \in Refs : ext'[i].pid = ext[i].pid /\ ext'[i].by = ext[i].by
      /\ \A i \in Refs : i # j => ext'[i] = ext[i]
  <2>1. ext \in [Refs -> ProviderPayment]
    BY PartsOfIInv DEF Parts, TypeOK
  <2> HIDE DEF j
  <2>2. ext'[j].pid = ext[j].pid /\ ext'[j].by = ext[j].by
    BY <1>2, <1>3, <2>1, FieldsStay
  <2> QED
    BY <1>3, <2>1, <2>2
<1>5. Grows(ext, ext', trusted, trusted')
  BY <1>2, <1>3, <1>4 DEF Grows, Settled, CaptureStates
<1>6. ASSUME NEW p \in Payments, db[p].status \in OpenStatuses
      PROVE  MadeIn(ext', p) = {} /\ p \notin trusted'
  <2>1. MadeIn(ext, p) = {} /\ p \notin trusted
    BY <1>6, InCollection DEF SessionOK
  <2>2. MadeIn(ext', p) = MadeIn(ext, p)
    BY <1>4 DEF MadeIn
  <2> QED
    BY <1>3, <2>1, <2>2
<1>7. /\ Opens(db, db') /\ \A p \in Payments : SessionOK(db', ext', trusted', sent', p)
  <2>1. q.pc # "patch-read"
    BY <1>1
  <2> HIDE DEF j
  <2> QED
    BY <1>1, <1>3, <1>5, <1>6, <2>1, Patched
<1>8. RequestOK(db', ext', trusted', Idle) /\ Idle.pc # "journey-store"
  BY DEF RequestOK, Idle, InHand
<1>9. ASSUME NEW t \in Slots, t # s, req[t].pc = "journey-store"
      PROVE  ext'[req[t].upd.ref].state = "reserved"
  <2>1. /\ req[t].upd.ref \in Refs /\ ext[req[t].upd.ref].state = "reserved"
    BY <1>9, InSlot DEF RequestOK, InHand
  <2>2. req[t].upd.ref # j
    BY <1>1, <1>9, PartsOfIInv DEF Parts, Apart
  <2> QED
    BY <1>4, <2>1, <2>2
<1> HIDE DEF q, j
<1> QED
  BY <1>3, <1>5, <1>7, <1>8, <1>9, OneSlot

(* PayPal's answer to a capture: paid when the order was captured. *)
LEMMA KeepsCapture ==
  ASSUME IInv, TypeOK', NEW s \in Slots, CapturePayment(s)
  PROVE  IInv'
<1> DEFINE q == req[s]
           j == q.sess.ref
<1>1. /\ q.pc = "paypal-capture" /\ InHand(q) /\ q \in Request /\ q.pid \in Payments
      /\ q.sess \in PaymentResource /\ OpenedIn(db, q.pid)
      /\ j \in Refs /\ OwnedIn(ext, q.sess, q.pid)
      /\ \A p \in q.todo : OpenedIn(db, p)
  BY InSlot DEF CapturePayment, InHand, Patching, RequestOK
<1>2. UNCHANGED <<db, sent, trusted>>
  BY DEF CapturePayment
<1>3. CASE req' = [req EXCEPT ![s] = Idle] /\ UNCHANGED ext
  <2>1. UNCHANGED <<db, ext, sent, trusted>>
    BY <1>2, <1>3
  <2> QED
    BY <1>3, <2>1, KeepsEnd
<1>4. ASSUME ext[j].state = "approved", NEW c \in CaptureStates, ext' = [ext EXCEPT ![j].state = c],
             req' = [req EXCEPT ![s] =
                       CallPatch(q, TransformToDB([q.sess EXCEPT !.status = CaptureStatus(c),
                                                                 !.txn = j, !.completed = TRUE]),
                                 "announce")]
      PROVE  IInv'
  <2> DEFINE done == [q.sess EXCEPT !.status = CaptureStatus(c), !.txn = j, !.completed = TRUE]
             r == CallPatch(q, TransformToDB(done), "announce")
  <2>1. ext[j].pid = q.pid /\ j \in MadeIn(ext, q.pid)
    BY <1>1, StoreAssumption DEF OwnedIn, MadeIn
  <2>2. ext[j].by = "paypal" /\ ext[j].state \notin Settled
    <3>1. ext[j] \in ProviderPayment
      BY <1>1, PartsOfIInv DEF Parts, TypeOK
    <3> HIDE DEF j
    <3>2. ext[j].by = "paypal"
      BY <1>4, <3>1 DEF ProviderPayment, GovPayStates, GovPayFailures
    <3> QED
      BY <1>4, <3>2 DEF Settled, CaptureStates
  <2>3. ext'[j].state = c
    <3>1. ext \in [Refs -> ProviderPayment]
      BY PartsOfIInv DEF Parts, TypeOK
    <3> HIDE DEF j
    <3> QED
      BY <1>1, <1>4, <3>1, FieldsStay
  <2> HIDE DEF j, r
  <2>4. /\ Grows(ext, ext', trusted, trusted') /\ Opens(db, db')
        /\ \A p \in Payments : SessionOK(db', ext', trusted', sent', p)
        /\ \A i \in Refs : i # j => ext'[i] = ext[i]
    BY <1>1, <1>2, <1>4, <2>1, <2>2, Moves
  <2>5. req' = [req EXCEPT ![s] = r]
    BY <1>4 DEF r, j
  <2> HIDE <1>4
  <2>6. /\ OwnedIn(ext', q.sess, q.pid) /\ j \in MadeIn(ext', q.pid) /\ ext'[j].by = "paypal"
    BY <1>1, <2>1, <2>2, <2>4, GroundsStay DEF Grows
  <2>7. /\ TellIn(ext', q.pid)
        /\ CaptureStatus(c) = "paid" => PayIn(ext', trusted', q.pid)
    BY <2>3, <2>6 DEF TellIn, PayIn, MoneyTaken, CaptureStatus
  <2>8. CaptureStatus(c) \in Statuses /\ CaptureStatus(c) # "pending"
    BY StatusType DEF CaptureStatus
  <2>9. /\ done \in PaymentResource /\ done.status = CaptureStatus(c)
        /\ done.ref = q.sess.ref /\ done.prov = q.sess.prov /\ done.txn = j
    BY <1>1, <2>8 DEF PaymentResource, AnyRef
  <2> HIDE DEF done, q
  <2>10. OwnedIn(ext', done, q.pid)
    BY <2>3, <2>6, <2>9 DEF OwnedIn
  <2>11. RequestOK(db', ext', trusted', r) /\ r.pc # "journey-store"
    <3>1. /\ TransformToDB(done) \in PaymentResource /\ OwnedIn(ext', TransformToDB(done), q.pid)
          /\ TransformToDB(done).status = CaptureStatus(c)
      BY <2>9, <2>10, TransformOK, TransformType
    <3>2. OpenedIn(db', q.pid) /\ \A p \in q.todo : OpenedIn(db', p)
      BY <1>1, <1>2
    <3> QED
      BY <1>1, <2>7, <2>8, <3>1, <3>2, CallPatchOK DEF r
  <2>12. ASSUME NEW t \in Slots, req[t].pc = "journey-store"
         PROVE  ext'[req[t].upd.ref].state = "reserved"
    <3>1. req[t].upd.ref \in Refs /\ ext[req[t].upd.ref].state = "reserved"
      BY <2>12, InSlot DEF RequestOK, InHand
    <3>2. req[t].upd.ref # j
      BY <1>4, <3>1
    <3> QED
      BY <2>4, <3>1, <3>2
  <2> QED
    BY <2>4, <2>5, <2>11, <2>12, OneSlot
<1> QED
  BY <1>3, <1>4 DEF CapturePayment

(* A card payment moves on: no grounds are lost. *)
LEMMA KeepsGovPayMoves ==
  ASSUME IInv, TypeOK', NEW j \in Refs, GovPayMoves(j)
  PROVE  IInv'
<1>1. PICK next : ext' = [ext EXCEPT ![j].state = next]
  BY DEF GovPayMoves
<1>2. ext[j].state \notin Settled \cup {"reserved", "none"}
  BY DEF GovPayMoves, Settled, CaptureStates
<1>3. UNCHANGED <<db, sent, trusted, req>>
  BY DEF GovPayMoves
<1> QED
  BY <1>1, <1>2, <1>3, KeepsMove

(* The payer approves an order: no grounds are lost. *)
LEMMA KeepsPayPalApproved ==
  ASSUME IInv, TypeOK', NEW j \in Refs, PayPalApproved(j)
  PROVE  IInv'
<1>1. ext' = [ext EXCEPT ![j].state = "approved"]
  BY DEF PayPalApproved
<1>2. ext[j].state \notin Settled \cup {"reserved", "none"}
  BY DEF PayPalApproved, Settled, CaptureStates
<1>3. UNCHANGED <<db, sent, trusted, req>>
  BY DEF PayPalApproved
<1> QED
  BY <1>1, <1>2, <1>3, KeepsMove

-----------------------------------------------------------------------------
(* The theorems. *)

(* The invariant holds of the empty collection with nothing in flight. *)
LEMMA InitIInv == Init => IInv
<1> SUFFICES ASSUME Init PROVE IInv
  OBVIOUS
<1>1. TypeOK
  BY InitTypeOK
<1>2. ASSUME NEW p \in Payments PROVE SessionOK(db, ext, trusted, sent, p)
  <2>1. /\ db[p] = Blank /\ sent[p] = 0 /\ trusted = {} /\ \A j \in Refs : ext[j].pid # p
    BY StoreAssumption DEF Init, NotMade
  <2>2. MadeIn(ext, p) = {} /\ p \notin trusted /\ ~(sent[p] > 0)
    BY <2>1 DEF MadeIn
  <2>3. db[p].status # "paid" /\ OwnedIn(ext, db[p], p)
    <3>1. Blank.status = "" /\ OwnedIn(ext, Blank, p)
      BY BlankOwned DEF Blank
    <3> QED
      BY <2>1, <3>1
  <2> QED
    BY <2>1, <2>2, <2>3 DEF SessionOK
<1>3. ASSUME NEW s \in Slots
      PROVE  RequestOK(db, ext, trusted, req[s]) /\ req[s].pc # "journey-store"
  BY DEF Init, Idle, RequestOK, InHand
<1>4. Parts
  BY <1>1, <1>2, <1>3 DEF Parts, Apart
<1> QED
  BY <1>4, PartsOfIInv

(* The type of the state is one step ahead of the rest of the invariant. *)
LEMMA NextTypes == IInv /\ [Next]_vars => TypeOK'
BY NextTypeOK DEF IInv, NamesInv

(* Every step keeps the invariant. *)
LEMMA NextIInv == IInv /\ [Next]_vars => IInv'
<1> SUFFICES ASSUME IInv, [Next]_vars PROVE IInv'
  OBVIOUS
<1>1. TypeOK'
  BY NextTypes
<1>2. ASSUME NEW s \in Slots, Arrive(s) PROVE IInv'
  BY <1>1, <1>2, KeepsPatch, KeepsJourney, KeepsGovPayBegin, KeepsPayPalBegin, KeepsCheckBegin
  DEF Arrive
<1>3. ASSUME NEW s \in Slots, CheckSkips(s) \/ CheckContinues(s) \/ RequestDies(s) PROVE IInv'
  BY <1>1, <1>3, KeepsEnd DEF CheckSkips, CheckContinues, RequestDies, outside
<1>4. ASSUME NEW s \in Slots, Proceed(s) PROVE IInv'
  BY <1>1, <1>3, <1>4, KeepsPatchRead, KeepsPatchWrite, KeepsAnnounce, KeepsCreateAtProvider,
     KeepsStore, KeepsGovPayStatus, KeepsPayPalOrder, KeepsCapture, KeepsCheckNext,
     KeepsCheckFinds, KeepsCheckAnnounces
  DEF Proceed
<1>5. ASSUME NEW j \in Refs, GovPayMoves(j) \/ PayPalApproved(j) PROVE IInv'
  BY <1>1, <1>5, KeepsGovPayMoves, KeepsPayPalApproved
<1>6. ASSUME UNCHANGED <<db, ext, sent, trusted, req>> PROVE IInv'
  <2>1. Grows(ext, ext', trusted, trusted') /\ Opens(db, db')
    BY <1>6, Still
  <2>2. \A p \in Payments : SessionOK(db', ext', trusted', sent', p)
    <3>1. (db' = db /\ ext' = ext) /\ (trusted' = trusted /\ sent' = sent)
      BY <1>6
    <3> QED
      BY <3>1, InCollection
  <2>3. ASSUME NEW t \in Slots, req[t].pc = "journey-store"
        PROVE  ext'[req[t].upd.ref].state = "reserved"
    BY <1>6, <2>3, InSlot DEF RequestOK, InHand
  <2> QED
    BY <1>1, <1>6, <2>1, <2>2, <2>3, RequestsStay
<1>7. CASE Tick \/ UNCHANGED vars
  BY <1>6, <1>7 DEF Tick, vars
<1>8. ASSUME NEW p \in Payments, CreatePaymentSession(p) PROVE IInv'
  BY <1>1, <1>8, KeepsCreate
<1> QED
  BY <1>2, <1>3, <1>4, <1>5, <1>7, <1>8 DEF Next

(* The invariant of the payment journey: every state it can reach satisfies
   IInv, whatever requests interleave, fail or repeat. *)
THEOREM Safe == Spec => []IInv
BY InitIInv, NextIInv, PTL DEF Spec

(* No request, however it interleaves with others, takes a variable out of its
   type: every stored status is one of the service's own. *)
THEOREM TypeCorrect == Spec => []TypeOK
<1>1. IInv => TypeOK
  BY DEF IInv
<1> QED
  BY <1>1, Safe, PTL

(* PatchPaymentSession and the external journey together leave a pending
   session without a method, a payment at a provider and a message. *)
THEOREM PendingUntouched == Spec => []PendingIsUntouched
<1>1. IInv => PendingIsUntouched
  BY DEF IInv, OpenInv
<1> QED
  BY <1>1, Safe, PTL

(* A session names payments made for itself, whatever stale snapshots the
   callbacks write back. *)
THEOREM NamesOwn == Spec => []NamesAreOwn
<1>1. IInv => NamesAreOwn
  BY DEF IInv, NamesInv
<1> QED
  BY <1>1, Safe, PTL

(* A session is paid only when a provider took the money or a callback was
   answered with "created". *)
THEOREM PaidGrounded == Spec => []PaidHasGrounds
<1>1. IInv => PaidHasGrounds
  BY DEF IInv, GroundsInv
<1> QED
  BY <1>1, Safe, PTL

(* "payment processed" is sent only of sessions with a card payment that
   succeeded or was cancelled, or an order at PayPal. *)
THEOREM AnnouncedGrounded == Spec => []AnnouncedHasGrounds
<1>1. IInv => AnnouncedHasGrounds
  BY DEF IInv, GroundsInv
<1> QED
  BY <1>1, Safe, PTL
=============================================================================
