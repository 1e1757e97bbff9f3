----------------------------- MODULE Callbacks -----------------------------
(***************************************************************************)
(* The two endpoints a provider sends the payer back to.  Both read the    *)
(* session, ask the provider, write the whole stale session back with a    *)
(* new status, and announce the result.                                    *)
(***************************************************************************)
EXTENDS PaymentState

(* Mutant: a paid session is not refused. *)
GovPayCallbackWhenPaid(s, p) ==
  /\ Begin(s, "govpay", p)
  /\ SentBack(p, "govpay")
  /\ req' = [req EXCEPT ![s] = [Idle EXCEPT !.pc = "govpay-status", !.pid = p,
                                            !.late = IsExpired(age[p]),
                                            !.sess = TransformToRest(db[p])]]
  /\ UNCHANGED <<db, age, ext, sent, trusted, faults>>

(* GET /callback/payments/govpay/{id}: a paid session is refused, and
   whether the session has expired is settled now. *)
HandleGovPayCallback(s, p) ==
  /\ Begin(s, "govpay", p)
  /\ SentBack(p, "govpay")
  /\ db[p].status # "paid"
  /\ req' = [req EXCEPT ![s] = [Idle EXCEPT !.pc = "govpay-status", !.pid = p,
                                            !.late = IsExpired(age[p]),
                                            !.sess = TransformToRest(db[p])]]
  /\ UNCHANGED <<db, age, ext, sent, trusted, faults>>

(* The request goes on with the answer of the provider whose payment the
   session names.  No name, or another payment method: an error. *)
GovPayCallbackStatus(s) ==
  LET r == req[s]
      a == callGovPay(Held(r.sess.ref))
      v == CheckPaymentProviderStatus(a)
      expired == r.late /\ v.type # "Success"
      closed  == [r.sess EXCEPT !.status = v.status,
                                !.prov = IF v.named THEN r.sess.ref ELSE NoRef,
                                !.completed = @ \/ v.type = "Success"]
  IN
  /\ r.pc = "govpay-status"
  /\ \/ /\ r.sess.ref # NoRef /\ expired
        /\ req' = [req EXCEPT ![s] =
                     CallPatch(r, TransformToDB([r.sess EXCEPT !.status = "expired"]), "idle")]
        /\ UNCHANGED trusted
     \/ /\ r.sess.ref # NoRef /\ ~expired /\ r.sess.method = "credit-card"
        /\ req' = [req EXCEPT ![s] =
                     CallPatch(r, TransformToDB(closed),
                               IF v.type = "Success" THEN "announce" ELSE "idle")]
        /\ trusted' = IF v.type = "Created" THEN trusted \cup {r.pid} ELSE trusted
     \/ /\ r.sess.ref = NoRef \/ (~expired /\ r.sess.method # "credit-card")
        /\ req' = [req EXCEPT ![s] = Idle]
        /\ UNCHANGED trusted
  /\ UNCHANGED <<db, age, ext, sent, issued, faults>>

-----------------------------------------------------------------------------
(* GET /callback/payments/paypal/orders/{id}: an expired session is written
   off before PayPal, or the payment method, is looked at. *)
HandlePayPalCallback(s, p) ==
  /\ Begin(s, "paypal", p)
  /\ SentBack(p, "paypal")
  /\ db[p].status # "paid"
  /\ \/ /\ IsExpired(age[p])
        /\ req' = [req EXCEPT ![s] =
                     CallPatch([Idle EXCEPT !.pid = p],
                               TransformToDB([TransformToRest(db[p]) EXCEPT !.status = "expired"]), "idle")]
     \/ /\ ~IsExpired(age[p])
        /\ db[p].method \in {"PayPal", "paypal"}
        /\ req' = [req EXCEPT ![s] =
                     [Idle EXCEPT !.pc = "paypal-order", !.pid = p, !.sess = TransformToRest(db[p])]]
  /\ UNCHANGED <<db, age, ext, sent, trusted, faults>>

(* An order still "created" was cancelled; an approved one is captured next;
   a completed one, or no order of that name at PayPal, is an error. *)
PayPalOrderStatus(s) ==
  LET r == req[s]
      x == Held(r.sess.ref)
      order == IF x.by = "paypal" THEN x.state ELSE "none"
  IN
  /\ r.pc = "paypal-order"
  /\ \/ /\ order \in {"reserved", "created"}
        /\ req' = [req EXCEPT ![s] =
                     CallPatch(r, TransformToDB([r.sess EXCEPT !.status = "failed",
                                                               !.completed = TRUE]), "announce")]
     \/ /\ order = "approved"
        /\ req' = [req EXCEPT ![s].pc = "paypal-capture"]
     \/ /\ order \in CaptureStates \cup {"none"}
        /\ req' = [req EXCEPT ![s] = Idle]
  /\ UNCHANGED <<db, sent, outside>>

(* PayPal captures an order once; a second capture is an error. *)
CapturePayment(s) ==
  LET r == req[s]
      j == r.sess.ref
  IN
  /\ r.pc = "paypal-capture"
  /\ \/ /\ ext[j].state = "approved"
        /\ \E c \in CaptureStates :
             /\ ext' = [ext EXCEPT ![j].state = c]
             /\ req' = [req EXCEPT ![s] =
                          CallPatch(r, TransformToDB([r.sess EXCEPT !.status = CaptureStatus(c),
                                                                    !.txn = j,
                                                                    !.completed = TRUE]),
                                    "announce")]
     \/ /\ ext[j].state # "approved"
        /\ req' = [req EXCEPT ![s] = Idle]
        /\ UNCHANGED ext
  /\ UNCHANGED <<db, age, sent, trusted, issued, faults>>
=============================================================================
