-------------------------- MODULE SessionRequests --------------------------
(***************************************************************************)
(* The requests a client makes before the payer leaves for the provider:   *)
(* create a session, choose its payment method (PATCH), and start the      *)
(* journey at the provider.                                                *)
(***************************************************************************)
EXTENDS PaymentState

(* POST /payments.  Validation and the costs lookup change nothing; the
   insert is the only effect. *)
CreatePaymentSession(p) ==
  /\ db[p].status = ""
  /\ db' = [db EXCEPT ![p] = NewResource]
  /\ UNCHANGED <<sent, req, outside>>

(* PATCH /private/payments/{id}, carrying a payment method.  The interceptor
   reads the session; an expired one is refused. *)
HandlePatchPaymentSession(s, p, method) ==
  /\ Begin(s, "patch", p)
  /\ ~IsExpired(age[p])
  /\ req' = [req EXCEPT ![s] =
               CallPatch([Idle EXCEPT !.pid = p], [Blank EXCEPT !.method = method], "idle")]
  /\ UNCHANGED <<db, age, ext, sent, trusted, faults>>

(* POST .../external-journey: the status checked is the interceptor's read. *)
CreateExternalPaymentJourney(s, p) ==
  /\ Begin(s, "journey", p)
  /\ db[p].status = "in-progress"
  /\ db[p].method \in {"credit-card", "PayPal"}
  /\ req' = [req EXCEPT ![s] = [Idle EXCEPT !.pc = "journey-create", !.pid = p, 
                                            !.sess = TransformToRest(db[p])]]
  /\ UNCHANGED <<db, age, ext, sent, trusted, faults>>

(* CreatePaymentAndGenerateNextURL of either provider: a payment is made
   there ...  (Bound: the providers refuse more payments than Refs names.) *)
CreateAtProvider(s) ==
  LET r == req[s] IN
  /\ r.pc = "journey-create"
  /\ \/ \E j \in Refs :
          /\ ext[j] = NotMade
          /\ ext' = [ext EXCEPT ![j] =
                       [pid |-> r.pid, state |-> "reserved",
                        by |-> IF r.sess.method = "credit-card" THEN "govpay" ELSE "paypal"]]
          /\ req' = [req EXCEPT ![s] = [Idle EXCEPT !.pc = "journey-store", !.pid = r.pid,
                                                    !.upd = [Blank EXCEPT !.ref = j]]]
     \/ /\ \A j \in Refs : ext[j] # NotMade
        /\ req' = [req EXCEPT ![s] = Idle]
        /\ UNCHANGED ext
  /\ UNCHANGED <<db, age, sent, trusted, issued, faults>>

(* ... and its identity stored without another look at the session; the
   client gets the address to send the payer to. *)
StoreExternalPaymentStatusDetails(s) ==
  LET r == req[s] IN
  /\ r.pc = "journey-store"
  /\ db' = [db EXCEPT ![r.pid] = PatchPaymentResource(@, r.upd)]
  /\ ext' = [ext EXCEPT ![r.upd.ref].state = "created"]
  /\ req' = [req EXCEPT ![s] = Idle]
  /\ UNCHANGED <<age, sent, trusted, issued, faults>>
=============================================================================
