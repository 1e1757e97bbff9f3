---------------------------- MODULE StatusCheck ----------------------------
(***************************************************************************)
(* POST /private/payments/status-check: a scheduled caller has the service *)
(* look, one after the other, at the card payments left in progress, and   *)
(* close those GOV.UK Pay has finished.                                    *)
(***************************************************************************)
EXTENDS PaymentState

(* The list is made once; a check that finds nothing changes nothing. *)
HandleCheckPaymentStatus(s) ==
  LET found == GetIncompleteGovPayPayments(db, age) IN
  /\ "status-check" \in Ops
  /\ req[s].pc = "idle"
  /\ found # {}
  /\ req' = [req EXCEPT ![s] = [Idle EXCEPT !.pc = "sweep", !.todo = found]]
  /\ UNCHANGED <<db, sent, outside>>

(* The next of the list, in whatever order the collection returned it, and
   its session as it is now. *)
CheckNext(s) ==
  /\ req[s].pc = "sweep"
  /\ \E p \in req[s].todo :
       req' = [req EXCEPT ![s] = [Idle EXCEPT !.pc = "sweep-status", !.pid = p,
                                              !.sess = TransformToRest(db[p]),
                                              !.todo = req[s].todo \ {p}]]
  /\ UNCHANGED <<db, sent, outside>>

(* Not finished, or no payment at the provider: on to the next. *)
CheckSkips(s) ==
  LET r == req[s] IN
  /\ r.pc = "sweep-status"
  /\ ~callGovPay(Held(r.sess.ref)).finished
  /\ req' = [req EXCEPT ![s] = Remainder(r)]
  /\ UNCHANGED <<db, sent, outside>>

(* What a finished answer a about the session's payment has it store. *)
Closing(a, ref) ==
  [Blank EXCEPT !.status = GetPaymentStatus(a), !.completed = TRUE,
                !.prov = IF GetPaymentStatus(a) = "paid" THEN ref ELSE NoRef]

(* Mutants: every finished payment is announced; the write comes before the
   message, as it does in the callbacks. *)
CheckAnnouncesAll(s) ==
  LET r == req[s]
      a == callGovPay(Held(r.sess.ref))
  IN
  /\ r.pc = "sweep-status"
  /\ a.finished
  /\ req' = [req EXCEPT ![s] =
               [CallPatch(r, Closing(a, r.sess.ref), "idle") EXCEPT !.pc = "sweep-announce"]]
  /\ UNCHANGED <<db, sent, outside>>

CheckWritesFirst(s) ==
  LET r == req[s]
      a == callGovPay(Held(r.sess.ref))
  IN
  /\ r.pc = "sweep-status"
  /\ a.finished
  /\ req' = [req EXCEPT ![s] =
               CallPatch(r, Closing(a, r.sess.ref),
                         IF GetPaymentStatus(a) = "paid" THEN "announce" ELSE "idle")]
  /\ UNCHANGED <<db, sent, outside>>

(* Finished: the update holds the status, the provider's id and the time,
   and a paid one is announced before it is written. *)
CheckFinds(s) ==
  LET r == req[s]
      a == callGovPay(Held(r.sess.ref))
  IN
  /\ r.pc = "sweep-status"
  /\ a.finished
  /\ req' = [req EXCEPT ![s] =
               [CallPatch(r, Closing(a, r.sess.ref), "idle") EXCEPT
                  !.pc = IF GetPaymentStatus(a) = "paid" THEN "sweep-announce" ELSE "patch-read"]]
  /\ UNCHANGED <<db, sent, outside>>

CheckAnnounces(s) ==
  /\ req[s].pc = "sweep-announce"
  /\ ProduceMessage(req[s].pid)
  /\ req' = [req EXCEPT ![s].pc = "patch-read"]
  /\ UNCHANGED <<db, outside>>

(* A call that fails for one payment does not stop the check. *)
CheckContinues(s) ==
  /\ req[s].pc \notin {"idle", "sweep"}
  /\ req[s].todo # {}
  /\ faults < MaxFaults
  /\ faults' = faults + 1
  /\ req' = [req EXCEPT ![s] = Remainder(req[s])]
  /\ UNCHANGED <<db, age, ext, sent, trusted, issued>>
=============================================================================
