---------------------------- MODULE BulkRefunds ----------------------------
(***************************************************************************)
(* Refunds of whole payments that come in files: the upload puts them on   *)
(* the sessions, and a later request has the providers make them.          *)
(***************************************************************************)
EXTENDS RefundState

(* An entry of a file: the provider's id of a payment, and an amount.  The
   session is looked up by the field the provider of the file fills: order is
   NoPayment if there is none, or one that is not paid. *)
Entry == [order: Payments \cup {NoPayment}, amount: Nat]

ASSUME FilesAssumption == \A file \in Files : file # {} /\ file \subseteq Entry

(* The sessions found by provider id, and by the id of a PayPal transaction. *)
FoundBy(by) == IF by = "govpay" THEN Cards ELSE Payments \ Cards

(* Mutant: amounts are not compared. *)
AnyAmountIsValid(by, entry) == entry.order \in FoundBy(by)

(* validateGovPayRefund and validatePayPalRefund: a payment of the provider of
   the file, paid, of just this amount. *)
IsValid(by, entry) ==
  /\ entry.order \in FoundBy(by)
  /\ entry.amount = Amount

ValidateBatchRefund(by, file) == \A entry \in file : IsValid(by, entry)

(* POST .../bulk-refunds/govpay or /paypal: an entry that is not valid keeps
   the whole file out.  (What is validated does not change in a paid session,
   and entries with one order count as one.) *)
handleRefundFile(s, by, file) ==
  /\ "upload" \in Ops
  /\ req[s].pc = "idle"
  /\ issued < MaxRequests /\ issued' = issued + 1
  /\ ValidateBatchRefund(by, file)
  /\ req' = [req EXCEPT ![s] = [Idle EXCEPT !.pc = "upload", !.file = file]]
  /\ UNCHANGED <<refunds, bulk, made, left, told, overlapped, faults>>

(* What UpdateBatchRefund puts on the session of an entry. *)
UpdateBatchRefund(entry) == [id |-> 0, status |-> "refund-pending", amount |-> entry.amount]

(* Mutant: only pending refunds keep another one out. *)
CreateBulkRefundAgain(s) ==
  /\ req[s].pc = "upload"
  /\ \E entry \in req[s].file :
       /\ req' = [req EXCEPT ![s] = IF @.file = {entry} THEN Idle
                                    ELSE [req[s] EXCEPT !.file = @ \ {entry}]]
       /\ bulk' = [bulk EXCEPT ![entry.order] =
                     IF HasStatus(@, "refund-pending") THEN @
                     ELSE Append(@, UpdateBatchRefund(entry))]
  /\ UNCHANGED <<refunds, made, left, told, outside>>

(* The bulk write updates one session after the other: each gets the refund
   unless it has one.  If it stops half way, the file can be sent again. *)
CreateBulkRefund(s) ==
  /\ req[s].pc = "upload"
  /\ \E entry \in req[s].file :
       /\ req' = [req EXCEPT ![s] = IF @.file = {entry} THEN Idle
                                    ELSE [req[s] EXCEPT !.file = @ \ {entry}]]
       /\ bulk' = [bulk EXCEPT ![entry.order] =
                     IF HasStatus(@, "refund-pending") \/ HasStatus(@, "refund-requested") THEN @
                     ELSE Append(@, UpdateBatchRefund(entry))]
  /\ UNCHANGED <<refunds, made, left, told, outside>>

(* POST .../bulk-refunds/process-pending reads the sessions once. *)
PendingSessions == {p \in Payments : HasStatus(bulk[p], "refund-pending")}

BeginProcessBatch(s) ==
  /\ SchedulerBegins(s, "bulk")
  /\ PendingSessions # {}
  /\ req' = [req EXCEPT ![s] = [Idle EXCEPT
               !.pc = "bulk-next",
               !.todo = {Session(p, refunds[p], bulk[p]) : p \in PendingSessions}]]
  /\ UNCHANGED <<refunds, bulk, made, left, told>>

NextBulk(r) ==
  IF r.todo = {} THEN Idle ELSE [Idle EXCEPT !.pc = "bulk-next", !.todo = r.todo]

(* The bulk refund the job works on is the last of the copy. *)
Recent(x) == x.bulk[Len(x.bulk)]

(* The provider must still hold what is to be refunded: GOV.UK Pay has just
   the amount of the entry available, and PayPal calls a capture complete
   that nothing was refunded of. *)
CheckAvailable(s) ==
  /\ req[s].pc = "bulk-next"
  /\ \E x \in req[s].todo :
       LET rest == [req[s] EXCEPT !.todo = @ \ {x}]
           due  == IF x.pid \in Cards THEN Recent(x).amount ELSE Amount
       IN
       req' = [req EXCEPT ![s] = IF left[x.pid] = due
                                 THEN [rest EXCEPT !.pc = "bulk-refund", !.sess = x]
                                 ELSE NextBulk(rest)]
  /\ UNCHANGED <<refunds, bulk, made, left, told, outside>>

(* Mutant: the provider's word is stored. *)
RequestedRaw(entries, id) ==
  [entries EXCEPT ![Len(entries)].id = id, ![Len(entries)].status = "submitted"]

(* The last bulk refund of the copy has been requested. *)
Requested(entries, id) ==
  [entries EXCEPT ![Len(entries)].id = id, ![Len(entries)].status = "refund-requested"]

(* The provider refuses: something was refunded of p meanwhile. *)
Refused(s, p, due) ==
  /\ left[p] # due \/ Len(made) = MaxRefunds
  /\ req' = [req EXCEPT ![s] = NextBulk(@)]
  /\ UNCHANGED <<made, left>>

(* The provider makes the refund. *)
Made(s, p, due, state) ==
  /\ left[p] = due
  /\ MakeRefund(p, due, state)
  /\ req' = [req EXCEPT ![s].pc = "bulk-patch", ![s].sess.bulk = Requested(@, NewId)]

(* GOV.UK Pay, asked by processGovPayBatchRefund for the amount of the entry. *)
CreateWholeRefund(s) ==
  LET p == req[s].sess.pid
      due == Recent(req[s].sess).amount
  IN
  /\ req[s].pc = "bulk-refund" /\ p \in Cards
  /\ \/ Made(s, p, due, IF Sandbox THEN "success" ELSE "submitted")
     \/ Refused(s, p, due)
  /\ UNCHANGED <<refunds, bulk, told, outside>>

(* PayPal, asked by processPayPalBatchRefund for the whole capture.  A refund
   that PayPal makes and does not call complete is an error, and goes
   unrecorded. *)
RefundCapture(s) ==
  LET p == req[s].sess.pid IN
  /\ req[s].pc = "bulk-refund" /\ p \notin Cards
  /\ \/ Made(s, p, Amount, "success")
     \/ /\ left[p] = Amount
        /\ MakeRefund(p, Amount, "submitted")
        /\ req' = [req EXCEPT ![s] = NextBulk(@)]
     \/ Refused(s, p, Amount)
  /\ UNCHANGED <<refunds, bulk, told, outside>>


(* Both arrays are written from the copy. *)
PatchBulk(s) ==
  LET r == req[s] IN
  /\ r.pc = "bulk-patch"
  /\ PatchPaymentResource(r.sess.pid, r.sess.list, r.sess.bulk)
  /\ req' = [req EXCEPT ![s] = NextBulk(r)]
  /\ UNCHANGED <<made, left, told, outside>>

(* A call that fails, whether it had its effect or not, ends the work on
   one session: the next one is taken up. *)
BulkFails(s) ==
  /\ \/ /\ req[s].pc = "bulk-next"
        /\ \E x \in req[s].todo : req' = [req EXCEPT ![s] = NextBulk([req[s] EXCEPT !.todo = @ \ {x}])]
     \/ /\ req[s].pc \in {"bulk-refund", "bulk-patch"}
        /\ req' = [req EXCEPT ![s] = NextBulk(@)]
  /\ faults < MaxFaults /\ faults' = faults + 1
  /\ UNCHANGED <<refunds, bulk, made, left, told, overlapped, issued>>
=============================================================================
