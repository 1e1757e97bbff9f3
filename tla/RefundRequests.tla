--------------------------- MODULE RefundRequests ---------------------------
(***************************************************************************)
(* The refunds a client makes one by one, of card payments: create one,    *)
(* and ask for its status (which stores it).                               *)
(***************************************************************************)
EXTENDS RefundState

(* Mutant: only refunds still requested keep their reference. *)
ReferenceIsFreeAfterwards(list, ref) ==
  \A i \in DOMAIN list : list[i].ref = ref => list[i].status # "refund-requested"

(* A reference must not be that of a refund that has not failed. *)
ReferenceIsFree(list, ref) ==
  \A i \in DOMAIN list : list[i].ref = ref => list[i].status = "error"

(* POST /payments/{id}/refunds: only card payments are refunded this way. *)
BeginCreateRefund(s, p, amount, ref) ==
  /\ ClientBegins(s, "create")
  /\ p \in Cards
  /\ ReferenceIsFree(refunds[p], ref)
  /\ req' = [req EXCEPT ![s] = [Idle EXCEPT !.pc = "create-session", !.sess = Session(p, <<>>, <<>>),
                                               !.amount = amount, !.ref = ref]]
  /\ UNCHANGED <<refunds, bulk, made, left, told>>

(* Mutant: the copy comes without the refunds there are. *)
ReadSessionBare(s) ==
  LET p == req[s].sess.pid IN
  /\ req[s].pc = "create-session"
  /\ req' = [req EXCEPT ![s].pc = "create-summary", ![s].sess = Session(p, <<>>, <<>>)]
  /\ UNCHANGED <<refunds, bulk, made, left, told, outside>>

(* GetRefundSummary reads the session again, and this copy is the one that
   is written in the end. *)
ReadSession(s) ==
  LET p == req[s].sess.pid IN
  /\ req[s].pc = "create-session"
  /\ req' = [req EXCEPT ![s].pc = "create-summary", ![s].sess = Session(p, refunds[p], <<>>)]
  /\ UNCHANGED <<refunds, bulk, made, left, told, outside>>

(* Mutant: something must be available, however little. *)
GetRefundSummaryAny(s) ==
  LET available == left[req[s].sess.pid] IN
  /\ req[s].pc = "create-summary"
  /\ req' = [req EXCEPT ![s] = IF available > 0
                               THEN [@ EXCEPT !.pc = "create-refund", !.avail = available]
                               ELSE Idle]
  /\ UNCHANGED <<refunds, bulk, made, left, told, outside>>

(* What GOV.UK Pay says is available must cover the amount. *)
GetRefundSummary(s) ==
  LET available == left[req[s].sess.pid] IN
  /\ req[s].pc = "create-summary"
  /\ req' = [req EXCEPT ![s] = IF available > 0 /\ available >= @.amount
                               THEN [@ EXCEPT !.pc = "create-refund", !.avail = available]
                               ELSE Idle]
  /\ UNCHANGED <<refunds, bulk, made, left, told, outside>>

(* GOV.UK Pay makes the refund if the amount is one (the service has not
   looked) and what is available is still what the request quotes.  In the sandbox it succeeds at once and the service takes
   it as submitted all the same. *)
CreateRefund(s) ==
  LET r == req[s]
      p == r.sess.pid
      state == IF Sandbox THEN "success" ELSE "submitted"
      new == [id |-> NewId, ref |-> r.ref, status |-> MapStatus("submitted")]
  IN
  /\ r.pc = "create-refund"
  /\ \/ /\ r.amount > 0 /\ left[p] = r.avail
        /\ MakeRefund(p, r.amount, state)
        /\ req' = [req EXCEPT ![s].pc = "create-patch", ![s].sess.list = Append(@, new)]
     \/ /\ r.amount <= 0 \/ left[p] # r.avail \/ Len(made) = MaxRefunds
        /\ req' = [req EXCEPT ![s] = Idle]
        /\ UNCHANGED <<made, left>>
  /\ UNCHANGED <<refunds, bulk, told, outside>>

-----------------------------------------------------------------------------
(* PATCH /payments/{id}/refunds/{id}: the session is read ... *)
BeginUpdateRefund(s, p, id) ==
  /\ ClientBegins(s, "update")
  /\ id \in IdsIn(refunds[p])
  /\ req' = [req EXCEPT ![s] = [Idle EXCEPT !.pc = "update-status", !.id = id,
                                               !.sess = Session(p, refunds[p], <<>>)]]
  /\ UNCHANGED <<refunds, bulk, made, left, told>>

(* Mutant: the status of another refund changes: the first. *)
WithStatusOfFirst(list, id, status) == [list EXCEPT ![1].status = status]

(* ... and GOV.UK Pay's word for the refund goes into the copy as it is. *)
WithStatus(list, id, status) ==
  [i \in DOMAIN list |-> IF list[i].id = id THEN [list[i] EXCEPT !.status = status] ELSE list[i]]

GetRefundStatus(s) ==
  LET r == req[s] IN
  /\ r.pc = "update-status"
  /\ req' = [req EXCEPT ![s].pc = "update-patch",
                        ![s].sess.list = WithStatus(@, r.id, made[r.id].state)]
  /\ UNCHANGED <<refunds, bulk, made, left, told, outside>>

(* Mutant: the array is added to what is stored. *)
PatchRefundsTwice(s) ==
  LET x == req[s].sess IN
  /\ req[s].pc \in {"create-patch", "update-patch"}
  /\ PatchPaymentResource(x.pid, refunds[x.pid] \o x.list, x.bulk)
  /\ req' = [req EXCEPT ![s] = Idle]
  /\ UNCHANGED <<made, left, told, outside>>

(* Either writes the whole array from its copy. *)
PatchRefunds(s) ==
  LET x == req[s].sess IN
  /\ req[s].pc \in {"create-patch", "update-patch"}
  /\ PatchPaymentResource(x.pid, x.list, x.bulk)
  /\ req' = [req EXCEPT ![s] = Idle]
  /\ UNCHANGED <<made, left, told, outside>>
=============================================================================
