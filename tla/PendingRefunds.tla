--------------------------- MODULE PendingRefunds ---------------------------
(***************************************************************************)
(* POST /payments/refunds/process-pending: a scheduled caller has the      *)
(* service ask GOV.UK Pay about refunds that were requested, record those  *)
(* that succeeded, and send a message of each.                             *)
(***************************************************************************)
EXTENDS RefundState

(* Mutant: the status of the refunds is not part of the query. *)
SessionsWithRefunds == {p \in Payments : refunds[p] # <<>>}

(* GetPaymentsWithRefundPendingStatus: the batch is read once. *)
RequestedSessions == {p \in Payments : HasStatus(refunds[p], "refund-requested")}

BeginProcessPending(s) ==
  /\ SchedulerBegins(s, "pending")
  /\ RequestedSessions # {}
  /\ \E b \in Batch(RequestedSessions) :
       req' = [req EXCEPT ![s] = [Idle EXCEPT
                 !.pc = "pending-next",
                 !.todo = {Session(p, refunds[p], <<>>) : p \in b}]]
  /\ UNCHANGED <<refunds, bulk, made, left, told>>

(* Mutant: the last one is. *)
LastId(list) == list[Len(list)].id

(* The first refund of the copy is the one asked about. *)
FirstId(list) == list[1].id

GetPendingStatus(s) ==
  /\ req[s].pc = "pending-next"
  /\ \E x \in req[s].todo :
       /\ \A y \in req[s].todo : FirstId(x.list) <= FirstId(y.list)
       /\ req' = [req EXCEPT ![s].pc = "pending-patch", ![s].sess = x, ![s].todo = @ \ {x},
                          ![s].good = made[FirstId(x.list)].state = "success"]
  /\ UNCHANGED <<refunds, bulk, made, left, told, outside>>

(* Mutant: the messages due are forgotten with each session. *)
OnwardForgets(r) ==
  CASE r.todo # {} -> [Idle EXCEPT !.pc = "pending-next", !.todo = r.todo]
    [] r.todo = {} /\ r.done # {} -> [Idle EXCEPT !.pc = "pending-tell", !.done = r.done]
    [] OTHER -> Idle

(* On to the next, or to the messages once the list is done. *)
Onward(r) ==
  CASE r.todo # {} -> [Idle EXCEPT !.pc = "pending-next", !.todo = r.todo, !.done = r.done]
    [] r.todo = {} /\ r.done # {} -> [Idle EXCEPT !.pc = "pending-tell", !.done = r.done]
    [] OTHER -> Idle

(* Mutant: whether the refund succeeded is not looked at. *)
PatchRefundAlways(list, id, isRefunded) ==
  [i \in DOMAIN list |-> IF list[i].id = id
                         THEN [list[i] EXCEPT !.status = "refund-success"] ELSE list[i]]

(* What PatchRefundStatus makes of the stored array: one element is set, in
   place, and the array as it is then is returned. *)
PatchRefundStatus(list, id, isRefunded) ==
  [i \in DOMAIN list |-> IF isRefunded /\ list[i].id = id
                         THEN [list[i] EXCEPT !.status = "refund-success"] ELSE list[i]]

(* Mutant: the copy of the array is looked at, which is from before. *)
PatchPendingOfCopy(s) ==
  LET r == req[s]
      p == r.sess.pid
      after == PatchRefundStatus(refunds[p], FirstId(r.sess.list), r.good)
  IN
  /\ r.pc = "pending-patch"
  /\ refunds' = [refunds EXCEPT ![p] = after]
  /\ req' = [req EXCEPT ![s] = Onward([r EXCEPT !.done =
               @ \cup (IF r.sess.list[1].status = "refund-success" THEN {FirstId(after)} ELSE {})])]
  /\ UNCHANGED <<bulk, made, left, told, outside>>

(* If the first refund of the array as it is now has succeeded, a message
   about it will follow. *)
PatchPending(s) ==
  LET r == req[s]
      p == r.sess.pid
      after == PatchRefundStatus(refunds[p], FirstId(r.sess.list), r.good)
  IN
  /\ r.pc = "pending-patch"
  /\ refunds' = [refunds EXCEPT ![p] = after]
  /\ req' = [req EXCEPT ![s] = Onward([r EXCEPT !.done =
               @ \cup (IF after[1].status = "refund-success" THEN {FirstId(after)} ELSE {})])]
  /\ UNCHANGED <<bulk, made, left, told, outside>>

(* processKafkaSendMessage, one message after the other. *)
SendRefundMessage(s) ==
  /\ req[s].pc = "pending-tell"
  /\ \E i \in req[s].done :
       /\ told' = told \cup {i}
       /\ req' = [req EXCEPT ![s] = Onward([req[s] EXCEPT !.done = @ \ {i}])]
  /\ UNCHANGED <<refunds, bulk, made, left, outside>>

(* A session that cannot be read, or a refund that GOV.UK Pay does not
   answer for, is passed over; so is a message that is not accepted.  (When
   PatchRefundStatus fails, though, it returns an empty payment whose first
   refund is read next: the handler panics, which ends the request.) *)
PassOver(s) ==
  /\ \/ /\ req[s].pc = "pending-next"
        /\ \E x \in req[s].todo : req' = [req EXCEPT ![s] = Onward([req[s] EXCEPT !.todo = @ \ {x}])]
     \/ /\ req[s].pc = "pending-tell"
        /\ \E i \in req[s].done : req' = [req EXCEPT ![s] = Onward([req[s] EXCEPT !.done = @ \ {i}])]
  /\ faults < MaxFaults /\ faults' = faults + 1
  /\ UNCHANGED <<refunds, bulk, made, left, told, overlapped, issued>>
=============================================================================
