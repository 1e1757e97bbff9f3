------------------------ MODULE RefundPromiseProofs ------------------------
(***************************************************************************)
(* Refunds implement RefundPromise, for any number of payments, refunds,   *)
(* concurrent requests, files and faults: a refund that a provider makes   *)
(* or settles, an upload's entry, the record of a bulk refund and a        *)
(* message are one step of the promise each, or none; all else is none.    *)
(***************************************************************************)
EXTENDS RefundsProofs

(* The state of the promise. *)
StageOf(entries) ==
  IF HasStatus(entries, "refund-requested") THEN "requested"
  ELSE IF entries # <<>> THEN "pending" ELSE "none"

given == [p \in Payments |-> Amount - left[p]]
whole == {made[i].pid : i \in {i \in DOMAIN made : made[i].amount = Amount}}
stage == [p \in Payments |-> StageOf(bulk[p])]
final == {i \in DOMAIN made : made[i].state = "success"}

Observed == <<given, whole, stage, final, told>>

(* What the promise sees of the service. *)
LEMMA QuietStep ==
  ASSUME UNCHANGED <<bulk, made, left, told>> PROVE UNCHANGED Observed
BY DEF Observed, given, whole, stage, final

LEMMA StepOf ==
  ASSUME NEW p \in Payments
  PROVE  /\ Promise!Request(p) => Promise!Next
         /\ \A amount \in 1 .. Amount : Promise!Fail(p, amount) => Promise!Next
BY Zenon DEF Promise!Next

(* A provider makes a refund: Give. *)
LEMMA SeenGive ==
  ASSUME IInv, NEW p \in Payments, NEW amount \in 1 .. Amount, amount <= left[p],
         NEW state \in {"submitted", "success"}, MakeRefund(p, amount, state),
         UNCHANGED <<bulk, told>>
  PROVE  Promise!Next
<1>1. TypeOK /\ Amount \in Nat /\ amount \in Nat /\ left \in [Payments -> Int]
  BY RefundAssumption DEF IInv, TypeOK
<1>2. /\ NewId \in Ids /\ NewId \notin DOMAIN made /\ DOMAIN made' = DOMAIN made \cup {NewId}
      /\ made'[NewId] = [pid |-> p, amount |-> amount, state |-> state]
      /\ \A j \in DOMAIN made : made'[j] = made[j]
      /\ left' \in [Payments -> Int] /\ left'[p] = left[p] - amount
      /\ \A q \in Payments : q # p => left'[q] = left[q]
  BY <1>1, RefundMadeIs
<1>3. made'[NewId].pid = p /\ made'[NewId].amount = amount /\ made'[NewId].state = state
  BY <1>2
<1>4. given[p] + amount <= Amount
  BY <1>1 DEF given
<1>5. given' = [given EXCEPT ![p] = @ + amount]
  <2>1. \A q \in Payments : given'[q] = Amount - left'[q] /\ given[q] = Amount - left[q]
    BY DEF given
  <2>2. given'[p] = given[p] + amount
    BY <1>1, <1>2, <2>1
  <2>3. \A q \in Payments : q # p => given'[q] = given[q]
    BY <1>2, <2>1
  <2>4. given = [q \in Payments |-> given[q]] /\ given' = [q \in Payments |-> given'[q]]
    BY DEF given
  <2> QED
    BY <2>2, <2>3, <2>4
<1>6. whole' = IF amount = Amount THEN whole \cup {p} ELSE whole
  <2>1. \A q : q \in whole <=> \E j \in DOMAIN made : made[j].amount = Amount /\ made[j].pid = q
    BY DEF whole
  <2>2. \A q : q \in whole' <=> \E j \in DOMAIN made' : made'[j].amount = Amount /\ made'[j].pid = q
    BY DEF whole
  <2>3. \A q : q \in whole' <=> q \in whole \/ (amount = Amount /\ q = p)
    BY <1>2, <1>3, <2>1, <2>2
  <2> QED
    BY <2>3
<1>7. final' \in {final, final \cup {NewId}}
  <2>1. \A j : j \in final' <=> j \in final \/ (state = "success" /\ j = NewId)
    BY <1>2, <1>3 DEF final
  <2>2. CASE state = "success"
    BY <2>1, <2>2
  <2>3. CASE state # "success"
    BY <2>1, <2>3
  <2> QED
    BY <2>2, <2>3
<1>8. UNCHANGED <<stage, told>>
  BY DEF stage
<1>9. Promise!Give(p, amount)
  BY <1>2, <1>4, <1>5, <1>6, <1>7, <1>8
     DEF Promise!Give, given, whole, stage, final, StageOf
<1> QED
  BY <1>9 DEF Promise!Next

(* Through the API, and by the bulk job, recorded or not. *)
LEMMA SeenCreate ==
  ASSUME IInv, NEW s \in Slots, CreateRefund(s)
  PROVE  Promise!Next \/ UNCHANGED Observed
<1> DEFINE p == req[s].sess.pid
           amount == req[s].amount
           state == IF Sandbox THEN "success" ELSE "submitted"
<1>1. /\ req[s].pc = "create-refund" /\ req[s] \in Request /\ RequestOK(req[s])
      /\ UNCHANGED <<bulk, told>>
  BY RequestIs DEF IInv, CreateRefund
<1>2. p \in Payments
  BY <1>1 DEF RequestOK
<1>3. CASE UNCHANGED <<made, left>>
  BY <1>1, <1>3, QuietStep
<1>4. CASE amount > 0 /\ left[p] = req[s].avail /\ MakeRefund(p, amount, state)
  <2>1. amount \in 1 .. Amount /\ amount <= left[p]
    <3>1. PICK listed : RequestTrue(made, listed, refunds, bulk, req[s])
      BY DEF IInv, CopiesTrue
    <3>2. amount \in Amounts /\ req[s].avail >= amount /\ left[p] \in 0 .. Amount
      BY <1>1, <1>2, <3>1, LeftBounded DEF RequestTrue, CreatingTrue, Creating
    <3>3. amount \in Int /\ Amount \in Nat
      BY <3>2, RefundAssumption
    <3> QED
      BY <1>4, <3>2, <3>3
  <2>2. state \in {"submitted", "success"}
    OBVIOUS
  <2> HIDE DEF state, amount, p
  <2> QED
    BY <1>1, <1>2, <1>4, <2>1, <2>2, SeenGive
<1> QED
  BY <1>3, <1>4 DEF CreateRefund

LEMMA SeenWhole ==
  ASSUME IInv, NEW s \in Slots, req[s].pc = "bulk-refund", NEW p, p = req[s].sess.pid,
         left[p] = Amount, NEW state \in {"submitted", "success"}, MakeRefund(p, Amount, state),
         UNCHANGED <<bulk, told>>
  PROVE  Promise!Next
<1>1. p \in Payments /\ Amount \in 1 .. Amount /\ Amount <= left[p]
  BY WholeIsDue, RefundAssumption
<1> QED
  BY <1>1, SeenGive

LEMMA SeenBulk ==
  ASSUME IInv, NEW s \in Slots, CreateWholeRefund(s) \/ RefundCapture(s)
  PROVE  Promise!Next \/ UNCHANGED Observed
<1> DEFINE p == req[s].sess.pid
           state == IF Sandbox THEN "success" ELSE "submitted"
<1>1. req[s].pc = "bulk-refund" /\ UNCHANGED <<bulk, told>>
  BY DEF CreateWholeRefund, RefundCapture
<1>2. Recent(req[s].sess).amount = Amount
  BY <1>1, WholeIsDue
<1>3. \/ left[p] = Amount /\ MakeRefund(p, Amount, state)
      \/ left[p] = Amount /\ MakeRefund(p, Amount, "submitted")
      \/ left[p] = Amount /\ MakeRefund(p, Amount, "success")
      \/ UNCHANGED <<made, left>>
  BY <1>2 DEF CreateWholeRefund, RefundCapture, Made, Refused
<1>4. state \in {"submitted", "success"}
  OBVIOUS
<1> HIDE DEF state
<1> QED
  BY <1>1, <1>3, <1>4, SeenWhole, QuietStep

(* GOV.UK Pay settles one: Succeed, or Fail. *)
LEMMA SeenSettles ==
  ASSUME IInv, NEW i \in Ids, RefundSettles(i)
  PROVE  Promise!Next
<1> DEFINE p == made[i].pid
           amount == made[i].amount
<1>1. /\ Settled(made, made', left, left', i) /\ left' \in [Payments -> Int]
      /\ made[i].state = "submitted" /\ made'[i].state \in {"success", "error"}
  BY SettledIs
<1>2. left[p] + amount <= Amount
  BY RefundSettlesKeeps
<1>3. /\ i \in DOMAIN made /\ DOMAIN made' = DOMAIN made /\ p \in Payments
      /\ \A j \in DOMAIN made : made'[j].amount = made[j].amount /\ made'[j].pid = made[j].pid
      /\ \A j \in DOMAIN made : j # i => made'[j].state = made[j].state
      /\ left'[p] = IF made'[i].state = "error" THEN left[p] + amount ELSE left[p]
      /\ \A q \in Payments : q # p => left'[q] = left[q]
  BY <1>1 DEF Settled
<1>4. amount \in 1 .. Amount /\ Amount \in Nat /\ left[p] \in Int
  BY <1>3, RefundAssumption DEF IInv, MoneyTrue, TypeOK
<1>5. UNCHANGED <<stage, told>>
  BY DEF RefundSettles, stage
<1>6. whole' = whole
  <2>1. \A q : q \in whole <=> \E j \in DOMAIN made : made[j].amount = Amount /\ made[j].pid = q
    BY DEF whole
  <2>2. \A q : q \in whole' <=> \E j \in DOMAIN made' : made'[j].amount = Amount /\ made'[j].pid = q
    BY DEF whole
  <2>3. \A q : q \in whole' <=> q \in whole
    BY <1>3, <2>1, <2>2
  <2> QED
    BY <2>3
<1>7. \A j : j \in final' <=> j \in final \/ (made'[i].state = "success" /\ j = i)
  <2>1. \A j : j \in final <=> j \in DOMAIN made /\ made[j].state = "success"
    BY DEF final
  <2>2. \A j : j \in final' <=> j \in DOMAIN made' /\ made'[j].state = "success"
    BY DEF final
  <2> QED
    BY <1>1, <1>3, <2>1, <2>2
<1>8. i \notin final
  BY <1>1 DEF final
<1>9. \A q \in Payments : given[q] = Amount - left[q] /\ given'[q] = Amount - left'[q]
  BY DEF given
<1>10. given = [q \in Payments |-> given[q]] /\ given' = [q \in Payments |-> given'[q]]
  BY DEF given
<1>11. CASE made'[i].state = "success"
  <2>1. final' = final \cup {i}
    BY <1>7, <1>11
  <2>2. \A q \in Payments : given'[q] = given[q]
    BY <1>3, <1>9, <1>11
  <2>3. given' = given
    BY <1>10, <2>2
  <2>4. Promise!Succeed(i)
    BY <1>5, <1>6, <1>8, <2>1, <2>3 DEF Promise!Succeed, given, whole, stage, final, StageOf
  <2> QED
    BY <2>4 DEF Promise!Next
<1>12. CASE made'[i].state = "error"
  <2>1. final' = final
    BY <1>7, <1>12
  <2>2. PICK p0 \in Payments, amount0 \in 1 .. Amount : p0 = p /\ amount0 = amount
    BY <1>3, <1>4, Zenon
  <2> HIDE DEF p, amount
  <2>3. given'[p0] = given[p0] - amount0 /\ amount0 <= given[p0]
    BY <1>2, <1>3, <1>4, <1>9, <1>12, <2>2
  <2>4. \A q \in Payments : q # p0 => given'[q] = given[q]
    BY <1>3, <1>9, <2>2
  <2>5. given' = [given EXCEPT ![p0] = @ - amount0]
    BY <1>10, <2>3, <2>4
  <2>6. Promise!Fail(p0, amount0)
    BY <1>5, <1>6, <2>1, <2>3, <2>5 DEF Promise!Fail, given, whole, stage, final, StageOf
  <2> QED
    BY <2>6, StepOf, Zenon
<1> QED
  BY <1>1, <1>11, <1>12

(* A message is sent: Tell. *)
LEMMA SeenTell ==
  ASSUME IInv, NEW s \in Slots, SendRefundMessage(s)
  PROVE  Promise!Next \/ UNCHANGED Observed
<1>1. UNCHANGED <<bulk, made, left>>
  BY DEF SendRefundMessage
<1>2. PICK i \in req[s].done : told' = told \cup {i}
  BY Zenon DEF SendRefundMessage
<1>3. req[s].done \subseteq FinalIn(made) /\ req[s].done \subseteq Ids
  BY RequestIs DEF IInv, CopiesTrue, RequestTrue, Request
<1>4. CASE i \in told
  <2>1. told' = told
    BY <1>2, <1>4
  <2> QED
    BY <1>1, <2>1, QuietStep
<1>5. CASE i \notin told
  <2>1. UNCHANGED <<given, whole, stage, final>>
    BY <1>1 DEF given, whole, stage, final
  <2>2. i \in final
    BY <1>3 DEF final, FinalIn
  <2>3. Promise!Tell(i)
    BY <1>2, <1>5, <2>1, <2>2 DEF Promise!Tell, given, whole, stage, final, StageOf
  <2> QED
    BY <1>3, <2>3 DEF Promise!Next
<1> QED
  BY <1>4, <1>5

(* An upload writes an entry: Place, unless the session has a bulk refund. *)
LEMMA SeenPlace ==
  ASSUME IInv, NEW s \in Slots, CreateBulkRefund(s)
  PROVE  Promise!Next \/ UNCHANGED Observed
<1>1. TypeOK /\ req[s].pc = "upload" /\ UNCHANGED <<made, left, told>>
  BY DEF IInv, CreateBulkRefund
<1>2. PICK entry \in req[s].file :
        bulk' = [bulk EXCEPT ![entry.order] =
                   IF \/ HasStatus(bulk[entry.order], "refund-pending")
                      \/ HasStatus(bulk[entry.order], "refund-requested")
                   THEN bulk[entry.order]
                   ELSE Append(bulk[entry.order], UpdateBatchRefund(entry))]
  BY <1>1, Zenon DEF CreateBulkRefund
<1> DEFINE p == entry.order
           new == UpdateBatchRefund(entry)
<1>3. /\ p \in Payments
      /\ new = [id |-> 0, status |-> "refund-pending", amount |-> Amount]
      /\ HasStatus(bulk[p], "refund-pending") \/ HasStatus(bulk[p], "refund-requested")
           <=> bulk[p] # <<>>
  BY <1>1, PlacedIs
<1>4. bulk \in [Payments -> Seq(BulkRefund)]
  BY <1>1 DEF TypeOK
<1>5. bulk' = [bulk EXCEPT ![p] = IF bulk[p] # <<>> THEN bulk[p] ELSE Append(bulk[p], new)]
  BY <1>2, <1>3
<1> HIDE DEF p, new
<1>6. CASE bulk[p] # <<>>
  <2>1. bulk' = bulk
    BY <1>4, <1>5, <1>6
  <2> QED
    BY <1>1, <2>1, QuietStep
<1>7. CASE bulk[p] = <<>>
  <2>1. StageOf(<<>>) = "none"
    BY DEF StageOf, HasStatus
  <2>2. StageOf(<<new>>) = "pending"
    <3>1. DOMAIN <<new>> = 1 .. 1 /\ <<new>>[1] = new /\ <<new>> # <<>>
      OBVIOUS
    <3>2. \A k \in DOMAIN <<new>> : <<new>>[k].status = "refund-pending"
      BY <1>3, <3>1
    <3> QED
      BY <3>1, <3>2 DEF StageOf, HasStatus
  <2>3. bulk'[p] = <<new>> /\ \A q \in Payments : q # p => bulk'[q] = bulk[q]
    <3>1. Append(<<>>, new) = <<new>>
      OBVIOUS
    <3> QED
      BY <1>3, <1>4, <1>5, <1>7, <3>1
  <2>4. \A q \in Payments : stage[q] = StageOf(bulk[q]) /\ stage'[q] = StageOf(bulk'[q])
    BY DEF stage
  <2>5. stage = [q \in Payments |-> stage[q]] /\ stage' = [q \in Payments |-> stage'[q]]
    BY DEF stage
  <2>6. stage[p] = "none" /\ stage'[p] = "pending"
    BY <1>3, <1>7, <2>1, <2>2, <2>3, <2>4
  <2>7. \A q \in Payments : q # p => stage'[q] = stage[q]
    BY <2>3, <2>4
  <2>8. stage' = [stage EXCEPT ![p] = "pending"]
    BY <2>5, <2>6, <2>7
  <2>9. UNCHANGED <<given, whole, final, told>>
    BY <1>1 DEF given, whole, final
  <2>10. Promise!Place(p)
    BY <2>6, <2>8, <2>9 DEF Promise!Place, given, whole, stage, final, StageOf
  <2> QED
    BY <1>3, <2>10 DEF Promise!Next
<1> QED
  BY <1>6, <1>7

(* The bulk job writes its copy: Request, unless another job was faster. *)
LEMMA SeenRequest ==
  ASSUME IInv, NEW s \in Slots, PatchBulk(s)
  PROVE  Promise!Next \/ UNCHANGED Observed
<1> DEFINE p == req[s].sess.pid
           entries == req[s].sess.bulk
<1>1. /\ TypeOK /\ req[s] \in Request /\ RequestOK(req[s]) /\ req[s].pc = "bulk-patch"
      /\ PatchPaymentResource(p, req[s].sess.list, entries) /\ UNCHANGED <<made, left, told>>
  BY RequestIs DEF IInv, PatchBulk
<1>2. p \in Payments /\ entries \in Seq(BulkRefund) /\ bulk \in [Payments -> Seq(BulkRefund)]
  BY <1>1 DEF RequestOK, TypeOK, Request, Sessions
<1>3. PICK listed \in SUBSET DOMAIN made : CopiesTrue(made, listed, refunds, bulk, req)
  BY DEF IInv
<1>4. /\ entries # <<>> /\ \A k \in DOMAIN entries : entries[k].status = "refund-requested"
      /\ BulkTrue(made, listed, entries, p) /\ bulk[p] # <<>>
  <2>1. RequestTrue(made, listed, refunds, bulk, req[s])
    BY <1>3 DEF CopiesTrue
  <2>2. CopyTrue(made, listed, bulk, req[s].sess) /\ BulkingTrue(req[s])
    BY <2>1 DEF RequestTrue
  <2> QED
    BY <1>1, <2>2 DEF CopyTrue, BulkingTrue
<1>5. bulk' = [bulk EXCEPT ![p] = entries]
  BY <1>1, <1>4 DEF PatchPaymentResource
<1> HIDE DEF p, entries
<1>6. 1 \in DOMAIN entries /\ entries[1].status = "refund-requested"
      /\ entries[1].id \in DOMAIN made /\ made[entries[1].id].pid = p
      /\ made[entries[1].id].amount = Amount
  <2>1. 1 \in DOMAIN entries
    BY <1>2, <1>4, EmptySeq
  <2>2. EntryTrue(made, listed, entries[1], p) /\ entries[1].status = "refund-requested"
    BY <1>4, <2>1 DEF BulkTrue
  <2> QED
    BY <2>1, <2>2 DEF EntryTrue
<1>7. StageOf(entries) = "requested" /\ p \in whole
  BY <1>6 DEF StageOf, HasStatus, whole
<1>8. \A q \in Payments : stage[q] = StageOf(bulk[q]) /\ stage'[q] = StageOf(bulk'[q])
  BY DEF stage
<1>9. stage = [q \in Payments |-> stage[q]] /\ stage' = [q \in Payments |-> stage'[q]]
  BY DEF stage
<1>10. bulk'[p] = entries /\ \A q \in Payments : q # p => bulk'[q] = bulk[q]
  BY <1>2, <1>5
<1>11. stage'[p] = "requested" /\ \A q \in Payments : q # p => stage'[q] = stage[q]
  BY <1>2, <1>7, <1>8, <1>10
<1>12. stage[p] \in {"pending", "requested"}
  BY <1>2, <1>4, <1>8 DEF StageOf
<1>13. UNCHANGED <<given, whole, final, told>>
  BY <1>1 DEF given, whole, final
<1>14. CASE stage[p] = "requested"
  <2>1. stage' = stage
    BY <1>9, <1>11, <1>14
  <2> QED
    BY <1>13, <2>1 DEF Observed
<1>15. CASE stage[p] = "pending"
  <2>1. PICK p0 \in Payments : p0 = p
    BY <1>2
  <2>2. stage' = [stage EXCEPT ![p0] = "requested"]
    BY <1>9, <1>11, <2>1
  <2>3. Promise!Request(p0)
    BY <1>7, <1>13, <1>15, <2>1, <2>2 DEF Promise!Request, given, whole, stage, final, StageOf
  <2> QED
    BY <2>3, StepOf, Zenon
<1> QED
  BY <1>12, <1>14, <1>15

(* The others write no array of bulk refunds. *)
LEMMA SeenPatch ==
  ASSUME IInv, NEW s \in Slots, PatchRefunds(s)
  PROVE  UNCHANGED Observed
<1> DEFINE p == req[s].sess.pid
<1>1. /\ TypeOK /\ RequestOK(req[s]) /\ req[s].pc \in {"create-patch", "update-patch"}
      /\ PatchPaymentResource(p, req[s].sess.list, req[s].sess.bulk) /\ UNCHANGED <<made, left, told>>
  BY RequestIs DEF IInv, PatchRefunds
<1>2. req[s].sess.bulk = <<>>
  BY <1>1 DEF IInv, CopiesTrue, RequestTrue, BulkingTrue
<1>3. bulk' = bulk
  BY <1>1, <1>2 DEF PatchPaymentResource, TypeOK
<1> QED
  BY <1>1, <1>3, QuietStep

-----------------------------------------------------------------------------
(* The refinement. *)

LEMMA FirstPromise == Init => Promise!Init
<1> SUFFICES ASSUME Init PROVE Promise!Init
  OBVIOUS
<1>1. DOMAIN made = {} /\ told = {}
  BY DEF Init
<1>2. \A p \in Payments : given[p] = 0
  <2>1. Amount - Amount = 0
    BY RefundAssumption
  <2> QED
    BY <2>1 DEF Init, given
<1>3. \A p \in Payments : stage[p] = "none"
  BY DEF Init, stage, StageOf, HasStatus
<1>4. whole = {} /\ final = {}
  BY <1>1 DEF whole, final
<1>5. given = [p \in Payments |-> 0] /\ stage = [p \in Payments |-> "none"]
  BY <1>2, <1>3 DEF given, stage
<1> QED
  BY <1>1, <1>4, <1>5 DEF Promise!Init, given, whole, stage, final, StageOf

LEMMA NextPromise == IInv /\ [Next]_vars => [Promise!Next]_Observed
<1> SUFFICES ASSUME IInv, [Next]_vars PROVE Promise!Next \/ UNCHANGED Observed
  OBVIOUS
<1>1. ASSUME NEW s \in Slots, Arrive(s) PROVE UNCHANGED Observed
  BY <1>1, QuietStep DEF Arrive, BeginCreateRefund, BeginUpdateRefund, handleRefundFile,
     BeginProcessPending, BeginProcessBatch
<1>2. ASSUME NEW s \in Slots, PassOver(s) \/ BulkFails(s) \/ RequestDies(s) PROVE UNCHANGED Observed
  BY <1>2, QuietStep DEF PassOver, BulkFails, RequestDies
<1>3. ASSUME NEW s \in Slots,
             \/ ReadSession(s) \/ GetRefundSummary(s) \/ GetRefundStatus(s)
             \/ GetPendingStatus(s) \/ PatchPending(s) \/ CheckAvailable(s)
      PROVE  UNCHANGED Observed
  BY <1>3, QuietStep DEF ReadSession, GetRefundSummary, GetRefundStatus, GetPendingStatus,
     PatchPending, CheckAvailable
<1>4. ASSUME NEW s \in Slots, Proceed(s) PROVE Promise!Next \/ UNCHANGED Observed
  BY <1>3, <1>4, SeenCreate, SeenBulk, SeenTell, SeenPlace, SeenRequest, SeenPatch DEF Proceed
<1>5. CASE UNCHANGED vars
  BY <1>5, QuietStep DEF vars
<1> QED
  BY <1>1, <1>2, <1>4, <1>5, SeenSettles DEF Next

(* Every behaviour of refunds is a behaviour of RefundPromise: whatever the
   requests race, fail or repeat, no stale copy that PatchPaymentResource
   writes takes a bulk refund away or back to pending, none is requested but
   of a payment refunded as a whole, and consumers hear of refunds that
   succeeded for good. *)
THEOREM RefundsKeepPromise == Spec => KeepsPromise
<1>1. [Promise!Next]_Observed <=> [Promise!Next]_Promise!vars
  BY DEF Observed, given, whole, stage, final, StageOf, Promise!vars
<1> QED
  BY <1>1, FirstPromise, NextPromise, RefundsSafe, PTL DEF Spec, KeepsPromise, Promise!Spec
=============================================================================
