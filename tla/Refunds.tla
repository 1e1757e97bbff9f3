------------------------------ MODULE Refunds ------------------------------
(***************************************************************************)
(* Refunds: clients, the two scheduled jobs and uploads, on the sessions   *)
(* of payments that were taken, and the providers that refund them.        *)
(***************************************************************************)
EXTENDS RefundRequests, PendingRefunds, BulkRefunds

Init ==
  /\ refunds = [p \in Payments |-> <<>>]
  /\ bulk = [p \in Payments |-> <<>>]
  /\ made = <<>>
  /\ left = [p \in Payments |-> Amount]
  /\ told = {}
  /\ req = [s \in Slots |-> Idle]
  /\ overlapped = FALSE
  /\ issued = 0
  /\ faults = 0

(* GOV.UK Pay settles a card refund; the money of one that fails can be
   refunded again. *)
RefundSettles(i) ==
  /\ i \in DOMAIN made
  /\ made[i].pid \in Cards /\ made[i].state = "submitted"
  /\ \E end \in Outcomes :
       /\ made' = [made EXCEPT ![i].state = end]
       /\ left' = [left EXCEPT ![made[i].pid] = IF end = "error" THEN @ + made[i].amount ELSE @]
  /\ UNCHANGED <<refunds, bulk, told, req, outside>>

(* A request ends where it is: the instance stops, a call fails, or the
   handler panics. *)
RequestDies(s) ==
  /\ req[s].pc # "idle"
  /\ faults < MaxFaults /\ faults' = faults + 1
  /\ req' = [req EXCEPT ![s] = Idle]
  /\ UNCHANGED <<refunds, bulk, made, left, told, overlapped, issued>>

(* The next step of a request in flight. *)
Proceed(s) ==
  \/ ReadSession(s)
  \/ GetRefundSummary(s)
  \/ CreateRefund(s)
  \/ GetRefundStatus(s)
  \/ PatchRefunds(s)
  \/ GetPendingStatus(s)
  \/ PatchPending(s)
  \/ SendRefundMessage(s)
  \/ CheckAvailable(s)
  \/ CreateWholeRefund(s)
  \/ RefundCapture(s)
  \/ PatchBulk(s)
  \/ CreateBulkRefund(s)

(* A new request. *)
Arrive(s) ==
  \/ \E p \in Payments :
       \/ \E amount \in Amounts, ref \in References : BeginCreateRefund(s, p, amount, ref)
       \/ \E id \in Ids : BeginUpdateRefund(s, p, id)
  \/ \E by \in {"govpay", "paypal"}, file \in Files : handleRefundFile(s, by, file)
  \/ BeginProcessPending(s)
  \/ BeginProcessBatch(s)

Next ==
  \/ \E s \in Slots : Arrive(s) \/ Proceed(s) \/ PassOver(s) \/ BulkFails(s) \/ RequestDies(s)
  \/ \E i \in Ids : RefundSettles(i)

Spec == Init /\ [][Next]_vars

(***************************************************************************)
(* Fairness: requests in flight go on, and the scheduled caller goes on    *)
(* calling the job: again and again there is room for the call, and again  *)
(* and again it is made.                                                   *)
(***************************************************************************)
Fairness ==
  /\ \A s \in Slots : WF_vars(Proceed(s))
  /\ SF_vars(\E s \in Slots : BeginProcessPending(s))

FairSpec == Spec /\ Fairness

(* The same of the job for bulk refunds. *)
BulkFairSpec ==
  /\ Spec
  /\ \A s \in Slots : WF_vars(Proceed(s))
  /\ SF_vars(\E s \in Slots : BeginProcessBatch(s))

-----------------------------------------------------------------------------
PCs == {"idle", "create-session", "create-summary", "create-refund", "create-patch",
        "update-status", "update-patch", "pending-next", "pending-patch", "pending-tell",
        "upload", "bulk-next", "bulk-refund", "bulk-patch"}

Sessions == [pid: Payments \cup {NoPayment}, list: Seq(Refund), bulk: Seq(BulkRefund)]

Request ==
  [pc: PCs, sess: Sessions, amount: Int, ref: References \cup {NoReference}, id: AnyId,
   avail: Int, good: BOOLEAN, todo: SUBSET Sessions, done: SUBSET Ids, file: SUBSET Entry]

(* Requests that are about one session, and the lists of the others. *)
RequestOK(r) ==
  /\ r.pc \notin {"idle", "pending-next", "pending-tell", "bulk-next", "upload"} => r.sess.pid \in Payments
  /\ \A x \in r.todo : x.pid \in Payments

TypeOK ==
  /\ refunds \in [Payments -> Seq(Refund)]
  /\ bulk \in [Payments -> Seq(BulkRefund)]
  /\ made \in Seq(RefundMade) /\ Len(made) <= MaxRefunds
  /\ left \in [Payments -> Int]
  /\ told \subseteq Ids
  /\ req \in [Slots -> Request] /\ \A s \in Slots : RequestOK(req[s])
  /\ overlapped \in BOOLEAN
  /\ issued \in 0 .. MaxRequests
  /\ faults \in 0 .. MaxFaults

AtRest == \A s \in Slots : req[s].pc = "idle"

(***************************************************************************)
(* However requests race with stale copies of the arrays: a session lists  *)
(* refunds that were made of its own payment, each of them once, and its   *)
(* bulk refund is not one of those.                                        *)
(***************************************************************************)
RefundsAreOwn ==
  \A p \in Payments :
    /\ Cardinality(IdsIn(refunds[p])) = Len(refunds[p])
    /\ \A i \in IdsIn(refunds[p]) : i \in DOMAIN made /\ made[i].pid = p
    /\ IdsIn(refunds[p]) \cap IdsIn(bulk[p]) = {}

(***************************************************************************)
(* What is stored as a success, in either vocabulary, and what consumers   *)
(* are told of, is a refund that GOV.UK Pay completed; what is stored as   *)
(* an error is one that failed.  (The provider's word travels through a    *)
(* copy, an update by position and one by id.)                             *)
(***************************************************************************)
SuccessIsTrue ==
  /\ \A p \in Payments : \A k \in DOMAIN refunds[p] :
       LET r == refunds[p][k] IN
       /\ r.status \in {"refund-success", "success"} => made[r.id].state = "success"
       /\ r.status \in {"refund-error", "error"} => made[r.id].state = "error"
  /\ \A i \in told : made[i].state = "success"

(* Clients and the bulk job, racing, never have more refunded of a payment
   than was paid, refunds that failed aside. *)
Holding(p) == {i \in DOMAIN made : made[i].pid = p /\ made[i].state # "error"}

NeverTooMuch ==
  \A p \in Payments : MapThenSumSet(LAMBDA i : made[i].amount, Holding(p)) <= Amount

(***************************************************************************)
(* Uploads, repeated, and bulk jobs, overlapping and cut short, leave at   *)
(* most one bulk refund on a session; it says requested only when it names *)
(* a refund of the whole payment.                                          *)
(***************************************************************************)
BulkIsGrounded ==
  \A p \in Payments :
    /\ Len(bulk[p]) <= 1
    /\ \A k \in DOMAIN bulk[p] :
         IF bulk[p][k].status = "refund-pending" THEN bulk[p][k].id = 0
         ELSE /\ bulk[p][k].id \in DOMAIN made
              /\ made[bulk[p][k].id].pid = p
              /\ made[bulk[p][k].id].amount = Amount

(* The providers, the collection and consumers together keep the promise of
   RefundPromise: in particular no stale copy takes a bulk refund away or back
   to pending, which would have a later job request it anew. *)
Promise == INSTANCE RefundPromise WITH
  given <- [p \in Payments |-> Amount - left[p]],
  whole <- {made[i].pid : i \in {i \in DOMAIN made : made[i].amount = Amount}},
  stage <- [p \in Payments |-> IF HasStatus(bulk[p], "refund-requested") THEN "requested"
                               ELSE IF bulk[p] # <<>> THEN "pending" ELSE "none"],
  final <- {i \in DOMAIN made : made[i].state = "success"},
  heard <- told

KeepsPromise == Promise!Spec

(***************************************************************************)
(* A refund of a card payment is on its session once the requests are      *)
(* done, if they did not overlap and no call failed.  (They read the       *)
(* array, have the refund made, and write the array: overlapping ones, or  *)
(* one cut short, lose refunds.)                                           *)
(***************************************************************************)
CardRefundsAreStored ==
  AtRest /\ ~overlapped /\ faults = 0 =>
    \A i \in DOMAIN made :
      LET p == made[i].pid IN p \in Cards => i \in IdsIn(refunds[p]) \cup IdsIn(bulk[p])

(* Requests that do not overlap never list two refunds under one reference,
   failed ones aside, even when some are cut short and tried again. *)
ReferencesAreUnique ==
  ~overlapped =>
    \A p \in Payments : \A j, k \in DOMAIN refunds[p] :
      j # k /\ refunds[p][j].ref = refunds[p][k].ref =>
        "error" \in {refunds[p][j].status, refunds[p][k].status}

(* Without overlap no later request loses or unsays a refund that succeeded. *)
Succeeded(list) ==
  {list[k].id : k \in {k \in DOMAIN list : list[k].status \in {"refund-success", "success"}}}

SuccessStays ==
  [][~overlapped' => \A p \in Payments : Succeeded(refunds[p]) \subseteq Succeeded(refunds'[p])]_vars

(* Without overlap a refund that consumers were told of is prepared for them
   once more only while another refund of its session still waits: what the
   session lists first is announced at every run that finds the session. *)
RetoldWhileOthersWait ==
  [][~overlapped' =>
       \A s \in Slots : \A i \in (req'[s].done \ req[s].done) \cap told :
         HasStatus(refunds'[made[i].pid], "refund-requested")]_vars

-----------------------------------------------------------------------------
(* Progress, under FairSpec. *)

(* Refund i is what its session lists first, and waits for an outcome. *)
Waits(i) ==
  LET list == refunds[made[i].pid] IN
  list # <<>> /\ FirstId(list) = i /\ list[1].status = "refund-requested"

(* Refund i has succeeded, and the job is to record it. *)
IsDue(i) == i \in DOMAIN made /\ made[i].state = "success" /\ Waits(i)

(* Refund i is stored under that status. *)
Stored(i, status) ==
  LET list == refunds[made[i].pid] IN
  \E k \in DOMAIN list : list[k].id = i /\ list[k].status = status

(* An overlapping request wrote the array from a copy without it. *)
Lost(i) == i \notin IdsIn(refunds[made[i].pid])

(* Older sessions that the job selects and has nothing to record for fill its
   batch: their first refund failed, is not settled, or is recorded. *)
CrowdedOut(p) ==
  RefundBatchSize <= Cardinality(
    {q \in RequestedSessions : Oldest(q) < Oldest(p) /\ ~IsDue(FirstId(refunds[q]))})

(* What keeps the job from a refund that is due: an overlapping request, its
   batch, or a client's update, which met the refund as submitted and stores
   that word, under which the job does not look for it. *)
OutOfReach(i) == Lost(i) \/ CrowdedOut(made[i].pid) \/ Stored(i, "submitted")

(* The first refund of a session, once GOV.UK Pay completed it, is recorded
   as a success by a later run of the job, instances that stop included, as
   long as it is within the job's reach. *)
RefundIsRecorded ==
  \A i \in Ids :
    IsDue(i) ~> i \in DOMAIN made /\ (i \in Succeeded(refunds[made[i].pid]) \/ OutOfReach(i))

(* It is announced too, if no call failed; unless it is a client's update that
   records it, as "success": the job no longer looks for it, and updates send
   no message. *)
RefundIsAnnounced ==
  \A i \in Ids :
    IsDue(i) ~> i \in DOMAIN made /\ (\/ i \in told \/ faults > 0
                                     \/ OutOfReach(i) \/ Stored(i, "success"))

(* A refund of p that keeps its bulk refund pending for good, since the
   whole payment is no longer there: one of a part, which a client asked for;
   one of the whole that PayPal does not call complete; one of the whole, where
   a call failed or an instance stopped, which may have kept it unrecorded. *)
InTheWay(p, i) ==
  /\ made[i].pid = p
  /\ \/ made[i].amount # Amount
     \/ p \notin Cards /\ made[i].state = "submitted"
     \/ faults > 0


-----------------------------------------------------------------------------
(* What comments in the code say and the code does not do. *)

(* handlers/refunds.go: "checks the status of each pending refund and
   updates the status for any completed refunds". *)
EachPendingIsChecked ==
  \A i \in Ids :
    i \in DOMAIN made /\ made[i].state = "success" /\ Stored(i, "refund-requested") ~>
      i \in DOMAIN made /\ (i \in Succeeded(refunds[made[i].pid]) \/ Lost(i))

(* refund.go: UpdateRefund "checks refund status in GovPay and if status is
   successful saves it". *)
OnlySuccessIsSaved ==
  [][\A s \in Slots :
       req[s].pc = "update-patch" /\ req'[s].pc = "idle" =>
         \A p \in Payments : \A k \in DOMAIN refunds[p] :
           refunds'[p][k].status \in {refunds[p][k].status, "success"}]_vars
=============================================================================
