------------------------------ MODULE Payments ------------------------------
(***************************************************************************)
(* The payment journey: clients, payers, providers, the callbacks and the  *)
(* status check, working on one collection without locks or versions.      *)
(***************************************************************************)
EXTENDS SessionRequests, Callbacks, StatusCheck

CONSTANT GovPayOutcomes   \* the ways GOV.UK Pay payments end in an instance

ASSUME OutcomesAssumption == GovPayOutcomes \subseteq {"success"} \cup GovPayFailures

Init ==
  /\ db = [p \in Payments |-> Blank]
  /\ age = [p \in Payments |-> 0]
  /\ ext = [j \in Refs |-> NotMade]
  /\ sent = [p \in Payments |-> 0]
  /\ req = [s \in Slots |-> Idle]
  /\ trusted = {}
  /\ issued = 0
  /\ faults = 0

-----------------------------------------------------------------------------
(* The world outside. *)

(* The payer, or the clock of GOV.UK Pay, moves a card payment on. *)
GovPayMoves(j) ==
  /\ ext[j].by = "govpay"
  /\ ext[j].state \in {"created", "started"}
  /\ \E next \in {"started"} \cup GovPayOutcomes :
       /\ next # ext[j].state
       /\ ext' = [ext EXCEPT ![j].state = next]
  /\ UNCHANGED <<db, age, sent, req, trusted, issued, faults>>

(* The payer approves a PayPal order; nothing is charged until the capture. *)
PayPalApproved(j) ==
  /\ ext[j].by = "paypal"
  /\ ext[j].state = "created"
  /\ ext' = [ext EXCEPT ![j].state = "approved"]
  /\ UNCHANGED <<db, age, sent, req, trusted, issued, faults>>

(* Time passes for every session there is. *)
Tick ==
  /\ \E p \in Payments : db[p].status # "" /\ age[p] < MaxAge
  /\ age' = [p \in Payments |->
               IF db[p].status # "" /\ age[p] < MaxAge THEN age[p] + 1 ELSE age[p]]
  /\ UNCHANGED <<db, ext, sent, req, trusted, issued, faults>>

(* A request ends where it is: the instance stops, the connection to the
   collection or a provider or Kafka fails, or the costs resource does.  A
   reply lost after its effect is this step taken after the effect. *)
RequestDies(s) ==
  /\ req[s].pc # "idle"
  /\ faults < MaxFaults
  /\ faults' = faults + 1
  /\ req' = [req EXCEPT ![s] = Idle]
  /\ UNCHANGED <<db, age, ext, sent, trusted, issued>>

-----------------------------------------------------------------------------
(* The next step of a request in flight. *)
Proceed(s) ==
  \/ PatchRead(s)
  \/ PatchWrite(s)
  \/ Announce(s)
  \/ CreateAtProvider(s)
  \/ StoreExternalPaymentStatusDetails(s)
  \/ GovPayCallbackStatus(s)
  \/ PayPalOrderStatus(s)
  \/ CapturePayment(s)
  \/ CheckNext(s)
  \/ CheckSkips(s)
  \/ CheckFinds(s)
  \/ CheckAnnounces(s)

(* A new request. *)
Arrive(s) ==
  \/ \E p \in Payments :
       \/ \E m \in OfferedMethods : HandlePatchPaymentSession(s, p, m)
       \/ CreateExternalPaymentJourney(s, p)
       \/ HandleGovPayCallback(s, p)
       \/ HandlePayPalCallback(s, p)
  \/ HandleCheckPaymentStatus(s)

Next ==
  \/ \E p \in Payments : CreatePaymentSession(p)
  \/ \E s \in Slots : Arrive(s) \/ Proceed(s) \/ CheckContinues(s) \/ RequestDies(s)
  \/ \E j \in Refs : GovPayMoves(j) \/ PayPalApproved(j)
  \/ Tick

Spec == Init /\ [][Next]_vars

(***************************************************************************)
(* Fairness: a request in flight goes on (its goroutine is scheduled and   *)
(* its calls return), time passes, and the scheduled caller goes on asking *)
(* for status checks.  Nobody has to choose a method, pay or come back.    *)
(***************************************************************************)
Fairness ==
  /\ \A s \in Slots : WF_vars(Proceed(s))
  /\ WF_vars(Tick)
  /\ WF_vars(\E s \in Slots : HandleCheckPaymentStatus(s))

FairSpec == Spec /\ Fairness

-----------------------------------------------------------------------------
(* A request is about one session, except between those of a status check. *)
InHand(r) == r.pc \notin {"idle", "sweep"}

TypeOK ==
  /\ db \in [Payments -> PaymentResource]
  /\ age \in [Payments -> Ages]
  /\ ext \in [Refs -> ProviderPayment]
  /\ sent \in [Payments -> 0 .. MaxSent]
  /\ req \in [Slots -> Request]
  /\ \A s \in Slots : InHand(req[s]) => req[s].pid \in Payments
  /\ trusted \in SUBSET Payments
  /\ issued \in Nat /\ issued <= MaxRequests
  /\ faults \in Nat /\ faults <= MaxFaults

MadeFor(p) == {j \in Refs : ext[j].pid = p}

(***************************************************************************)
(* However requests interleave, fail and repeat, a session that is still   *)
(* pending has no payment method, no payment at any provider and no        *)
(* message: the payer cannot have been charged for it.  (The override in   *)
(* PatchPaymentSession and the status check of the journey together.)      *)
(***************************************************************************)
PendingIsUntouched ==
  \A p \in Payments : db[p].status \in OpenStatuses =>
    /\ db[p] \in {Blank, NewResource}
    /\ MadeFor(p) = {}
    /\ sent[p] = 0

(***************************************************************************)
(* Every identity a session stores (the provider's payment, provider_id,   *)
(* the PayPal transaction) is that of a payment made for this session, the *)
(* provider id comes from GOV.UK Pay, and a transaction id is that of an   *)
(* order PayPal was asked to capture.                                      *)
(***************************************************************************)
Owned(doc, p) ==
  /\ {doc.ref, doc.prov, doc.txn} \subseteq MadeFor(p) \cup {NoRef}
  /\ doc.prov # NoRef => ext[doc.prov].by = "govpay"
  /\ doc.txn # NoRef => ext[doc.txn].state \in CaptureStates

NamesAreOwn == \A p \in Payments : Owned(db[p], p)

(***************************************************************************)
(* A session is stored as paid only if a provider took the money for one   *)
(* of its payments, or a callback met GOV.UK Pay's "created" answer, which *)
(* the code answers with paid on purpose.  Stale snapshots written back,   *)
(* replaced journeys and changed methods cannot make an unpaid session     *)
(* paid in any other way.                                                  *)
(***************************************************************************)
GroundsToPay(p) == p \in trusted \/ \E j \in MadeFor(p) : MoneyTaken(ext[j])

PaidHasGrounds == \A p \in Payments : db[p].status = "paid" => GroundsToPay(p)

(***************************************************************************)
(* Consumers hear of a payment only after its card payment succeeded or    *)
(* was cancelled by the payer, or an order was made at PayPal: no other    *)
(* failure, no expiry and no unfinished card payment is ever announced.    *)
(***************************************************************************)
GroundsToTell(p) ==
  \E j \in MadeFor(p) : ext[j].by = "paypal" \/ ext[j].state \in {"success", "cancelled"}

AnnouncedHasGrounds == \A p \in Payments : sent[p] > 0 => GroundsToTell(p)

(***************************************************************************)
(* Step by step, the whole journey keeps the promise of SessionPromise: a  *)
(* session opens once and in order, nothing reaches a provider before, it  *)
(* is rewritten to paid and announced only on grounds, and no write, stale *)
(* or not, touches another session.                                        *)
(***************************************************************************)
Stage(doc) ==
  CASE doc.status = ""            -> "none"
    [] doc.status = "pending"     -> "pending"
    [] doc.status = "in-progress" -> "in-progress"
    [] doc.status = "paid"        -> "paid"
    [] OTHER                      -> "unpaid"

GroundsOf(p) ==
  {g \in {"charged", "believed", "cancelled", "ordered"} :
     \/ g = "charged" /\ \E j \in MadeFor(p) : MoneyTaken(ext[j])
     \/ g = "believed" /\ p \in trusted
     \/ g = "cancelled" /\ \E j \in MadeFor(p) : ext[j].state = "cancelled"
     \/ g = "ordered" /\ \E j \in MadeFor(p) : ext[j].by = "paypal"}

Promise == INSTANCE SessionPromise WITH
  stage   <- [p \in Payments |-> Stage(db[p])],
  grounds <- [p \in Payments |-> GroundsOf(p)],
  told    <- [p \in Payments |-> sent[p] > 0]

KeepsPromise == Promise!Spec

-----------------------------------------------------------------------------
(* Properties of requests that do not overlap (one slot). *)

(* Once paid, always paid: a replayed callback, a PATCH, another method or a
   status check after the fact does not take it back, crashes included. *)
PaidIsFinal ==
  [][\A p \in Payments : db[p].status = "paid" => db'[p].status = "paid"]_vars

AtRest == \A s \in Slots : req[s].pc = "idle"

(* When no call failed and nothing is in flight, an order PayPal captured is
   known here: the session names the transaction and is paid, and consumers
   have been told. *)
CaptureIsRecorded ==
  AtRest /\ faults = 0 =>
    \A j \in Refs : ext[j].by = "paypal" /\ ext[j].state = "captured" =>
      LET p == ext[j].pid IN db[p].txn = j /\ db[p].status = "paid" /\ sent[p] > 0

(* When no call failed and nothing is in flight, what consumers were told
   agrees with the collection: an announced session is closed, and a closed
   one that was paid, without GOV.UK Pay's "created", has been announced. *)
NewsAgrees ==
  AtRest /\ faults = 0 =>
    \A p \in Payments :
      /\ sent[p] > 0 => db[p].completed /\ db[p].status \in ClosedStatuses
      /\ db[p].status = "paid" /\ p \notin trusted => sent[p] > 0

-----------------------------------------------------------------------------
(* Progress, under FairSpec. *)

(* GOV.UK Pay has taken the money for the card payment j the session names. *)
CardPaid(p, j) ==
  db[p].method = "credit-card" /\ db[p].ref = j /\ MoneyTaken(ext[j])

(* The client moved the session to another payment or another method. *)
MovedOn(p, j) == db[p].ref # j \/ db[p].method # "credit-card"

(***************************************************************************)
(* A card payment that succeeded is recorded: by the callback, or when the *)
(* payer never comes back, or the callback fails, by the status check.     *)
(***************************************************************************)
SuccessIsRecorded ==
  \A p \in Payments, j \in Refs :
    CardPaid(p, j) ~> db[p].status = "paid" \/ MovedOn(p, j)

(* It is announced as well, when the payer never comes back: a check whose
   write failed announces again rather than not at all. *)
SuccessIsAnnounced ==
  \A p \in Payments, j \in Refs : CardPaid(p, j) ~> sent[p] > 0 \/ MovedOn(p, j)

-----------------------------------------------------------------------------
(* What a comment in the code says and the code does not do. *)

(* gov_pay.go: "No kafka message created and payments will be processed by
   the backend", of a card payment answered with paid while GOV.UK Pay still
   says "created". *)
CreatedIsProcessedLater ==
  \A p \in Payments, j \in Refs :
    p \in trusted /\ CardPaid(p, j) ~> sent[p] > 0 \/ MovedOn(p, j)
=============================================================================
