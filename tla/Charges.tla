------------------------------- MODULE Charges -------------------------------
(***************************************************************************)
(* What the payers are charged.  The costs of a payment stay with another  *)
(* service, which may change or withdraw them while the payment is under   *)
(* way: the session keeps only their total, and every read of a session    *)
(* fetches the costs again and compares.  The costs a request then works   *)
(* with (their classes choose the GOV.UK Pay account) are those it read.   *)
(*                                                                         *)
(* Payments has the order of the journey's calls, the clock, faults and    *)
(* messages; here a session is never expired, a charge and the storing of  *)
(* its address are one step, and so are PatchPaymentSession's read and     *)
(* write.  PayPal's callback, which depends on costs as GOV.UK Pay's does, *)
(* is there as well.                                                       *)
(***************************************************************************)
EXTENDS Costs, Access

CONSTANTS
  Payments,     \* payment ids
  NoPayment,    \* no payment id
  Slots,        \* requests in flight at once
  Callers,      \* the callers there are
  Offers,       \* what the costs service may answer
  MaxRequests,  \* bound: requests of clients and payers
  MaxCharges,   \* bound: payments the providers make
  MaxChanges    \* bound: changes of the costs

ASSUME ChargesAssumption ==
  /\ NoPayment \notin Payments
  /\ Callers \subseteq Identity
  /\ Offers \subseteq Resource
  /\ {MaxRequests, MaxCharges, MaxChanges} \subseteq Nat

VARIABLES
  costs,    \* the costs service's answer, per payment
  session,  \* the collection
  charges,  \* the providers' payments, in the order they were made
  req,      \* the requests in flight
  agreed,   \* history: the costs a session was created for
  lost,     \* history: a request missed what it reads from its context
  issued,   \* requests so far
  changes   \* changes of costs so far

vars == <<costs, session, charges, req, agreed, lost, issued, changes>>

Statuses == {"", "pending", "in-progress", "paid", "failed", "failed_payment-method-rejected"}
Methods == {"credit-card", "PayPal"}
Zero == [form |-> "pounds.pence", pounds |-> 0, pence |-> 0]

Session == [status: Statuses, method: Methods \cup {""}, owner: Users \cup {NoUser},
            amount: AmountText, ref: Nat]

NoSession == [status |-> "", method |-> "", owner |-> NoUser, amount |-> Zero, ref |-> 0]

Charge == [pid: Payments, account: {"ch", "legacy", "treasury", "sanctions", "paypal"},
           pence: Nat, items: Seq(Cost), starter: Callers,
           state: {"open", "success", "rejected"},
           trusted: BOOLEAN]  \* history: a callback called it paid while it was created

(* A request in flight: the session and the costs it read, and the fields
   of the update it is going to write. *)
Request == [pc: {"idle", "patch", "journey", "callback", "capture", "check"},
            pid: Payments \cup {NoPayment}, who: Callers \cup {NoUser}, sess: Session,
            items: Seq(Cost), status: Statuses, method: Methods \cup {""}]

Idle == [pc |-> "idle", pid |-> NoPayment, who |-> NoUser,
         sess |-> NoSession, items |-> <<>>, status |-> "", method |-> ""]

Init ==
  /\ costs \in [Payments -> Offers]
  /\ session = [p \in Payments |-> NoSession]
  /\ charges = <<>>
  /\ req = [s \in Slots |-> Idle]
  /\ agreed = [p \in Payments |-> <<>>]
  /\ lost = FALSE
  /\ issued = 0 /\ changes = 0

(* The costs service changes, withdraws or restores the costs of p.  (Before
   there is a session, they may be anything to begin with.) *)
CostsChange(p) ==
  /\ session[p].status # ""
  /\ changes < MaxChanges
  /\ changes' = changes + 1
  /\ \E offer \in Offers : costs' = [costs EXCEPT ![p] = offer]
  /\ UNCHANGED <<session, charges, req, agreed, lost, issued>>

-----------------------------------------------------------------------------
(* Mutant: the total is not compared with what is stored. *)
GetPaymentSessionOfAnyAmount(p) ==
  CASE session[p].status = ""                -> "NotFound"
    [] CostsResponse(costs[p]) # "Success"   -> CostsResponse(costs[p])
    [] ~Summable(costs[p].items)             -> "Error"
    [] OTHER                                 -> "Success"

(* The outcome of a read of session p: its costs are fetched again, and
   their total must be the text that was stored. *)
GetPaymentSession(p) ==
  CASE session[p].status = ""                -> "NotFound"
    [] CostsResponse(costs[p]) # "Success"   -> CostsResponse(costs[p])
    [] ~Summable(costs[p].items)             -> "Error"
    [] getTotalAmount(costs[p].items) # session[p].amount -> "Forbidden"
    [] OTHER                                 -> "Success"

(* An incoming payment: all the fields required are there, and the costs
   are at a domain of DOMAIN_ALLOW_LIST. *)
Incoming == [complete: BOOLEAN, listed: BOOLEAN]
validateIncomingPayment(incoming) == incoming.complete /\ incoming.listed

(* POST /payments: the total of the costs is stored, not the costs. *)
CreatePaymentSession(p, w, incoming) ==
  /\ session[p].status = ""
  /\ Admitted("create-payment", w, NoUser, "NotFound")
  /\ validateIncomingPayment(incoming)
  /\ CostsResponse(costs[p]) = "Success"
  /\ Summable(costs[p].items)
  /\ session' = [session EXCEPT ![p] = [NoSession EXCEPT !.status = "pending", !.owner = w.id,
                                          !.amount = getTotalAmount(costs[p].items)]]
  /\ agreed' = [agreed EXCEPT ![p] = costs[p].items]
  /\ UNCHANGED <<costs, charges, req, lost, issued, changes>>

(* A request about p has read its session. *)
Read(pc, p) == [Idle EXCEPT !.pc = pc, !.pid = p, !.sess = session[p], !.items = costs[p].items]

Begin(s) ==
  /\ req[s].pc = "idle"
  /\ issued < MaxRequests
  /\ issued' = issued + 1
  /\ UNCHANGED <<costs, session, charges, agreed, lost, changes>>

(* The interceptors of a route let w in; one of them may read session p. *)
May(route, w, p) == Admitted(route, w, session[p].owner, GetPaymentSession(p))

(* PATCH /private/payments/{id}, carrying a payment method. *)
HandlePatchPaymentSession(s, p, w, method) ==
  /\ Begin(s)
  /\ May("patch-payment", w, p)
  /\ req' = [req EXCEPT ![s] = [Read("patch", p) EXCEPT !.method = method]]

(* Mutant: what is not closed is opened. *)
PatchKeepsOpen(s) ==
  LET r == req[s] IN
  /\ r.pc = "patch"
  /\ req' = [req EXCEPT ![s] = Idle]
  /\ \/ /\ GetPaymentSession(r.pid) = "Success"
        /\ session' = [session EXCEPT
             ![r.pid].status = IF @ \in {"pending", "in-progress"} THEN "in-progress"
                               ELSE IF r.status = "" THEN @ ELSE r.status,
             ![r.pid].method = IF r.method = "" THEN @ ELSE r.method]
     \/ /\ GetPaymentSession(r.pid) # "Success"
        /\ UNCHANGED session
  /\ UNCHANGED <<costs, charges, agreed, lost, issued, changes>>

(* The session is read once more, and if that fails nothing is written.  The
   amount is never part of an update. *)
PatchPaymentSession(s) ==
  LET r == req[s] IN
  /\ r.pc = "patch"
  /\ req' = [req EXCEPT ![s] = Idle]
  /\ \/ /\ GetPaymentSession(r.pid) = "Success"
        /\ session' = [session EXCEPT
             ![r.pid].status = IF @ = "pending" THEN "in-progress"
                               ELSE IF r.status = "" THEN @ ELSE r.status,
             ![r.pid].method = IF r.method = "" THEN @ ELSE r.method]
     \/ /\ GetPaymentSession(r.pid) # "Success"
        /\ UNCHANGED session
  /\ UNCHANGED <<costs, charges, agreed, lost, issued, changes>>

-----------------------------------------------------------------------------
(* POST .../external-journey: classes are looked at before the method. *)
CreateExternalPaymentJourney(s, p, w) ==
  /\ Begin(s)
  /\ May("create-external-payment-journey", w, p)
  /\ session[p].status = "in-progress"
  /\ validateClassOfPayment(costs[p].items)
  /\ session[p].method \in Methods
  /\ req' = [req EXCEPT ![s] = [Read("journey", p) EXCEPT !.who = w]]

(* The provider makes the payment, and its identity is stored. *)
ChargeFor(r, account, pence) ==
  /\ Len(charges) < MaxCharges
  /\ charges' = Append(charges, [pid |-> r.pid, account |-> account, pence |-> pence,
                                 items |-> r.items, starter |-> r.who, state |-> "open",
                                 trusted |-> FALSE])
  /\ session' = [session EXCEPT ![r.pid].ref = Len(charges')]

(* GOV.UK Pay takes pence, and an account's token. *)
CreateGovPayPayment(s) ==
  LET r == req[s] IN
  /\ r.pc = "journey" /\ r.sess.method = "credit-card"
  /\ req' = [req EXCEPT ![s] = Idle]
  /\ \/ /\ addGovPayHeaders(r.items) # "none"
        /\ ChargeFor(r, addGovPayHeaders(r.items), convertToPenceFromDecimal(r.sess.amount))
     \/ /\ addGovPayHeaders(r.items) = "none" \/ Len(charges) = MaxCharges
        /\ UNCHANGED <<charges, session>>
  /\ UNCHANGED <<costs, agreed, lost, issued, changes>>

(* PayPal takes the amount as it is written; the service has one account. *)
CreatePayPalOrder(s) ==
  LET r == req[s] IN
  /\ r.pc = "journey" /\ r.sess.method = "PayPal"
  /\ req' = [req EXCEPT ![s] = Idle]
  /\ \/ ChargeFor(r, "paypal", Pence(r.sess.amount))
     \/ /\ Len(charges) = MaxCharges
        /\ UNCHANGED <<charges, session>>
  /\ UNCHANGED <<costs, agreed, lost, issued, changes>>

(* The payer pays at GOV.UK Pay, or the payment fails. *)
GovPayMoves(j) ==
  /\ charges[j].account # "paypal" /\ charges[j].state = "open"
  /\ \E state \in {"success", "rejected"} : charges' = [charges EXCEPT ![j].state = state]
  /\ UNCHANGED <<costs, session, req, agreed, lost, issued, changes>>

-----------------------------------------------------------------------------
(* GOV.UK Pay's answer about charge j to the token the costs in hand call
   for: none, if there is no address or no token, and an error document, if
   the charge is not in that account. *)
callGovPay(items, j) ==
  CASE j = 0 \/ addGovPayHeaders(items) = "none"         -> "none"
    [] OTHER -> IF charges[j].account = addGovPayHeaders(items) THEN charges[j].state
                ELSE "error document"

(* A payer is sent back: by GOV.UK Pay when it is done with a charge, by
   PayPal when the order is approved or given up.  No interceptor runs. *)
SentBack(p, paypal) ==
  \E j \in DOMAIN charges : /\ charges[j].pid = p
                            /\ (charges[j].account = "paypal") = paypal
                            /\ paypal \/ charges[j].state # "open"

HandleGovPayCallback(s, p) ==
  /\ Begin(s)
  /\ SentBack(p, FALSE)
  /\ GetPaymentSession(p) = "Success" /\ session[p].status # "paid"
  /\ req' = [req EXCEPT ![s] = Read("callback", p)]

(* Mutant: what GOV.UK Pay does not call a failure was paid. *)
FailsOnlyWhenRejected(answer) == IF answer = "rejected" THEN {"failed"} ELSE {"paid"}

(* A payment that is open may be "created", which is called paid too.  (A
   cancelled one counts as rejected here.) *)
CheckPaymentProviderStatus(answer) ==
  CASE answer = "success" -> {"paid"}
    [] answer = "open"    -> {"paid", "failed"}
    [] OTHER              -> {"failed"}

GovPayCallbackStatus(s) ==
  LET r == req[s]
      a == callGovPay(r.items, r.sess.ref)
  IN
  /\ r.pc = "callback"
  /\ \/ /\ a # "none" /\ r.sess.method = "credit-card"
        /\ \E status \in CheckPaymentProviderStatus(a) :
             /\ req' = [req EXCEPT ![s].pc = "patch", ![s].method = r.sess.method,
                                   ![s].status = status]
             /\ charges' = IF a = "open" /\ status = "paid"
                           THEN [charges EXCEPT ![r.sess.ref].trusted = TRUE] ELSE charges
     \/ /\ a = "none" \/ r.sess.method # "credit-card"
        /\ req' = [req EXCEPT ![s] = Idle]
        /\ UNCHANGED charges
  /\ UNCHANGED <<costs, session, agreed, lost, issued, changes>>

HandlePayPalCallback(s, p) ==
  /\ Begin(s)
  /\ SentBack(p, TRUE)
  /\ GetPaymentSession(p) = "Success" /\ session[p].status # "paid"
  /\ session[p].method = "PayPal"
  /\ req' = [req EXCEPT ![s] = Read("capture", p)]

(* An order that was approved is captured before the session is patched; one
   that was not is a failure. *)
CapturePayment(s) ==
  LET r == req[s]
      j == r.sess.ref
      Patch(status) == [req EXCEPT ![s].pc = "patch", ![s].method = r.sess.method,
                                   ![s].status = status]
      open == j # 0 /\ charges[j].account = "paypal" /\ charges[j].state = "open"
  IN
  /\ r.pc = "capture"
  /\ \/ open /\ charges' = [charges EXCEPT ![j].state = "success"] /\ req' = Patch("paid")
     \/ open /\ charges' = [charges EXCEPT ![j].state = "rejected"] /\ req' = Patch("failed")
     \/ open /\ UNCHANGED charges /\ req' = Patch("failed")
     \/ ~open /\ UNCHANGED charges /\ req' = [req EXCEPT ![s] = Idle]
  /\ UNCHANGED <<costs, session, agreed, lost, issued, changes>>

(* The status check comes to p: a session that cannot be read is skipped.
   (That its list may be older than the read is Payments' business.) *)
CheckReads(s, p) ==
  /\ req[s].pc = "idle"
  /\ session[p].status = "in-progress" /\ session[p].method = "credit-card"
  /\ GetPaymentSession(p) = "Success"
  /\ req' = [req EXCEPT ![s] = Read("check", p)]
  /\ UNCHANGED <<costs, session, charges, agreed, lost, issued, changes>>

GetPaymentStatus(answer) == IF answer = "success" THEN "paid" ELSE "failed_payment-method-rejected"

CheckAsks(s) ==
  LET r == req[s]
      a == callGovPay(r.items, r.sess.ref)
  IN
  /\ r.pc = "check"
  /\ \/ /\ a \in {"success", "rejected"}
        /\ req' = [req EXCEPT ![s].pc = "patch", ![s].status = GetPaymentStatus(a)]
     \/ /\ a \notin {"success", "rejected"}
        /\ req' = [req EXCEPT ![s] = Idle]
  /\ UNCHANGED <<costs, session, charges, agreed, lost, issued, changes>>

-----------------------------------------------------------------------------
(* A request that changes nothing here: turned away, or one that reads.
   (Bound: before those that do; what has happened to the session since makes
   no difference to the interceptors.) *)
OtherRequest(route, p, w) ==
  /\ issued = 0
  /\ lost' = (lost \/ Loses(route, w, session[p].owner, GetPaymentSession(p)))
  /\ UNCHANGED <<costs, session, charges, req, agreed, issued, changes>>

Proceed(s) ==
  \/ PatchPaymentSession(s)
  \/ CreateGovPayPayment(s)
  \/ CreatePayPalOrder(s)
  \/ GovPayCallbackStatus(s)
  \/ CapturePayment(s)
  \/ CheckAsks(s)

Arrive(s, p) ==
  \/ \E w \in Callers : \/ \E m \in Methods : HandlePatchPaymentSession(s, p, w, m)
                        \/ CreateExternalPaymentJourney(s, p, w)
  \/ HandleGovPayCallback(s, p)
  \/ HandlePayPalCallback(s, p)
  \/ CheckReads(s, p)

Next ==
  \/ \E p \in Payments :
       \/ CostsChange(p)
       \/ \E w \in Callers : \/ \E i \in Incoming : CreatePaymentSession(p, w, i)
                             \/ \E route \in RouteNames : OtherRequest(route, p, w)
       \/ \E s \in Slots : Arrive(s, p)
  \/ \E s \in Slots : Proceed(s)
  \/ \E j \in DOMAIN charges : GovPayMoves(j)

Spec == Init /\ [][Next]_vars

(* Requests in flight go on, and the status check keeps coming to each
   payment it lists.  Nobody has to pay, and costs need not settle. *)
FairSpec ==
  /\ Spec
  /\ \A s \in Slots : WF_vars(Proceed(s))
  /\ \A p \in Payments : WF_vars(\E s \in Slots : CheckReads(s, p))

-----------------------------------------------------------------------------
TypeOK ==
  /\ costs \in [Payments -> Offers]
  /\ session \in [Payments -> Session]
  /\ charges \in Seq(Charge) /\ Len(charges) <= MaxCharges
  /\ req \in [Slots -> Request]
  /\ agreed \in [Payments -> Seq(Cost)]
  /\ lost \in BOOLEAN
  /\ issued \in 0 .. MaxRequests
  /\ changes \in 0 .. MaxChanges

(* A payer is charged, in pence, exactly the costs the session was created
   for, whatever the costs service did since, whichever provider, and
   however those costs were written: through the sum, its text, the text
   without its point, and the comparison of texts at every read. *)
ChargedAsAgreed ==
  \A j \in DOMAIN charges : charges[j].pence = Owed(agreed[charges[j].pid])

(* And what was charged is the sum of the very costs the charge was made for
   (whose classes chose its account), though amount and costs come from two
   stores: costs that no longer add up never reach a provider. *)
ChargeCoversItsCosts ==
  \A j \in DOMAIN charges : charges[j].pence = Owed(charges[j].items)

(* Every cost of a card payment belongs, by its first class, to the account
   its money went to, and by no other class to another account: a class that
   gets through the comparison of bytes beside it is one without account.
   (That far, with ten classes: as eleventh, "penalty-lfp" gets through.) *)
EachCostInItsAccount ==
  \A j \in DOMAIN charges : charges[j].account # "paypal" =>
    \A i \in DOMAIN charges[j].items :
      LET classes == charges[j].items[i].classes IN
      /\ classes # <<>> /\ AccountOf[classes[1]] = charges[j].account
      /\ \A k \in 2 .. 10 : k \in DOMAIN classes => AccountOf[classes[k]] = "none"

(* A session is paid only when a charge of the agreed amount succeeded, or
   was "created" when a callback met it: never because costs of other classes
   had the callback ask in another account. *)
PaidInFull ==
  \A p \in Payments : session[p].status = "paid" =>
    \E j \in DOMAIN charges :
      /\ charges[j].pid = p /\ charges[j].pence = Owed(agreed[p])
      /\ charges[j].state = "success" \/ charges[j].trusted

(* A charge is started by the creator of its session or by an API key with a
   privilege; the right to look at every session is not one to pay for it. *)
OnlyOwnersPay ==
  \A j \in DOMAIN charges :
    LET w == charges[j].starter IN
    \/ w.id = session[charges[j].pid].owner
    \/ w.type = "key" /\ HasPrivilege(w, {"elevated", "payment"})

(* Whatever the caller and the outcome of the read, no interceptor or handler
   is reached without what it reads from the context: the order of each
   chain, and the route each is on. *)
ContextIsThere == ~lost

(* When PayPal has captured an order and the session is not paid, its costs
   changed on the way: PatchPaymentSession reads them again after the money
   was taken, and there is no status check for PayPal. *)
UnrecordedCaptureMeansDrift ==
  (\A s \in Slots : req[s].pc = "idle") /\ changes = 0 =>
    \A j \in DOMAIN charges :
      charges[j].account = "paypal" /\ charges[j].state = "success" =>
        session[charges[j].pid].status = "paid"

-----------------------------------------------------------------------------
(* The costs of p add up to its total, and name the account of charge j. *)
Settled(p, j) ==
  /\ GetPaymentSession(p) = "Success"
  /\ addGovPayHeaders(costs[p].items) = charges[j].account

(* Charge j, the last of p, succeeded, and p does not know. *)
AwaitsSuccess(p, j) ==
  /\ session[p].status = "in-progress" /\ session[p].method = "credit-card"
  /\ session[p].ref = j /\ charges[j].state = "success"

(* Costs that drift while a card payment is under way only delay it: once
   they add up again and name the account again, the status check closes the
   session, or it has been closed or moved on before. *)
DriftOnlyDelays ==
  \A p \in Payments, j \in 1 .. MaxCharges :
    <>[](j \in DOMAIN charges /\ Settled(p, j)) => (AwaitsSuccess(p, j) ~> ~AwaitsSuccess(p, j))
=============================================================================
