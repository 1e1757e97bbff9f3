------------------------ MODULE SessionPromiseProofs ------------------------
(***************************************************************************)
(* The payment journey implements SessionPromise, for any number of        *)
(* sessions, provider payments, concurrent requests and faults: every step *)
(* of a handler, a payer, a provider or the clock is one step of the       *)
(* promise or none.  What keeps a step within the promise is the invariant *)
(* IInv of the state before it.                                            *)
(***************************************************************************)
EXTENDS PaymentsProofs

(* The state of the promise. *)
stage == [p \in Payments |-> Stage(db[p])]
grounds == [p \in Payments |-> GroundsOf(p)]
told == [p \in Payments |-> sent[p] > 0]

Observed == <<stage, grounds, told>>

(* The grounds a provider's payment gives its session. *)
Given == {"charged", "cancelled", "ordered"}

Gives(x, g) ==
  \/ g = "charged" /\ MoneyTaken(x)
  \/ g = "cancelled" /\ x.state = "cancelled"
  \/ g = "ordered" /\ x.by = "paypal"

(* A session is open in the promise when it is in the invariant. *)
LEMMA OpenIsOpened ==
  ASSUME NEW p \in Payments PROVE Promise!Open(p) <=> OpenedIn(db, p)
BY DEF Promise!Open, Stage, OpenedIn, OpenStatuses

(* Where the grounds of a session come from. *)
LEMMA GroundsAre ==
  ASSUME NEW p
  PROVE  /\ GroundsOf(p) \subseteq Given \cup {"believed"}
         /\ \A g \in Given : g \in GroundsOf(p) <=> \E j \in Refs : ext[j].pid = p /\ Gives(ext[j], g)
         /\ "believed" \in GroundsOf(p) <=> p \in trusted
BY DEF GroundsOf, MadeFor, Given, Gives

(* After a step as before it. *)
LEMMA GroundsAreNext ==
  ASSUME NEW p
  PROVE  /\ GroundsOf(p)' \subseteq Given \cup {"believed"}
         /\ \A g \in Given : g \in GroundsOf(p)' <=> \E j \in Refs : ext'[j].pid = p /\ Gives(ext'[j], g)
         /\ "believed" \in GroundsOf(p)' <=> p \in trusted'
BY DEF GroundsOf, MadeFor, Given, Gives

(* Nothing observed changes. *)
LEMMA NothingSeen ==
  ASSUME \A p \in Payments : Stage(db'[p]) = Stage(db[p]),
         \A p \in Payments : GroundsOf(p)' = GroundsOf(p),
         \A p \in Payments : sent'[p] > 0 <=> sent[p] > 0
  PROVE  UNCHANGED Observed
BY DEF Observed, stage, grounds, told

(* The grounds of one session grow by one: Happens. *)
LEMMA GroundsFound ==
  ASSUME NEW p \in Payments, NEW g \in Promise!Grounds, OpenedIn(db, p),
         UNCHANGED <<stage, told>>,
         \A q \in Payments : q # p => GroundsOf(q)' = GroundsOf(q),
         GroundsOf(p)' = GroundsOf(p) \cup {g}
  PROVE  Promise!Next
<1>1. Promise!Open(p)
  BY OpenIsOpened
<1>2. grounds' = [grounds EXCEPT ![p] = @ \cup {g}]
  BY DEF grounds
<1>3. Promise!Happens(p)
  BY <1>1, <1>2 DEF Promise!Happens, stage, grounds, told
<1> QED
  BY <1>3 DEF Promise!Next

(* A message about a session with news: Tell. *)
LEMMA NewsTold ==
  ASSUME TypeOK, NEW p \in Payments, TellIn(ext, p), ProduceMessage(p),
         UNCHANGED <<stage, grounds>>
  PROVE  Promise!Next
<1>1. grounds[p] \cap Promise!NewsGrounds # {}
  <2>1. PICK j \in Refs : /\ ext[j].pid = p
                          /\ ext[j].by = "paypal" \/ ext[j].state \in {"success", "cancelled"}
    BY DEF TellIn, MadeIn
  <2>2. "ordered" \in GroundsOf(p) \/ "charged" \in GroundsOf(p) \/ "cancelled" \in GroundsOf(p)
    BY <2>1, GroundsAre DEF MoneyTaken, Gives, Given
  <2>3. grounds[p] = GroundsOf(p)
    BY DEF grounds
  <2> QED
    BY <2>2, <2>3 DEF Promise!NewsGrounds
<1>2. told' = [told EXCEPT ![p] = TRUE]
  <2>1. /\ DOMAIN told = Payments /\ \A q \in Payments : told[q] = (sent[q] > 0)
        /\ told' = [q \in Payments |-> sent'[q] > 0]
    BY DEF told
  <2>2. \A q \in Payments : sent'[q] > 0 <=> (q = p \/ sent[q] > 0)
    BY DEF TypeOK, ProduceMessage, MaxSent
  <2>3. ASSUME NEW q \in Payments PROVE (sent'[q] > 0) = (IF q = p THEN TRUE ELSE told[q])
    <3>1. CASE q = p
      <4>1. (sent'[q] > 0) = TRUE
        BY <2>2, <3>1
      <4> QED
        BY <3>1, <4>1, Zenon
    <3>2. CASE q # p
      <4>1. (sent'[q] > 0) = (sent[q] > 0)
        BY <2>2, <3>2
      <4> QED
        BY <2>1, <3>2, <4>1, Zenon
    <3> QED
      BY <3>1, <3>2
  <2>4. told' = [q \in Payments |-> IF q = p THEN TRUE ELSE told[q]]
    BY <2>1, <2>3, Zenon
  <2> QED
    BY <2>1, <2>4
<1>3. Promise!Tell(p)
  BY <1>1, <1>2 DEF Promise!Tell, stage, grounds, told
<1> QED
  BY <1>3 DEF Promise!Next

(* The stage of one session is set: Create, Choose or Conclude. *)
LEMMA StageSet ==
  ASSUME NEW p \in Payments, UNCHANGED <<grounds, told>>,
         \A q \in Payments : q # p => Stage(db'[q]) = Stage(db[q]),
         \/ Stage(db[p]) = "none" /\ Stage(db'[p]) = "pending"
         \/ Stage(db[p]) = "pending" /\ Stage(db'[p]) = "in-progress"
         \/ /\ OpenedIn(db, p) /\ Stage(db'[p]) \in {"in-progress", "paid", "unpaid"}
            /\ Stage(db'[p]) = "paid" => grounds[p] \cap Promise!PaidGrounds # {}
  PROVE  Promise!Next
<1>1. stage' = [stage EXCEPT ![p] = Stage(db'[p])] /\ stage[p] = Stage(db[p])
  BY DEF stage
<1>2. Promise!Create(p) \/ Promise!Choose(p) \/ Promise!Conclude(p)
  BY <1>1, OpenIsOpened DEF Promise!Create, Promise!Choose, Promise!Conclude, stage, grounds, told
<1> QED
  BY <1>2 DEF Promise!Next

-----------------------------------------------------------------------------
(* The steps. *)

(* Requests that compute, read or ask, the clock and failures go unseen. *)
LEMMA QuietStep ==
  ASSUME UNCHANGED <<db, ext, sent, trusted>> PROVE UNCHANGED Observed
BY NothingSeen DEF GroundsOf, MadeFor

(* Provider payment j of an open session becomes y, and gives at most g that
   it did not give before. *)
LEMMA ProviderStep ==
  ASSUME IInv, NEW j \in Refs, NEW y, ext' = [ext EXCEPT ![j] = y], UNCHANGED <<db, sent, trusted>>,
         y.pid \in Payments, OpenedIn(db, y.pid), ext[j].pid \in {y.pid, NoPayment},
         NEW g \in Given,
         \A h \in Given : ext[j].pid = y.pid /\ Gives(ext[j], h) => Gives(y, h),
         \A h \in Given : Gives(y, h) => h = g \/ (ext[j].pid = y.pid /\ Gives(ext[j], h))
  PROVE  Promise!Next \/ UNCHANGED Observed
<1> DEFINE p == y.pid
<1>1. ext'[j] = y /\ \A i \in Refs : i # j => ext'[i] = ext[i]
  BY DEF IInv, TypeOK
<1>2. ASSUME NEW q \in Payments, q # p PROVE GroundsOf(q)' = GroundsOf(q)
  <2>1. \A i \in Refs : ext'[i].pid = q <=> ext[i].pid = q
    BY <1>1, <1>2, StoreAssumption
  <2>2. \A i \in Refs : ext[i].pid = q => ext'[i] = ext[i]
    BY <1>1, <1>2, StoreAssumption
  <2>3. \A h \in Given \cup {"believed"} : h \in GroundsOf(q)' <=> h \in GroundsOf(q)
    BY <2>1, <2>2, GroundsAre, GroundsAreNext
  <2>4. \A h : h \in GroundsOf(q)' <=> h \in GroundsOf(q)
    BY <2>3, GroundsAre, GroundsAreNext
  <2> QED
    BY <2>4, Zenon
<1>3. \/ GroundsOf(p)' = GroundsOf(p)
      \/ GroundsOf(p)' = GroundsOf(p) \cup {g}
  <2> HIDE DEF p
  <2>1. ASSUME NEW h \in Given, h \in GroundsOf(p) PROVE h \in GroundsOf(p)'
    <3>1. PICK i \in Refs : ext[i].pid = p /\ Gives(ext[i], h)
      BY <2>1, GroundsAre
    <3>2. ext'[i].pid = p /\ Gives(ext'[i], h)
      BY <1>1, <3>1 DEF p
    <3> QED
      BY <3>2, GroundsAreNext
  <2>2. ASSUME NEW h \in Given, h \in GroundsOf(p)', h # g PROVE h \in GroundsOf(p)
    <3>1. PICK i \in Refs : ext'[i].pid = p /\ Gives(ext'[i], h)
      BY <2>2, GroundsAreNext
    <3>2. ext[i].pid = p /\ Gives(ext[i], h)
      BY <1>1, <2>2, <3>1 DEF p
    <3> QED
      BY <3>2, GroundsAre
  <2>3. "believed" \in GroundsOf(p)' <=> "believed" \in GroundsOf(p)
    BY GroundsAre, GroundsAreNext
  <2>4. \A h : h \in GroundsOf(p) => h \in GroundsOf(p)'
    BY <2>1, <2>3, GroundsAre
  <2>5. \A h : h \in GroundsOf(p)' => h = g \/ h \in GroundsOf(p)
    BY <2>2, <2>3, GroundsAreNext
  <2> QED
    BY <2>4, <2>5, Zenon
<1>4. UNCHANGED <<stage, told>>
  BY DEF stage, told
<1>5. CASE GroundsOf(p)' = GroundsOf(p)
  BY <1>2, <1>5, NothingSeen
<1>6. CASE GroundsOf(p)' = GroundsOf(p) \cup {g}
  <2>1. g \in Promise!Grounds
    BY DEF Given, Promise!Grounds
  <2> QED
    BY <1>2, <1>4, <1>6, <2>1, GroundsFound
<1> QED
  BY <1>3, <1>5, <1>6

(* A provider payment of an open session changes its state alone, and settles
   at most one question. *)
LEMMA StateStep ==
  ASSUME IInv, NEW j \in Refs, ext[j].pid \in Payments, ~MoneyTaken(ext[j]), ext[j].state # "cancelled",
         NEW c, ext' = [ext EXCEPT ![j].state = c], UNCHANGED <<db, sent, trusted>>
  PROVE  Promise!Next \/ UNCHANGED Observed
<1> DEFINE y == [ext[j] EXCEPT !.state = c]
           g == IF c = "cancelled" THEN "cancelled" ELSE "charged"
<1>1. y.pid = ext[j].pid /\ y.by = ext[j].by /\ y.state = c
  <2>1. ext[j] \in ProviderPayment
    BY DEF IInv, TypeOK
  <2> QED
    BY <2>1, FieldsStay
<1>2. ext' = [ext EXCEPT ![j] = y] /\ OpenedIn(db, y.pid)
  BY <1>1, InCollection
<1>3. g \in Given
  BY DEF Given
<1>4. \A h \in Given : ext[j].pid = y.pid /\ Gives(ext[j], h) => Gives(y, h)
  BY <1>1 DEF Gives
<1>5. \A h \in Given : Gives(y, h) => h = g \/ (ext[j].pid = y.pid /\ Gives(ext[j], h))
  BY <1>1 DEF Gives, MoneyTaken
<1>6. y.pid \in Payments
  BY <1>1
<1>7. ext[j].pid \in {y.pid, NoPayment}
  BY <1>1
<1>8. UNCHANGED <<db, sent, trusted>>
  OBVIOUS
<1> HIDE DEF y, g
<1> QED
  BY <1>2, <1>3, <1>4, <1>5, <1>6, <1>7, <1>8, ProviderStep

(* A payment in a state is the payment of a session. *)
LEMMA MadeForOne ==
  ASSUME IInv, NEW j \in Refs, ext[j].state # "none" PROVE ext[j].pid \in Payments
<1>1. ext[j] \in ProviderPayment
  BY DEF IInv, TypeOK
<1>2. ext[j] # [pid |-> NoPayment, by |-> "none", state |-> "none"]
  OBVIOUS
<1> QED
  BY <1>1, <1>2 DEF ProviderPayment

(* Moves of the payer, of GOV.UK Pay's clock and of a capture. *)
LEMMA SeenMoves ==
  ASSUME IInv, NEW j \in Refs, GovPayMoves(j) \/ PayPalApproved(j)
  PROVE  Promise!Next \/ UNCHANGED Observed
<1>1. PICK c : ext' = [ext EXCEPT ![j].state = c]
  BY DEF GovPayMoves, PayPalApproved
<1>2. ext[j].state \in {"created", "started"} /\ UNCHANGED <<db, sent, trusted>>
  BY DEF GovPayMoves, PayPalApproved
<1>3. ext[j].pid \in Payments
  BY <1>2, MadeForOne
<1> QED
  BY <1>1, <1>2, <1>3, StateStep DEF MoneyTaken

LEMMA SeenCapture ==
  ASSUME IInv, NEW s \in Slots, CapturePayment(s)
  PROVE  Promise!Next \/ UNCHANGED Observed
<1> DEFINE j == req[s].sess.ref
<1>1. UNCHANGED <<db, sent, trusted>>
  BY DEF CapturePayment
<1>2. j \in Refs
  BY InSlot DEF CapturePayment, RequestOK, InHand
<1>3. CASE UNCHANGED ext
  BY <1>1, <1>3, QuietStep
<1>4. ASSUME ext[j].state = "approved", NEW c \in CaptureStates, ext' = [ext EXCEPT ![j].state = c]
      PROVE  Promise!Next \/ UNCHANGED Observed
  <2> HIDE DEF j
  <2>1. ext[j].pid \in Payments
    BY <1>2, <1>4, MadeForOne
  <2> QED
    BY <1>1, <1>2, <1>4, <2>1, StateStep DEF MoneyTaken
<1> QED
  BY <1>3, <1>4 DEF CapturePayment

(* An order placed at PayPal, or a card payment made. *)
LEMMA SeenCreateAtProvider ==
  ASSUME IInv, NEW s \in Slots, CreateAtProvider(s)
  PROVE  Promise!Next \/ UNCHANGED Observed
<1> DEFINE q == req[s]
<1>1. q.pid \in Payments /\ OpenedIn(db, q.pid) /\ UNCHANGED <<db, sent, trusted>>
  BY InSlot DEF CreateAtProvider, InHand, Patching
<1>2. CASE UNCHANGED ext
  BY <1>1, <1>2, QuietStep
<1>3. ASSUME NEW j \in Refs, ext[j] = NotMade,
             ext' = [ext EXCEPT ![j] =
                       [pid |-> q.pid, state |-> "reserved",
                        by |-> IF q.sess.method = "credit-card" THEN "govpay" ELSE "paypal"]]
      PROVE  Promise!Next \/ UNCHANGED Observed
  <2> DEFINE y == [pid |-> q.pid, state |-> "reserved",
                   by |-> IF q.sess.method = "credit-card" THEN "govpay" ELSE "paypal"]
  <2>1. y.pid = q.pid /\ y.state = "reserved" /\ ext' = [ext EXCEPT ![j] = y]
    BY <1>3
  <2>2. ext[j].pid = NoPayment /\ "ordered" \in Given
    BY <1>3 DEF NotMade, Given
  <2> HIDE DEF y, q
  <2>3. \A h \in Given : ext[j].pid = y.pid /\ Gives(ext[j], h) => Gives(y, h)
    BY <1>1, <2>1, <2>2, StoreAssumption
  <2>4. \A h \in Given : Gives(y, h) => h = "ordered"
    BY <2>1 DEF Gives, MoneyTaken
  <2>5. y.pid \in Payments /\ OpenedIn(db, y.pid) /\ ext[j].pid \in {y.pid, NoPayment}
    BY <1>1, <2>1, <2>2
  <2>6. UNCHANGED <<db, sent, trusted>>
    BY <1>1
  <2> HIDE <1>3
  <2> QED
    BY <2>1, <2>2, <2>3, <2>4, <2>5, <2>6, ProviderStep
<1> QED
  BY <1>2, <1>3 DEF CreateAtProvider

(* Nobody's grounds depend on the collection, the requests or the messages. *)
LEMMA GroundsKept ==
  ASSUME UNCHANGED trusted, NEW p \in Payments,
         \A j \in Refs : ext[j].pid = p \/ ext'[j].pid = p =>
           /\ ext'[j].pid = ext[j].pid /\ ext'[j].by = ext[j].by
           /\ ext'[j].state = ext[j].state \/ {ext[j].state, ext'[j].state} \subseteq {"reserved", "created"}
  PROVE  GroundsOf(p)' = GroundsOf(p)
<1>1. \A h \in Given \cup {"believed"} : h \in GroundsOf(p)' <=> h \in GroundsOf(p)
  <2>1. "believed" \in GroundsOf(p)' <=> "believed" \in GroundsOf(p)
    BY GroundsAre, GroundsAreNext
  <2>2. \A j \in Refs : ext'[j].pid = p <=> ext[j].pid = p
    OBVIOUS
  <2>3. \A j \in Refs, h \in Given : ext[j].pid = p => (Gives(ext'[j], h) <=> Gives(ext[j], h))
    BY DEF Gives, MoneyTaken
  <2> QED
    BY <2>1, <2>2, <2>3, GroundsAre, GroundsAreNext
<1>2. \A h : h \in GroundsOf(p)' <=> h \in GroundsOf(p)
  BY <1>1, GroundsAre, GroundsAreNext
<1> QED
  BY <1>2, Zenon

(* The write of an update: the session opens, or something is concluded. *)
LEMMA WriteStep ==
  ASSUME IInv, NEW s \in Slots, InHand(req[s]), req[s].pc # "patch-read",
         db' = [db EXCEPT ![req[s].pid] = PatchPaymentResource(@, req[s].upd)],
         \A q \in Payments : GroundsOf(q)' = GroundsOf(q), UNCHANGED sent
  PROVE  Promise!Next
<1> DEFINE p == req[s].pid
           upd == req[s].upd
           doc == PatchPaymentResource(db[p], upd)
<1>1. /\ p \in Payments /\ upd \in PaymentResource /\ upd.status # "pending"
      /\ upd.status = "paid" => PayIn(ext, trusted, p)
      /\ OpenedIn(db, p) \/ upd.status = "in-progress"
      /\ db[p].status # ""
  <2>1. RequestOK(db, ext, trusted, req[s]) /\ p \in Payments /\ upd \in PaymentResource
    BY InSlot
  <2>2. Choosing(req[s]) => upd.status = "in-progress"
    BY DEF Choosing, Patching, Blank
  <2> QED
    BY <2>1, <2>2 DEF RequestOK
<1>2. db[p] \in PaymentResource /\ (db[p].status = "paid" => PayIn(ext, trusted, p))
  BY <1>1, InCollection DEF SessionOK
<1>3. db'[p] = doc /\ \A q \in Payments : q # p => db'[q] = db[q]
  BY <1>1 DEF IInv, TypeOK
<1>4. doc.status = IF upd.status = "" THEN db[p].status ELSE upd.status
  BY DEF PatchPaymentResource
<1> HIDE DEF p, upd, doc
<1>5. PayIn(ext, trusted, p) => grounds[p] \cap Promise!PaidGrounds # {}
  <2> SUFFICES ASSUME PayIn(ext, trusted, p) PROVE grounds[p] \cap Promise!PaidGrounds # {}
    OBVIOUS
  <2>1. "charged" \in GroundsOf(p) \/ "believed" \in GroundsOf(p)
    BY GroundsAre DEF PayIn, MadeIn, Gives, Given
  <2>2. grounds[p] = GroundsOf(p)
    BY <1>1 DEF grounds
  <2> QED
    BY <2>1, <2>2 DEF Promise!PaidGrounds
<1>6. UNCHANGED <<grounds, told>>
  BY DEF grounds, told
<1>7. CASE OpenedIn(db, p)
  <2>1. doc.status \notin OpenStatuses
    BY <1>1, <1>4, <1>7 DEF OpenedIn, OpenStatuses
  <2>2. Stage(doc) \in {"in-progress", "paid", "unpaid"}
    BY <2>1 DEF Stage, OpenStatuses
  <2>3. Stage(doc) = "paid" => doc.status = "paid"
    BY DEF Stage
  <2>4. Stage(doc) = "paid" => grounds[p] \cap Promise!PaidGrounds # {}
    BY <1>1, <1>2, <1>4, <1>5, <2>3
  <2> QED
    BY <1>1, <1>3, <1>6, <1>7, <2>2, <2>4, StageSet
<1>8. CASE ~OpenedIn(db, p)
  <2>1. db[p].status = "pending" /\ doc.status = "in-progress"
    BY <1>1, <1>4, <1>8 DEF OpenedIn, OpenStatuses
  <2>2. Stage(db[p]) = "pending" /\ Stage(doc) = "in-progress"
    BY <2>1 DEF Stage
  <2> QED
    BY <1>1, <1>3, <1>6, <2>2, StageSet
<1> QED
  BY <1>7, <1>8

LEMMA SeenPatchWrite ==
  ASSUME IInv, NEW s \in Slots, PatchWrite(s) PROVE Promise!Next
<1>1. /\ InHand(req[s]) /\ req[s].pc # "patch-read"
      /\ db' = [db EXCEPT ![req[s].pid] = PatchPaymentResource(@, req[s].upd)]
      /\ UNCHANGED <<ext, trusted, sent>>
  BY DEF PatchWrite, outside, InHand
<1>2. \A q \in Payments : GroundsOf(q)' = GroundsOf(q)
  BY <1>1 DEF GroundsOf, MadeFor
<1> QED
  BY <1>1, <1>2, WriteStep

LEMMA SeenStore ==
  ASSUME IInv, NEW s \in Slots, StoreExternalPaymentStatusDetails(s) PROVE Promise!Next
<1> DEFINE j == req[s].upd.ref
<1>1. /\ InHand(req[s]) /\ req[s].pc # "patch-read"
      /\ db' = [db EXCEPT ![req[s].pid] = PatchPaymentResource(@, req[s].upd)]
      /\ UNCHANGED <<trusted, sent>>
      /\ ext' = [ext EXCEPT ![j].state = "created"]
  BY DEF StoreExternalPaymentStatusDetails, InHand
<1>2. j \in Refs /\ ext[j].state = "reserved"
  BY InSlot DEF StoreExternalPaymentStatusDetails, RequestOK, InHand
<1> HIDE DEF j
<1>3. /\ ext'[j].pid = ext[j].pid /\ ext'[j].by = ext[j].by /\ ext'[j].state = "created"
      /\ \A i \in Refs : i # j => ext'[i] = ext[i]
  <2>1. ext \in [Refs -> ProviderPayment]
    BY DEF IInv, TypeOK
  <2> QED
    BY <1>1, <1>2, <2>1, FieldsStay
<1>4. \A q \in Payments : GroundsOf(q)' = GroundsOf(q)
  BY <1>1, <1>2, <1>3, GroundsKept
<1> QED
  BY <1>1, <1>4, WriteStep

LEMMA SeenCreate ==
  ASSUME IInv, NEW p \in Payments, CreatePaymentSession(p) PROVE Promise!Next
<1>1. /\ db[p].status = "" /\ db'[p] = NewResource /\ UNCHANGED <<ext, trusted, sent>>
      /\ \A q \in Payments : q # p => db'[q] = db[q]
  BY DEF CreatePaymentSession, outside, IInv, TypeOK
<1>2. Stage(db[p]) = "none" /\ Stage(db'[p]) = "pending"
  BY <1>1 DEF Stage, NewResource, Blank
<1>3. UNCHANGED <<grounds, told>>
  BY <1>1 DEF grounds, told, GroundsOf, MadeFor
<1> QED
  BY <1>1, <1>2, <1>3, StageSet

(* A message. *)
LEMMA SeenMessage ==
  ASSUME IInv, NEW s \in Slots, Announce(s) \/ CheckAnnounces(s) PROVE Promise!Next
<1>1. /\ ProduceMessage(req[s].pid) /\ UNCHANGED <<db, ext, trusted>>
      /\ req[s].pc \in {"announce", "sweep-announce"}
  BY DEF Announce, CheckAnnounces, outside
<1>2. req[s].pid \in Payments /\ TellIn(ext, req[s].pid)
  BY <1>1, InSlot DEF InHand, RequestOK
<1>3. UNCHANGED <<stage, grounds>>
  BY <1>1 DEF stage, grounds, GroundsOf, MadeFor
<1>4. TypeOK
  BY DEF IInv
<1> QED
  BY <1>1, <1>2, <1>3, <1>4, NewsTold

(* The answer "created" is believed. *)
LEMMA SeenGovPayStatus ==
  ASSUME IInv, NEW s \in Slots, GovPayCallbackStatus(s)
  PROVE  Promise!Next \/ UNCHANGED Observed
<1>1. PICK p \in Payments :
        /\ OpenedIn(db, p) /\ UNCHANGED <<db, ext, sent>>
        /\ trusted' = trusted \/ trusted' = trusted \cup {p}
  BY InSlot DEF GovPayCallbackStatus, InHand, Patching
<1>2. CASE trusted' = trusted
  BY <1>1, <1>2, QuietStep
<1>3. CASE trusted' = trusted \cup {p}
  <2>1. \A q \in Payments, h \in Given : h \in GroundsOf(q)' <=> h \in GroundsOf(q)
    BY <1>1, GroundsAre, GroundsAreNext
  <2>2. \A q \in Payments : \A h :
          h \in GroundsOf(q)' <=> (h \in GroundsOf(q) \/ (q = p /\ h = "believed"))
    BY <1>3, <2>1, GroundsAre, GroundsAreNext
  <2>3. \A q \in Payments : q # p => GroundsOf(q)' = GroundsOf(q)
    <3> SUFFICES ASSUME NEW q \in Payments, q # p PROVE GroundsOf(q)' = GroundsOf(q)
      OBVIOUS
    <3>1. \A h : h \in GroundsOf(q)' <=> h \in GroundsOf(q)
      BY <2>2
    <3> QED
      BY <3>1, Zenon
  <2>4. GroundsOf(p)' = GroundsOf(p) \cup {"believed"}
    <3>1. \A h : h \in GroundsOf(p)' <=> (h \in GroundsOf(p) \/ h = "believed")
      BY <2>2
    <3> QED
      BY <3>1, Zenon
  <2>5. UNCHANGED <<stage, told>>
    BY <1>1 DEF stage, told
  <2>6. "believed" \in Promise!Grounds
    BY DEF Promise!Grounds
  <2> QED
    BY <1>1, <2>3, <2>4, <2>5, <2>6, GroundsFound
<1> QED
  BY <1>1, <1>2, <1>3

-----------------------------------------------------------------------------
(* The theorem. *)

LEMMA FirstPromise == Init => Promise!Init
<1> SUFFICES ASSUME Init PROVE Promise!Init
  OBVIOUS
<1>1. ASSUME NEW p \in Payments
      PROVE  Stage(db[p]) = "none" /\ GroundsOf(p) = {} /\ sent[p] = 0
  <2>1. db[p] = Blank /\ sent[p] = 0
    BY DEF Init
  <2>2. \A j \in Refs : ext[j].pid # p
    BY StoreAssumption DEF Init, NotMade
  <2>3. GroundsOf(p) = {}
    BY <2>2 DEF GroundsOf, MadeFor, Init
  <2>4. Blank.status = ""
    BY DEF Blank
  <2> QED
    BY <2>1, <2>3, <2>4 DEF Stage
<1>2. [p \in Payments |-> sent[p] > 0] = [p \in Payments |-> FALSE]
  <2>1. ASSUME NEW p \in Payments PROVE (sent[p] > 0) = FALSE
    <3>1. sent[p] = 0
      BY <1>1
    <3> QED
      BY <3>1
  <2> QED
    BY <2>1, Zenon
<1> QED
  BY <1>1, <1>2 DEF Promise!Init

LEMMA NextPromise == IInv /\ [Next]_vars => [Promise!Next]_Observed
<1> SUFFICES ASSUME IInv, [Next]_vars PROVE Promise!Next \/ UNCHANGED Observed
  OBVIOUS
<1>1. ASSUME NEW s \in Slots, Arrive(s) PROVE UNCHANGED Observed
  BY <1>1, QuietStep DEF Arrive, HandlePatchPaymentSession, CreateExternalPaymentJourney,
     HandleGovPayCallback, HandlePayPalCallback, HandleCheckPaymentStatus, outside
<1>2. ASSUME NEW s \in Slots, CheckContinues(s) \/ RequestDies(s) PROVE UNCHANGED Observed
  BY <1>2, QuietStep DEF CheckContinues, RequestDies
<1>3. ASSUME NEW s \in Slots,
             \/ PatchRead(s) \/ PayPalOrderStatus(s)
             \/ CheckNext(s) \/ CheckSkips(s) \/ CheckFinds(s)
      PROVE  UNCHANGED Observed
  BY <1>3, QuietStep DEF PatchRead, PayPalOrderStatus, CheckNext, CheckSkips, CheckFinds, outside
<1>4. ASSUME NEW s \in Slots, Proceed(s) PROVE Promise!Next \/ UNCHANGED Observed
  BY <1>3, <1>4, SeenPatchWrite, SeenMessage, SeenCreateAtProvider, SeenStore, SeenGovPayStatus,
     SeenCapture
  DEF Proceed
<1>5. CASE Tick \/ UNCHANGED vars
  BY <1>5, QuietStep DEF Tick, vars
<1> QED
  BY <1>1, <1>2, <1>4, <1>5, SeenCreate, SeenMoves DEF Next

(* Every behaviour of the payment journey is a behaviour of SessionPromise:
   PatchPaymentSession, the journey, the callbacks and the status check open
   each session once and in order, and rewrite and announce it on grounds. *)
THEOREM JourneyKeepsPromise == Spec => KeepsPromise
<1>1. [Promise!Next]_Observed <=> [Promise!Next]_<<[p \in Payments |-> Stage(db[p])],
                                                   [p \in Payments |-> GroundsOf(p)],
                                                   [p \in Payments |-> sent[p] > 0]>>
  BY DEF Observed, stage, grounds, told
<1> QED
  BY <1>1, FirstPromise, NextPromise, Safe, PTL DEF Spec, KeepsPromise, Promise!Spec
=============================================================================
