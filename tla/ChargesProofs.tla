---------------------------- MODULE ChargesProofs ----------------------------
(***************************************************************************)
(* What payers are charged, for any costs service, any costs it may offer, *)
(* any callers, and any number of payments, charges and requests at once.  *)
(***************************************************************************)
EXTENDS ChargesInvariants, SumProofs, SequenceTheorems

(* What is owed, and how it is written: the text of a sum says the sum, and
   without its point it says it in pence. *)
LEMMA OwedIs ==
  ASSUME NEW items \in Seq(Cost) PROVE Owed(items) \in Nat
<1> DEFINE S == DOMAIN items
           Is(h) == h = [s \in SUBSET S |->
                           IF s = {} THEN 0
                           ELSE LET x == CHOOSE x \in s : TRUE
                                IN Pence(items[x].amount) + h[s \ {x}]]
           h == CHOOSE h : Is(h)
           f == [x \in S |-> Pence(items[x].amount)]
<1>1. IsFiniteSet(S)
  <2>1. S = 1 .. Len(items) /\ Len(items) \in Nat
    OBVIOUS
  <2> QED
    BY <2>1, FS_Interval
<1>2. ASSUME NEW i \in S PROVE Pence(items[i].amount) \in Nat
  <2> DEFINE text == items[i].amount
  <2>1. items[i] \in Cost
    OBVIOUS
  <2>2. text \in AmountText
    BY <2>1 DEF Cost
  <2> HIDE DEF text
  <2>3. text.pounds \in Nat /\ text.pence \in 0 .. 99
    BY <2>2 DEF AmountText
  <2>4. \A n \in Nat, m \in 0 .. 99 : n * 100 + m \in Nat /\ n * 100 + 0 \in Nat
    OBVIOUS
  <2>5. Pence(text) \in Nat
    BY <2>3, <2>4 DEF Pence
  <2> QED
    BY <2>5 DEF text
<1>3. \A x \in S : f[x] = Pence(items[x].amount) /\ f[x] \in Nat
  BY <1>2
<1>4. Owed(items) = h[S]
  BY DEF Owed, MapThenSumSet, MapThenFoldSet
<1> HIDE DEF f
<1>5. PICK g : Sums(f, S, g)
  BY <1>1, SumsExist
<1>6. ASSUME NEW e PROVE Is(e) <=> Sums(f, S, e)
  <2>1. \A s \in SUBSET S : s # {} => f[Pick(s)] = Pence(items[CHOOSE x \in s : TRUE].amount)
    BY <1>3 DEF Pick
  <2>2. [s \in SUBSET S |->
           IF s = {} THEN 0
           ELSE LET x == CHOOSE x \in s : TRUE IN Pence(items[x].amount) + e[s \ {x}]]
        = [s \in SUBSET S |-> IF s = {} THEN 0 ELSE f[Pick(s)] + e[s \ {Pick(s)}]]
    BY <2>1 DEF Pick
  <2> QED
    BY <2>2 DEF Sums
<1>7. Is(h)
  <2> HIDE DEF Is
  <2>1. Is(g)
    BY <1>5, <1>6
  <2> QED
    BY <2>1
<1> HIDE DEF h, Is
<1>8. h[S] \in Nat
  BY <1>1, <1>3, <1>6, <1>7, SumsType
<1> QED
  BY <1>4, <1>8

LEMMA TextSays ==
  ASSUME NEW items \in Seq(Cost)
  PROVE  /\ getTotalAmount(items) \in AmountText
         /\ convertToPenceFromDecimal(getTotalAmount(items)) = Owed(items)
         /\ Pence(getTotalAmount(items)) = Owed(items)
<1> DEFINE owed == Owed(items)
           text == getTotalAmount(items)
<1>1. owed \in Nat
  BY OwedIs
<1> HIDE DEF owed
<1>2. /\ owed \div 100 \in Nat /\ owed % 100 \in 0 .. 99
      /\ (owed \div 100) * 100 + (owed % 100) = owed
  BY <1>1
<1>3. text = [form |-> "pounds.pence", pounds |-> owed \div 100, pence |-> owed % 100]
  BY DEF getTotalAmount, owed
<1> HIDE DEF text
<1>4. text.form = "pounds.pence" /\ text.pounds = owed \div 100 /\ text.pence = owed % 100
  BY <1>3
<1>5. text \in AmountText
  BY <1>2, <1>3 DEF AmountText
<1>6. convertToPenceFromDecimal(text) = owed /\ Pence(text) = owed
  BY <1>2, <1>4 DEF convertToPenceFromDecimal, Pence
<1> QED
  BY <1>5, <1>6 DEF text, owed

(* Names of classes: the account of one, and what gets through in second to
   tenth place. *)
LEMMA ClassIs ==
  ASSUME NEW c \in Classes
  PROVE  /\ AccountOf[c] \in {"ch", "legacy", "treasury", "sanctions", "none"}
         /\ \A j \in 1 .. 9 : j \in FirstByteAt[c] => AccountOf[c] = "none"
<1>1. CASE c \in OtherClasses
  <2>1. c \notin KnownClasses
    BY <1>1, ClassesAssumption
  <2>2. AccountOf[c] = "none"
    BY <1>1, <2>1 DEF AccountOf, KnownClasses
  <2> QED
    BY <2>2
<1>2. CASE c \in KnownClasses
  <2>1. c \notin OtherClasses
    BY <1>2, ClassesAssumption
  <2>2. AccountOf[c] \in {"ch", "legacy", "treasury", "sanctions"}
    BY <1>2, <2>1 DEF AccountOf, KnownClasses
  <2>3. FirstByteAt[c] = IF c = "penalty-lfp" THEN {0, 10} ELSE {0}
    BY <2>1 DEF FirstByteAt
  <2>4. \A j \in 1 .. 9 : j # 0 /\ j # 10
    OBVIOUS
  <2>5. \A j \in 1 .. 9 : j \notin FirstByteAt[c]
    BY <2>3, <2>4
  <2> QED
    BY <2>2, <2>5
<1> QED
  BY <1>1, <1>2 DEF Classes

(* Where validation passes, the first class of one cost decides for every
   cost, and no class beside a first one is of another account. *)
LEMMA AccountIs ==
  ASSUME NEW items \in Seq(Cost), addGovPayHeaders(items) # "none"
  PROVE  /\ addGovPayHeaders(items) \in {"ch", "legacy", "treasury", "sanctions"}
         /\ validateClassOfPayment(items) =>
              \A i \in DOMAIN items :
                /\ items[i].classes # <<>>
                /\ AccountOf[items[i].classes[1]] = addGovPayHeaders(items)
                /\ \A k \in 2 .. 10 :
                     k \in DOMAIN items[i].classes => AccountOf[items[i].classes[k]] = "none"
<1>1. items # <<>> /\ 1 \in DOMAIN items /\ items[1].classes # <<>>
  BY EmptySeq DEF addGovPayHeaders
<1>2. ASSUME NEW i \in DOMAIN items PROVE items[i].classes \in Seq(Classes)
  <2>1. items[i] \in Cost
    OBVIOUS
  <2> QED
    BY <2>1 DEF Cost
<1>3. items[1].classes[1] \in Classes
  BY <1>1, <1>2, EmptySeq
<1>4. addGovPayHeaders(items) = AccountOf[items[1].classes[1]]
  BY <1>1 DEF addGovPayHeaders
<1>5. addGovPayHeaders(items) \in {"ch", "legacy", "treasury", "sanctions"}
  BY <1>3, <1>4, ClassIs
<1>6. ASSUME validateClassOfPayment(items), NEW i \in DOMAIN items
      PROVE  /\ items[i].classes # <<>>
             /\ AccountOf[items[i].classes[1]] = addGovPayHeaders(items)
             /\ \A k \in 2 .. 10 :
                  k \in DOMAIN items[i].classes => AccountOf[items[i].classes[k]] = "none"
  <2>1. OneClass(items[i]) /\ items[i].classes[1] = items[1].classes[1]
    BY <1>6 DEF validateClassOfPayment
  <2>2. ASSUME NEW k \in 2 .. 10, k \in DOMAIN items[i].classes
        PROVE  AccountOf[items[i].classes[k]] = "none"
    <3>1. k - 1 \in FirstByteAt[items[i].classes[k]] /\ items[i].classes[k] \in Classes
      BY <1>2, <2>1, <2>2 DEF OneClass
    <3>2. k - 1 \in 1 .. 9
      OBVIOUS
    <3> QED
      BY <3>1, <3>2, ClassIs
  <2> QED
    BY <1>4, <2>1, <2>2 DEF OneClass
<1> QED
  BY <1>5, <1>6

-----------------------------------------------------------------------------
(* Who is let in: the interceptors of the two routes that matter here, and
   the order of every chain. *)

LEMMA LetIn ==
  ASSUME NEW w, NEW owner, NEW lookup
  PROVE  /\ Admitted("patch-payment", w, owner, lookup) => lookup = "Success"
         /\ Admitted("create-external-payment-journey", w, owner, lookup) =>
              lookup = "Success" /\ MayPay(w, owner)
<1> DEFINE journey == "create-external-payment-journey"
<1>1. /\ Routes["patch-payment"] = Route("PATCH", <<"user", "payment">>, {"payment-session"})
      /\ Routes[journey] = Route("POST", <<"user", "payment">>, {"payment-session"})
  BY DEF Routes, RouteNames
<1>2. ASSUME NEW r \in {"patch-payment", journey}, Admitted(r, w, owner, lookup)
      PROVE  PaymentAuthentication(w, Routes[r].method, owner, lookup) /\ Routes[r].method # "GET"
  <2>1. /\ Routes[r].chain = <<"user", "payment">> /\ Routes[r].method \in {"PATCH", "POST"}
    BY <1>1 DEF Route
  <2>2. Reaches(r, 3, w, owner, lookup)
    BY <1>2, <2>1 DEF Admitted
  <2>3. Passes("payment", w, Routes[r].method, owner, lookup)
    BY <2>1, <2>2 DEF Reaches
  <2> QED
    BY <2>1, <2>3 DEF Passes
<1> QED
  BY <1>2 DEF PaymentAuthentication, MayPay

(* No chain runs an interceptor, or the handler, before what it reads is there. *)
LEMMA NothingLost ==
  ASSUME NEW r \in RouteNames, NEW w, NEW owner, NEW lookup
  PROVE  ~ Loses(r, w, owner, lookup)
<1> DEFINE chain == Routes[r].chain
           Found(k) == Needed(r, k) \subseteq Context(r, k)
<1>1. \/ chain = <<>> /\ Routes[r].needs = {}
      \/ chain \in {<<"internal">>, <<"elevated">>} /\ Routes[r].needs = {}
      \/ chain = <<"oauth2", "user">> /\ Routes[r].needs = {"user-details"}
      \/ chain = <<"user", "payment">> /\ Routes[r].needs = {"payment-session"}
      \/ chain = <<"user", "internal", "payment">> /\ Routes[r].needs = {"payment-session"}
      \/ chain = <<"user", "admin">> /\ Routes[r].needs \in {{}, {"user-id"}}
  BY DEF RouteNames, Routes, Route
<1> HIDE DEF chain
<1>2. \A k \in 1 .. Len(chain) + 1 :
        /\ Needed(r, k) = IF k <= Len(chain) THEN Reads(chain[k]) ELSE Routes[r].needs
        /\ \A i \in 1 .. k - 1 : Adds(chain[i]) \subseteq Context(r, k)
  BY DEF Needed, Context, chain
<1>3. ASSUME NEW k \in 1 .. Len(chain) + 1 PROVE Found(k)
  <2>1. CASE chain = <<>> /\ Routes[r].needs = {}
    <3>1. Needed(r, k) = {}
      BY <1>2, <2>1
    <3> QED
      BY <3>1
  <2>2. CASE chain \in {<<"internal">>, <<"elevated">>} /\ Routes[r].needs = {}
    <3>1. Len(chain) = 1 /\ chain[1] \in {"internal", "elevated"}
      BY <2>2
    <3>2. Needed(r, k) = {}
      BY <1>2, <2>2, <3>1 DEF Reads
    <3> QED
      BY <3>2
  <2>3. CASE chain = <<"oauth2", "user">> /\ Routes[r].needs = {"user-details"}
    <3>1. Len(chain) = 2 /\ chain[1] = "oauth2" /\ chain[2] = "user"
      BY <2>3
    <3>2. CASE k = 3
      <4>1. Adds(chain[2]) \subseteq Context(r, k) /\ Needed(r, k) = {"user-details"}
        BY <1>2, <2>3, <3>1, <3>2
      <4> QED
        BY <3>1, <4>1 DEF Adds
    <3>3. CASE k # 3
      <4>1. Needed(r, k) = {}
        BY <1>2, <3>1, <3>3 DEF Reads
      <4> QED
        BY <4>1
    <3> QED
      BY <3>2, <3>3
  <2>4. CASE chain = <<"user", "payment">> /\ Routes[r].needs = {"payment-session"}
    <3>1. Len(chain) = 2 /\ chain[1] = "user" /\ chain[2] = "payment"
      BY <2>4
    <3>2. CASE k = 1
      BY <1>2, <3>1, <3>2 DEF Reads
    <3>3. CASE k = 2
      <4>1. Adds(chain[1]) \subseteq Context(r, k) /\ Needed(r, k) = Reads(chain[2])
        BY <1>2, <3>1, <3>3
      <4> QED
        BY <3>1, <4>1 DEF Adds, Reads
    <3>4. CASE k = 3
      <4>1. Adds(chain[2]) \subseteq Context(r, k) /\ Needed(r, k) = {"payment-session"}
        BY <1>2, <2>4, <3>1, <3>4
      <4> QED
        BY <3>1, <4>1 DEF Adds
    <3> QED
      BY <3>1, <3>2, <3>3, <3>4
  <2>5. CASE chain = <<"user", "internal", "payment">> /\ Routes[r].needs = {"payment-session"}
    <3>1. Len(chain) = 3 /\ chain[1] = "user" /\ chain[2] = "internal" /\ chain[3] = "payment"
      BY <2>5
    <3>2. CASE k \in {1, 2}
      <4>1. Needed(r, k) = {}
        BY <1>2, <3>1, <3>2 DEF Reads
      <4> QED
        BY <4>1
    <3>3. CASE k = 3
      <4>1. Adds(chain[1]) \subseteq Context(r, k) /\ Needed(r, k) = Reads(chain[3])
        BY <1>2, <3>1, <3>3
      <4> QED
        BY <3>1, <4>1 DEF Adds, Reads
    <3>4. CASE k = 4
      <4>1. Adds(chain[3]) \subseteq Context(r, k) /\ Needed(r, k) = {"payment-session"}
        BY <1>2, <2>5, <3>1, <3>4
      <4> QED
        BY <3>1, <4>1 DEF Adds
    <3> QED
      BY <3>1, <3>2, <3>3, <3>4
  <2>6. CASE chain = <<"user", "admin">> /\ Routes[r].needs \in {{}, {"user-id"}}
    <3>1. Len(chain) = 2 /\ chain[1] = "user" /\ chain[2] = "admin"
      BY <2>6
    <3>2. CASE k = 1
      BY <1>2, <3>1, <3>2 DEF Reads
    <3>3. CASE k = 2
      <4>1. Adds(chain[1]) \subseteq Context(r, k) /\ Needed(r, k) = Reads(chain[2])
        BY <1>2, <3>1, <3>3
      <4> QED
        BY <3>1, <4>1 DEF Adds, Reads
    <3>4. CASE k = 3
      <4>1. Adds(chain[2]) \subseteq Context(r, k) /\ Needed(r, k) \in {{}, {"user-id"}}
        BY <1>2, <2>6, <3>1, <3>4
      <4> QED
        BY <3>1, <4>1 DEF Adds
    <3> QED
      BY <3>1, <3>2, <3>3, <3>4
  <2> QED
    BY <1>1, <2>1, <2>2, <2>3, <2>4, <2>5, <2>6
<1> QED
  BY <1>3 DEF Loses, chain

-----------------------------------------------------------------------------
(* What is true stays true: sessions keep their owner and what was agreed,
   charges all but their state, and that too once they succeeded. *)

Later(b, a, b2, a2) ==
  \A p \in Payments : b[p].status # "" =>
    b2[p].status # "" /\ b2[p].owner = b[p].owner /\ a2[p] = a[p]

SameCharge(x, y) ==
  /\ y.pid = x.pid /\ y.pence = x.pence /\ y.items = x.items
  /\ y.account = x.account /\ y.starter = x.starter
  /\ x.state = "success" => y.state = "success"
  /\ x.trusted => y.trusted

Grown(c, c2) == \A j \in DOMAIN c : j \in DOMAIN c2 /\ SameCharge(c[j], c2[j])

LEMMA GroundsStay ==
  ASSUME NEW c, NEW c2, Grown(c, c2), NEW p
  PROVE  /\ Grounds(c, p) => Grounds(c2, p)
         /\ \A j : ChargeOf(c, j, p) => ChargeOf(c2, j, p)
BY DEF Grown, SameCharge, Grounds, ChargeOf

LEMMA RequestStays ==
  ASSUME NEW c, NEW c2, Grown(c, c2), NEW b, NEW a, NEW b2, NEW a2, Later(b, a, b2, a2),
         NEW r, RequestTrue(b, a, c, r)
  PROVE  RequestTrue(b2, a2, c2, r)
BY GroundsStay DEF Later, RequestTrue, JourneyTrue

LEMMA ChargeStays ==
  ASSUME NEW b, NEW a, NEW b2, NEW a2, Later(b, a, b2, a2), NEW x, NEW y, SameCharge(x, y),
         ChargeTrue(b, a, x), x.pid \in Payments
  PROVE  ChargeTrue(b2, a2, y)
BY DEF Later, ChargeTrue, SameCharge

LEMMA ChargeIs ==
  ASSUME TypeOK, NEW j \in DOMAIN charges
  PROVE  charges[j] \in Charge /\ charges[j].pid \in Payments
<1>1. charges[j] \in Charge
  BY DEF TypeOK
<1> QED
  BY <1>1 DEF Charge

LEMMA Keeps ==
  ASSUME IInv, TypeOK', Later(session, agreed, session', agreed'), Grown(charges, charges'),
         \A p \in Payments :
           SessionTrue(session', agreed', charges', p) /\ PaidTrue(session', charges', p),
         \A j \in DOMAIN charges' \ DOMAIN charges : ChargeTrue(session', agreed', charges'[j]),
         \A s \in Slots : req'[s] = req[s] \/ RequestTrue(session', agreed', charges', req'[s])
  PROVE  IInv'
<1>1. ASSUME NEW j \in DOMAIN charges PROVE ChargeTrue(session', agreed', charges'[j])
  <2>1. charges[j].pid \in Payments
    BY ChargeIs DEF IInv
  <2>2. SameCharge(charges[j], charges'[j]) /\ ChargeTrue(session, agreed, charges[j])
    BY DEF IInv, Grown
  <2> QED
    BY <2>1, <2>2, ChargeStays
<1>2. ASSUME NEW s \in Slots PROVE RequestTrue(session', agreed', charges', req'[s])
  <2>1. RequestTrue(session, agreed, charges, req[s])
    BY DEF IInv
  <2>2. RequestTrue(session', agreed', charges', req[s])
    BY <2>1, RequestStays
  <2> QED
    BY <2>2
<1> QED
  BY <1>1, <1>2 DEF IInv

(* A step that writes neither sessions nor charges. *)
LEMMA Moves ==
  ASSUME IInv, UNCHANGED <<session, charges, agreed>>, TypeOK',
         \A s \in Slots : req'[s] = req[s] \/ RequestTrue(session, agreed, charges, req'[s])
  PROVE  IInv'
<1>1. Later(session, agreed, session', agreed') /\ Grown(charges, charges')
  BY DEF Later, Grown, SameCharge
<1>2. \A p \in Payments :
        SessionTrue(session', agreed', charges', p) /\ PaidTrue(session', charges', p)
  BY DEF IInv
<1> QED
  BY <1>1, <1>2, Keeps

(* And of one slot. *)
LEMMA Turns ==
  ASSUME TypeOK, NEW s \in Slots, NEW r \in Request, req' = [req EXCEPT ![s] = r]
  PROVE  /\ req' \in [Slots -> Request]
         /\ \A t \in Slots : req'[t] = IF t = s THEN r ELSE req[t]
BY DEF TypeOK

LEMMA OneMoves ==
  ASSUME IInv, NEW s \in Slots, NEW r \in Request, req' = [req EXCEPT ![s] = r],
         UNCHANGED <<costs, session, charges, agreed, lost, changes>>, issued' \in 0 .. MaxRequests,
         RequestTrue(session, agreed, charges, r)
  PROVE  IInv'
<1>1. TypeOK
  BY DEF IInv
<1>2. /\ req' \in [Slots -> Request]
      /\ \A t \in Slots : req'[t] = req[t] \/ RequestTrue(session, agreed, charges, req'[t])
  BY <1>1, Turns
<1>3. TypeOK'
  BY <1>1, <1>2 DEF TypeOK
<1> QED
  BY <1>2, <1>3, Moves

LEMMA IdleTrue ==
  /\ Idle \in Request /\ Idle.pc = "idle"
  /\ \A b, a, c : RequestTrue(b, a, c, Idle)
<1>1. Zero \in AmountText
  BY DEF Zero, AmountText
<1>2. NoSession \in Session
  BY <1>1 DEF NoSession, Session, Statuses
<1>3. <<>> \in Seq(Cost)
  OBVIOUS
<1>4. Idle \in Request
  BY <1>2, <1>3 DEF Idle, Request, Statuses
<1>5. Idle.pc = "idle"
  BY DEF Idle
<1> QED
  BY <1>4, <1>5 DEF RequestTrue

(* A request that starts has read its session, and costs of that amount. *)
LEMMA SuccessMeans ==
  ASSUME IInv, NEW p \in Payments, GetPaymentSession(p) = "Success"
  PROVE  /\ session[p].status # "" /\ costs[p].items \in Seq(Cost) /\ session[p] \in Session
         /\ session[p].amount = getTotalAmount(agreed[p])
         /\ session[p].amount = getTotalAmount(costs[p].items)
         /\ ChargeOf(charges, session[p].ref, p)
<1>1. session[p].status # "" /\ session[p].amount = getTotalAmount(costs[p].items)
  BY DEF GetPaymentSession
<1>2. SessionTrue(session, agreed, charges, p) /\ session[p] \in Session
  BY DEF IInv, TypeOK
<1>3. costs[p] \in Resource
  BY ChargesAssumption DEF IInv, TypeOK
<1>4. costs[p].items \in Seq(Cost)
  <2>1. <<>> \in Seq(Cost)
    OBVIOUS
  <2> QED
    BY <1>3, <2>1 DEF Resource
<1> QED
  BY <1>1, <1>2, <1>4 DEF SessionTrue

LEMMA ReadIs ==
  ASSUME IInv, NEW p \in Payments, GetPaymentSession(p) = "Success",
         NEW pc \in {"patch", "journey", "callback", "capture", "check"}
  PROVE  /\ Read(pc, p) \in Request /\ Read(pc, p).pc = pc /\ Read(pc, p).pid = p
         /\ Read(pc, p).status = "" /\ Read(pc, p).items = costs[p].items
         /\ pc # "journey" => RequestTrue(session, agreed, charges, Read(pc, p))
<1> DEFINE r == Read(pc, p)
<1>1. /\ session[p].status # "" /\ costs[p].items \in Seq(Cost) /\ session[p] \in Session
      /\ session[p].amount = getTotalAmount(agreed[p])
      /\ session[p].amount = getTotalAmount(costs[p].items)
      /\ ChargeOf(charges, session[p].ref, p)
  BY SuccessMeans
<1>2. r \in Request
  BY <1>1, IdleTrue DEF Read, Request
<1>3. /\ r.pc = pc /\ r.pid = p /\ r.sess = session[p] /\ r.items = costs[p].items /\ r.status = ""
  BY DEF Read, Idle
<1> HIDE DEF r
<1>4. pc # "journey" => RequestTrue(session, agreed, charges, r)
  BY <1>1, <1>3 DEF RequestTrue, JourneyTrue
<1> QED
  BY <1>2, <1>3, <1>4 DEF r

-----------------------------------------------------------------------------
(* Each action. *)

LEMMA CostsChangeKeeps ==
  ASSUME IInv, NEW p \in Payments, CostsChange(p)
  PROVE  IInv'
<1>1. TypeOK /\ UNCHANGED <<session, charges, req, agreed, lost, issued>>
  BY DEF IInv, CostsChange
<1>2. costs' \in [Payments -> Offers] /\ changes' \in 0 .. MaxChanges
  <2>1. changes \in 0 .. MaxChanges /\ MaxChanges \in Nat /\ costs \in [Payments -> Offers]
    BY <1>1, ChargesAssumption DEF TypeOK
  <2>2. changes < MaxChanges /\ changes' = changes + 1
    BY DEF CostsChange
  <2>3. PICK offer \in Offers : costs' = [costs EXCEPT ![p] = offer]
    BY DEF CostsChange
  <2> QED
    BY <2>1, <2>2, <2>3
<1>3. TypeOK'
  BY <1>1, <1>2 DEF TypeOK
<1> QED
  BY <1>1, <1>3, Moves

LEMMA OtherRequestKeeps ==
  ASSUME IInv, NEW route \in RouteNames, NEW p, NEW w, OtherRequest(route, p, w)
  PROVE  IInv' /\ (lost' <=> lost)
<1>1. TypeOK /\ UNCHANGED <<costs, session, charges, req, agreed, issued, changes>>
  BY DEF IInv, OtherRequest
<1>2. lost' = (lost \/ Loses(route, w, session[p].owner, GetPaymentSession(p)))
  BY DEF OtherRequest
<1>3. ~ Loses(route, w, session[p].owner, GetPaymentSession(p))
  BY NothingLost
<1>4. lost' \in BOOLEAN /\ (lost' <=> lost)
  BY <1>2, <1>3, Zenon
<1>5. TypeOK'
  BY <1>1, <1>4 DEF TypeOK
<1> QED
  BY <1>1, <1>4, <1>5, Moves

(* A session is created for the costs there are: nothing was about it yet. *)
LEMMA CreatePaymentSessionKeeps ==
  ASSUME IInv, NEW p \in Payments, NEW w \in Callers, NEW incoming,
         CreatePaymentSession(p, w, incoming)
  PROVE  IInv'
<1> DEFINE items == costs[p].items
           new == [NoSession EXCEPT !.status = "pending", !.owner = w.id,
                                    !.amount = getTotalAmount(items)]
<1>1. /\ TypeOK /\ session[p].status = ""
      /\ session' = [session EXCEPT ![p] = new] /\ agreed' = [agreed EXCEPT ![p] = items]
      /\ UNCHANGED <<costs, charges, req, lost, issued, changes>>
  BY DEF IInv, CreatePaymentSession
<1>2. items \in Seq(Cost)
  <2>1. costs[p] \in Resource
    BY <1>1, ChargesAssumption DEF TypeOK
  <2>2. <<>> \in Seq(Cost)
    OBVIOUS
  <2> QED
    BY <2>1, <2>2 DEF Resource
<1> HIDE DEF items
<1>3. /\ new \in Session /\ new.status = "pending" /\ new.ref = 0
      /\ new.amount = getTotalAmount(items)
  <2>1. w.id \in Users \cup {NoUser}
    BY ChargesAssumption DEF Identity
  <2>2. getTotalAmount(items) \in AmountText
    BY <1>2, TextSays
  <2> QED
    BY <2>1, <2>2 DEF NoSession, Session, Statuses
<1> HIDE DEF new
<1>4. /\ session' \in [Payments -> Session] /\ agreed' \in [Payments -> Seq(Cost)]
      /\ session'[p] = new /\ agreed'[p] = items
      /\ \A q \in Payments : q # p => session'[q] = session[q] /\ agreed'[q] = agreed[q]
  BY <1>1, <1>2, <1>3 DEF TypeOK
<1>5. TypeOK'
  BY <1>1, <1>4 DEF TypeOK
<1>6. Later(session, agreed, session', agreed') /\ Grown(charges, charges')
  BY <1>1, <1>4 DEF Later, Grown, SameCharge
<1>7. ASSUME NEW q \in Payments
      PROVE  SessionTrue(session', agreed', charges', q) /\ PaidTrue(session', charges', q)
  <2>1. CASE q = p
    BY <1>3, <1>4, <2>1 DEF SessionTrue, PaidTrue, ChargeOf
  <2>2. CASE q # p
    BY <1>1, <1>4, <2>2 DEF IInv, SessionTrue, PaidTrue
  <2> QED
    BY <2>1, <2>2
<1> QED
  BY <1>1, <1>5, <1>6, <1>7, Keeps

LEMMA HandlePatchPaymentSessionKeeps ==
  ASSUME IInv, NEW s \in Slots, NEW p \in Payments, NEW w, NEW method \in Methods,
         HandlePatchPaymentSession(s, p, w, method)
  PROVE  IInv'
<1> DEFINE r == [Read("patch", p) EXCEPT !.method = method]
<1>1. GetPaymentSession(p) = "Success"
  BY LetIn DEF HandlePatchPaymentSession, May
<1>2. /\ Read("patch", p) \in Request /\ Read("patch", p).status = ""
      /\ Read("patch", p).pc = "patch"
      /\ RequestTrue(session, agreed, charges, Read("patch", p))
  BY <1>1, ReadIs
<1>3. /\ r \in Request /\ r.status = "" /\ r.pc = "patch"
      /\ r.pid = Read("patch", p).pid /\ r.sess = Read("patch", p).sess
      /\ r.items = Read("patch", p).items
  BY <1>2 DEF Request
<1>4. /\ req' = [req EXCEPT ![s] = r]
      /\ UNCHANGED <<costs, session, charges, agreed, lost, changes>>
      /\ issued' \in 0 .. MaxRequests
  <2>1. issued \in 0 .. MaxRequests /\ MaxRequests \in Nat
    BY ChargesAssumption DEF IInv, TypeOK
  <2> QED
    BY <2>1 DEF HandlePatchPaymentSession, Begin
<1> HIDE DEF r
<1>5. RequestTrue(session, agreed, charges, r)
  BY <1>2, <1>3 DEF RequestTrue, JourneyTrue
<1> QED
  BY <1>3, <1>4, <1>5, OneMoves

(* The journey's interceptors let in those who may pay. *)
LEMMA CreateExternalPaymentJourneyKeeps ==
  ASSUME IInv, NEW s \in Slots, NEW p \in Payments, NEW w \in Callers,
         CreateExternalPaymentJourney(s, p, w)
  PROVE  IInv'
<1> DEFINE r == [Read("journey", p) EXCEPT !.who = w]
<1>1. GetPaymentSession(p) = "Success" /\ MayPay(w, session[p].owner)
  BY LetIn DEF CreateExternalPaymentJourney, May
<1>2. /\ Read("journey", p) \in Request /\ Read("journey", p).pc = "journey"
  BY <1>1, ReadIs
<1>3. /\ r \in Request /\ r.pc = "journey" /\ r.pid = p /\ r.sess = session[p]
      /\ r.items = costs[p].items /\ r.who = w
  BY <1>2 DEF Request, Read, Idle
<1>4. /\ req' = [req EXCEPT ![s] = r] /\ validateClassOfPayment(costs[p].items)
      /\ UNCHANGED <<costs, session, charges, agreed, lost, changes>>
      /\ issued' \in 0 .. MaxRequests
  <2>1. issued \in 0 .. MaxRequests /\ MaxRequests \in Nat
    BY ChargesAssumption DEF IInv, TypeOK
  <2> QED
    BY <2>1 DEF CreateExternalPaymentJourney, Begin
<1> HIDE DEF r
<1>5. RequestTrue(session, agreed, charges, r)
  BY <1>1, <1>3, <1>4, SuccessMeans DEF RequestTrue, JourneyTrue
<1> QED
  BY <1>3, <1>4, <1>5, OneMoves

LEMMA BeginKeeps ==
  ASSUME IInv, NEW s \in Slots, NEW p \in Payments, GetPaymentSession(p) = "Success",
         NEW pc \in {"callback", "capture", "check"}, req' = [req EXCEPT ![s] = Read(pc, p)],
         UNCHANGED <<costs, session, charges, agreed, lost, changes>>,
         Begin(s) \/ UNCHANGED issued
  PROVE  IInv'
<1>1. Read(pc, p) \in Request /\ RequestTrue(session, agreed, charges, Read(pc, p))
  BY ReadIs
<1>2. issued' \in 0 .. MaxRequests
  <2>1. issued \in 0 .. MaxRequests /\ MaxRequests \in Nat
    BY ChargesAssumption DEF IInv, TypeOK
  <2> QED
    BY <2>1 DEF Begin
<1> QED
  BY <1>1, <1>2, OneMoves

LEMMA ReadsKeep ==
  ASSUME IInv, NEW s \in Slots, NEW p \in Payments,
         HandleGovPayCallback(s, p) \/ HandlePayPalCallback(s, p) \/ CheckReads(s, p)
  PROVE  IInv'
BY BeginKeeps DEF HandleGovPayCallback, HandlePayPalCallback, CheckReads, Begin

(* A request in flight. *)
LEMMA InFlight ==
  ASSUME IInv, NEW s \in Slots, req[s].pc # "idle"
  PROVE  /\ req[s] \in Request /\ req[s].pid \in Payments /\ session[req[s].pid].status # ""
         /\ session[req[s].pid] \in Session /\ req[s].sess \in Session
         /\ req[s].items \in Seq(Cost)
         /\ req[s].sess.amount = getTotalAmount(agreed[req[s].pid])
         /\ req[s].sess.amount = getTotalAmount(req[s].items)
         /\ ChargeOf(charges, req[s].sess.ref, req[s].pid)
         /\ JourneyTrue(session, req[s])
         /\ req[s].pc = "patch" /\ req[s].status = "paid" => Grounds(charges, req[s].pid)
<1>1. RequestTrue(session, agreed, charges, req[s]) /\ req[s] \in Request
  BY DEF IInv, TypeOK
<1>2. req[s].sess \in Session /\ req[s].items \in Seq(Cost)
  BY <1>1 DEF Request
<1>3. req[s].pid \in Payments => session[req[s].pid] \in Session
  BY DEF IInv, TypeOK
<1> QED
  BY <1>1, <1>2, <1>3 DEF RequestTrue

(* The update of a session leaves its owner, amount and payment alone, and
   calls it paid on the grounds the request came with. *)
LEMMA PatchPaymentSessionKeeps ==
  ASSUME IInv, NEW s \in Slots, PatchPaymentSession(s)
  PROVE  IInv'
<1> DEFINE r == req[s]
           p == r.pid
           status == IF session[p].status = "pending" THEN "in-progress"
                     ELSE IF r.status = "" THEN session[p].status ELSE r.status
           method == IF r.method = "" THEN session[p].method ELSE r.method
           new == [session[p] EXCEPT !.status = status, !.method = method]
<1>1. /\ TypeOK /\ r.pc = "patch" /\ req' = [req EXCEPT ![s] = Idle]
      /\ UNCHANGED <<costs, charges, agreed, lost, issued, changes>>
  BY DEF IInv, PatchPaymentSession
<1>2. /\ r \in Request /\ p \in Payments /\ session[p].status # "" /\ session[p] \in Session
      /\ r.status = "paid" => Grounds(charges, p)
  BY <1>1, InFlight
<1>3. session' = session \/ session' = [session EXCEPT ![p] = new]
  <2>1. CASE UNCHANGED session
    BY <2>1
  <2>2. CASE session' = [session EXCEPT
               ![p].status = IF @ = "pending" THEN "in-progress"
                             ELSE IF r.status = "" THEN @ ELSE r.status,
               ![p].method = IF r.method = "" THEN @ ELSE r.method]
    BY <1>1, <1>2, <2>2 DEF TypeOK, Session
  <2> QED
    BY <2>1, <2>2 DEF PatchPaymentSession
<1>4. /\ req' \in [Slots -> Request]
      /\ \A t \in Slots : req'[t] = req[t] \/ req'[t] = Idle
  BY <1>1, IdleTrue, Turns
<1>5. CASE session' = session
  <2>1. TypeOK'
    BY <1>1, <1>4, <1>5 DEF TypeOK
  <2> QED
    BY <1>1, <1>4, <1>5, <2>1, IdleTrue, Moves
<1>6. CASE session' = [session EXCEPT ![p] = new]
  <2>1. status \in Statuses /\ status # "" /\ method \in Methods \cup {""}
    BY <1>2 DEF Request, Session, Statuses
  <2>2. status = "paid" => Grounds(charges, p) \/ session[p].status = "paid"
    BY <1>2
  <2> HIDE DEF status, method
  <2>3. /\ new \in Session /\ new.status = status /\ new.owner = session[p].owner
        /\ new.amount = session[p].amount /\ new.ref = session[p].ref
    BY <1>2, <2>1 DEF Session
  <2> HIDE DEF new, p, r
  <2>4. /\ session' \in [Payments -> Session] /\ session'[p] = new
        /\ \A q \in Payments : q # p => session'[q] = session[q]
    BY <1>1, <1>2, <1>6, <2>3 DEF TypeOK
  <2>5. TypeOK'
    BY <1>1, <1>4, <2>4 DEF TypeOK
  <2>6. Later(session, agreed, session', agreed') /\ Grown(charges, charges')
    BY <1>1, <1>2, <2>1, <2>3, <2>4 DEF Later, Grown, SameCharge
  <2>7. ASSUME NEW q \in Payments
        PROVE  SessionTrue(session', agreed', charges', q) /\ PaidTrue(session', charges', q)
    <3>1. SessionTrue(session, agreed, charges, q) /\ PaidTrue(session, charges, q)
      BY DEF IInv
    <3>2. CASE q = p
      BY <1>1, <1>2, <2>2, <2>3, <2>4, <3>1, <3>2 DEF SessionTrue, PaidTrue
    <3>3. CASE q # p
      BY <1>1, <2>4, <3>1, <3>3 DEF SessionTrue, PaidTrue
    <3> QED
      BY <3>2, <3>3
  <2> QED
    BY <1>1, <1>4, <2>5, <2>6, <2>7, IdleTrue, Keeps
<1> QED
  BY <1>3, <1>5, <1>6

(* A provider makes a payment: of what was agreed, which is the sum of the
   costs in hand, in the account of their class. *)
LEMMA ChargedIs ==
  ASSUME IInv, NEW s \in Slots, req[s].pc = "journey",
         NEW account \in {"ch", "legacy", "treasury", "sanctions", "paypal"},
         account # "paypal" => account = addGovPayHeaders(req[s].items),
         NEW pence, pence = Owed(req[s].items),
         ChargeFor(req[s], account, pence), req' = [req EXCEPT ![s] = Idle],
         UNCHANGED <<costs, agreed, lost, issued, changes>>
  PROVE  IInv'
<1> DEFINE r == req[s]
           p == r.pid
           j == Len(charges) + 1
           new == [pid |-> p, account |-> account, pence |-> pence, items |-> r.items,
                   starter |-> r.who, state |-> "open", trusted |-> FALSE]
           named == [session[p] EXCEPT !.ref = j]
<1>1. /\ TypeOK /\ charges \in Seq(Charge) /\ Len(charges) <= MaxCharges
      /\ Len(charges) < MaxCharges /\ MaxCharges \in Nat /\ charges' = Append(charges, new)
  BY ChargesAssumption DEF IInv, TypeOK, ChargeFor
<1>2. /\ r \in Request /\ p \in Payments /\ session[p].status # "" /\ session[p] \in Session
      /\ r.items \in Seq(Cost)
      /\ getTotalAmount(agreed[p]) = getTotalAmount(r.items)
      /\ r.who \in Callers /\ MayPay(r.who, session[p].owner) /\ validateClassOfPayment(r.items)
  BY InFlight DEF JourneyTrue
<1>3. pence = Owed(agreed[p]) /\ pence \in Nat
  <2>1. agreed[p] \in Seq(Cost)
    BY <1>1, <1>2 DEF TypeOK
  <2>2. /\ Owed(agreed[p]) = Pence(getTotalAmount(agreed[p]))
        /\ Owed(r.items) = Pence(getTotalAmount(r.items)) /\ Owed(r.items) \in Nat
    BY <1>2, <2>1, TextSays, OwedIs
  <2> QED
    BY <1>2, <2>2
<1>4. /\ new \in Charge /\ new.pid = p /\ new.pence = pence /\ new.items = r.items
      /\ new.account = account /\ new.starter = r.who
  BY <1>2, <1>3 DEF Charge
<1> HIDE DEF new
<1>5. /\ charges' \in Seq(Charge) /\ Len(charges') = j /\ j <= MaxCharges /\ j \in Nat
      /\ charges'[j] = new /\ DOMAIN charges' = DOMAIN charges \cup {j} /\ j \notin DOMAIN charges
      /\ \A k \in DOMAIN charges : charges'[k] = charges[k]
  BY <1>1, <1>4
<1>6. session' = [session EXCEPT ![p] = named]
  BY <1>5 DEF ChargeFor
<1> HIDE DEF j
<1>7. /\ named \in Session /\ named.status = session[p].status /\ named.owner = session[p].owner
      /\ named.amount = session[p].amount /\ named.ref = j
  BY <1>2, <1>5 DEF Session
<1> HIDE DEF named, r, p
<1>8. /\ session' \in [Payments -> Session] /\ session'[p] = named
      /\ \A q \in Payments : q # p => session'[q] = session[q]
  BY <1>1, <1>2, <1>6, <1>7 DEF TypeOK
<1>9. /\ req' \in [Slots -> Request]
      /\ \A t \in Slots : req'[t] = req[t] \/ req'[t] = Idle
  BY <1>1, IdleTrue, Turns
<1>10. TypeOK'
  BY <1>1, <1>5, <1>8, <1>9 DEF TypeOK
<1>11. Later(session, agreed, session', agreed')
  BY <1>2, <1>7, <1>8 DEF Later
<1>12. Grown(charges, charges')
  BY <1>5 DEF Grown, SameCharge
<1>13. ASSUME NEW q \in Payments
       PROVE  SessionTrue(session', agreed', charges', q) /\ PaidTrue(session', charges', q)
  <2>1. SessionTrue(session, agreed, charges, q) /\ PaidTrue(session, charges, q)
    BY DEF IInv
  <2>2. PaidTrue(session', charges', q)
    BY <1>7, <1>8, <1>12, <2>1, GroundsStay DEF PaidTrue
  <2>3. CASE q = p
    <3>1. ChargeOf(charges', j, p)
      BY <1>4, <1>5 DEF ChargeOf
    <3> QED
      BY <1>2, <1>7, <1>8, <2>1, <2>2, <2>3, <3>1 DEF SessionTrue
  <2>4. CASE q # p
    BY <1>8, <1>12, <2>1, <2>2, <2>4, GroundsStay DEF SessionTrue
  <2> QED
    BY <2>3, <2>4
<1>14. ChargeTrue(session', agreed', new)
  BY <1>2, <1>3, <1>4, <1>7, <1>8 DEF ChargeTrue, r
<1> QED
  BY <1>5, <1>9, <1>10, <1>11, <1>12, <1>13, <1>14, IdleTrue, Keeps

(* A request ends, or goes on to write what it learnt. *)
LEMMA Ends ==
  ASSUME IInv, NEW s \in Slots, req' = [req EXCEPT ![s] = Idle],
         UNCHANGED <<costs, session, charges, agreed, lost, issued, changes>>
  PROVE  IInv'
<1>1. issued' \in 0 .. MaxRequests
  BY DEF IInv, TypeOK
<1> QED
  BY <1>1, IdleTrue, OneMoves

LEMMA CreateGovPayPaymentKeeps ==
  ASSUME IInv, NEW s \in Slots, CreateGovPayPayment(s)
  PROVE  IInv'
<1> DEFINE r == req[s]
<1>1. /\ r.pc = "journey" /\ req' = [req EXCEPT ![s] = Idle]
      /\ UNCHANGED <<costs, agreed, lost, issued, changes>>
  BY DEF CreateGovPayPayment
<1>2. CASE UNCHANGED <<charges, session>>
  BY <1>1, <1>2, Ends
<1>3. CASE /\ addGovPayHeaders(r.items) # "none"
           /\ ChargeFor(r, addGovPayHeaders(r.items), convertToPenceFromDecimal(r.sess.amount))
  <2>1. r.items \in Seq(Cost) /\ r.sess.amount = getTotalAmount(r.items)
    BY <1>1, InFlight
  <2>2. convertToPenceFromDecimal(r.sess.amount) = Owed(r.items)
    BY <2>1, TextSays
  <2>3. addGovPayHeaders(r.items) \in {"ch", "legacy", "treasury", "sanctions"}
    BY <1>3, <2>1, AccountIs
  <2> QED
    BY <1>1, <1>3, <2>2, <2>3, ChargedIs
<1> QED
  BY <1>2, <1>3 DEF CreateGovPayPayment

LEMMA CreatePayPalOrderKeeps ==
  ASSUME IInv, NEW s \in Slots, CreatePayPalOrder(s)
  PROVE  IInv'
<1> DEFINE r == req[s]
<1>1. /\ r.pc = "journey" /\ req' = [req EXCEPT ![s] = Idle]
      /\ UNCHANGED <<costs, agreed, lost, issued, changes>>
  BY DEF CreatePayPalOrder
<1>2. CASE UNCHANGED <<charges, session>>
  BY <1>1, <1>2, Ends
<1>3. CASE ChargeFor(r, "paypal", Pence(r.sess.amount))
  <2>1. r.items \in Seq(Cost) /\ r.sess.amount = getTotalAmount(r.items)
    BY <1>1, InFlight
  <2>2. Pence(r.sess.amount) = Owed(r.items)
    BY <2>1, TextSays
  <2> QED
    BY <1>1, <1>3, <2>2, ChargedIs
<1> QED
  BY <1>2, <1>3 DEF CreatePayPalOrder

(* The state of a charge changes. *)
LEMMA Updated ==
  ASSUME IInv, NEW j \in DOMAIN charges, NEW x \in Charge, SameCharge(charges[j], x),
         charges' = [charges EXCEPT ![j] = x]
  PROVE  /\ charges' \in Seq(Charge) /\ Len(charges') = Len(charges)
         /\ DOMAIN charges' = DOMAIN charges /\ charges'[j] = x
         /\ Grown(charges, charges')
<1>1. charges \in Seq(Charge)
  BY DEF IInv, TypeOK
<1>2. /\ charges' \in Seq(Charge) /\ Len(charges') = Len(charges)
      /\ DOMAIN charges' = DOMAIN charges /\ charges'[j] = x
      /\ \A k \in DOMAIN charges : k # j => charges'[k] = charges[k]
  BY <1>1
<1>3. \A k \in DOMAIN charges : SameCharge(charges[k], charges[k])
  BY DEF SameCharge
<1> QED
  BY <1>2, <1>3 DEF Grown

(* Whatever becomes of a charge, sessions stay true. *)
LEMMA ChargesGrow ==
  ASSUME IInv, charges' \in Seq(Charge), Len(charges') = Len(charges),
         DOMAIN charges' = DOMAIN charges, Grown(charges, charges'),
         req' \in [Slots -> Request],
         \A s \in Slots : req'[s] = req[s] \/ RequestTrue(session, agreed, charges', req'[s]),
         UNCHANGED <<costs, session, agreed, lost, issued, changes>>
  PROVE  IInv'
<1>1. TypeOK'
  BY DEF IInv, TypeOK
<1>2. Later(session, agreed, session', agreed')
  BY DEF Later
<1>3. \A p \in Payments :
        SessionTrue(session', agreed', charges', p) /\ PaidTrue(session', charges', p)
  BY GroundsStay DEF IInv, SessionTrue, PaidTrue
<1> QED
  BY <1>1, <1>2, <1>3, Keeps

LEMMA GovPayMovesKeeps ==
  ASSUME IInv, NEW j \in DOMAIN charges, GovPayMoves(j)
  PROVE  IInv'
<1>1. TypeOK /\ charges[j] \in Charge /\ charges[j].state = "open"
  BY ChargeIs DEF IInv, GovPayMoves
<1>2. PICK state \in {"success", "rejected"} : charges' = [charges EXCEPT ![j].state = state]
  BY DEF GovPayMoves
<1> DEFINE x == [charges[j] EXCEPT !.state = state]
<1>3. x \in Charge /\ SameCharge(charges[j], x)
  BY <1>1 DEF Charge, SameCharge
<1>4. charges' = [charges EXCEPT ![j] = x]
  BY <1>2
<1> HIDE DEF x
<1>5. UNCHANGED <<costs, session, req, agreed, lost, issued, changes>>
  BY DEF GovPayMoves
<1>6. req' \in [Slots -> Request] /\ \A s \in Slots : req'[s] = req[s]
  BY <1>1, <1>5 DEF TypeOK
<1> QED
  BY <1>3, <1>4, <1>5, <1>6, Updated, ChargesGrow

(* GOV.UK Pay answers for the charge the session named. *)
LEMMA AnswerIs ==
  ASSUME IInv, NEW s \in Slots, req[s].pc # "idle",
         callGovPay(req[s].items, req[s].sess.ref) \in {"open", "success", "rejected"}
  PROVE  /\ req[s].sess.ref \in DOMAIN charges
         /\ charges[req[s].sess.ref].pid = req[s].pid
         /\ charges[req[s].sess.ref].state = callGovPay(req[s].items, req[s].sess.ref)
<1>1. ChargeOf(charges, req[s].sess.ref, req[s].pid)
  BY InFlight
<1> QED
  BY <1>1 DEF callGovPay, ChargeOf

LEMMA Answered ==
  ASSUME IInv, NEW s \in Slots, req[s].pc # "idle",
         charges' \in Seq(Charge), Len(charges') = Len(charges),
         DOMAIN charges' = DOMAIN charges, Grown(charges, charges'),
         NEW r \in Request, req' = [req EXCEPT ![s] = r],
         r.pc = "patch", r.pid = req[s].pid, r.sess = req[s].sess, r.items = req[s].items,
         r.status = "paid" => Grounds(charges', req[s].pid),
         UNCHANGED <<costs, session, agreed, lost, issued, changes>>
  PROVE  IInv'
<1>1. RequestTrue(session, agreed, charges', r)
  BY InFlight, GroundsStay DEF RequestTrue, JourneyTrue
<1>2. /\ req' \in [Slots -> Request]
      /\ \A t \in Slots : req'[t] = req[t] \/ RequestTrue(session, agreed, charges', req'[t])
  BY <1>1, Turns DEF IInv
<1> QED
  BY <1>2, ChargesGrow

LEMMA CheckAsksKeeps ==
  ASSUME IInv, NEW s \in Slots, CheckAsks(s)
  PROVE  IInv'
<1> DEFINE a == callGovPay(req[s].items, req[s].sess.ref)
           r == [req[s] EXCEPT !.pc = "patch", !.status = GetPaymentStatus(a)]
<1>1. /\ TypeOK /\ req[s].pc = "check" /\ req[s] \in Request
      /\ UNCHANGED <<costs, session, charges, agreed, lost, issued, changes>>
  BY DEF IInv, TypeOK, CheckAsks
<1>2. CASE req' = [req EXCEPT ![s] = Idle]
  BY <1>1, <1>2, Ends
<1>3. CASE a \in {"success", "rejected"} /\ req' = [req EXCEPT ![s] = r]
  <2>1. GetPaymentStatus(a) \in Statuses /\ (GetPaymentStatus(a) = "paid" => a = "success")
    BY DEF GetPaymentStatus, Statuses
  <2>2. /\ r \in Request /\ r.pc = "patch" /\ r.pid = req[s].pid /\ r.sess = req[s].sess
        /\ r.items = req[s].items /\ r.status = GetPaymentStatus(a)
    BY <1>1, <2>1 DEF Request
  <2>3. /\ req[s].sess.ref \in DOMAIN charges /\ charges[req[s].sess.ref].pid = req[s].pid
        /\ charges[req[s].sess.ref].state = a
    BY <1>1, <1>3, AnswerIs
  <2> HIDE DEF r, a
  <2>4. r.status = "paid" => Grounds(charges', req[s].pid)
    BY <1>1, <2>1, <2>2, <2>3 DEF Grounds
  <2>5. charges' \in Seq(Charge) /\ Grown(charges, charges')
    BY <1>1 DEF TypeOK, Grown, SameCharge
  <2> QED
    BY <1>1, <1>3, <2>2, <2>4, <2>5, Answered
<1> QED
  BY <1>1, <1>2, <1>3 DEF CheckAsks

(* A callback calls a payment paid that succeeded, or that it trusts. *)
LEMMA GovPayCallbackStatusKeeps ==
  ASSUME IInv, NEW s \in Slots, GovPayCallbackStatus(s)
  PROVE  IInv'
<1> DEFINE j == req[s].sess.ref
           a == callGovPay(req[s].items, j)
<1>1. /\ TypeOK /\ req[s].pc = "callback" /\ req[s] \in Request
      /\ UNCHANGED <<costs, session, agreed, lost, issued, changes>>
  BY DEF IInv, TypeOK, GovPayCallbackStatus
<1>2. CASE req' = [req EXCEPT ![s] = Idle] /\ UNCHANGED charges
  BY <1>1, <1>2, Ends
<1>3. ASSUME NEW status \in CheckPaymentProviderStatus(a),
             req' = [req EXCEPT ![s].pc = "patch", ![s].method = req[s].sess.method,
                                ![s].status = status],
             charges' = IF a = "open" /\ status = "paid"
                        THEN [charges EXCEPT ![j].trusted = TRUE] ELSE charges
      PROVE  IInv'
  <2> DEFINE r == [req[s] EXCEPT !.pc = "patch", !.method = req[s].sess.method, !.status = status]
  <2>1. status \in {"paid", "failed"} /\ (status = "paid" => a \in {"success", "open"})
    BY DEF CheckPaymentProviderStatus
  <2>2. req[s].sess.method \in Methods \cup {""}
    BY <1>1 DEF Request, Session
  <2>3. /\ r \in Request /\ r.pc = "patch" /\ r.pid = req[s].pid /\ r.sess = req[s].sess
        /\ r.items = req[s].items /\ r.status = status
    BY <1>1, <2>1, <2>2 DEF Request, Statuses
  <2>4. req' = [req EXCEPT ![s] = r]
    BY <1>3
  <2> HIDE DEF r, a
  <2>5. a \in {"success", "open"} =>
          j \in DOMAIN charges /\ charges[j].pid = req[s].pid /\ charges[j].state = a
    BY <1>1, AnswerIs DEF a
  <2> HIDE DEF j
  <2>6. CASE a = "open" /\ status = "paid"
    <3> DEFINE x == [charges[j] EXCEPT !.trusted = TRUE]
    <3>1. j \in DOMAIN charges /\ charges[j] \in Charge /\ charges[j].pid = req[s].pid
      BY <1>1, <2>5, <2>6, ChargeIs
    <3>2. x \in Charge /\ SameCharge(charges[j], x) /\ x.trusted /\ x.pid = charges[j].pid
      BY <3>1 DEF Charge, SameCharge
    <3>3. charges' = [charges EXCEPT ![j] = x]
      BY <1>3, <2>6
    <3> HIDE DEF x
    <3>4. /\ charges' \in Seq(Charge) /\ Len(charges') = Len(charges)
          /\ DOMAIN charges' = DOMAIN charges /\ charges'[j] = x
          /\ Grown(charges, charges')
      BY <3>1, <3>2, <3>3, Updated
    <3>5. Grounds(charges', req[s].pid)
      BY <3>1, <3>2, <3>4 DEF Grounds
    <3> QED
      BY <1>1, <2>3, <2>4, <3>4, <3>5, Answered
  <2>7. CASE ~(a = "open" /\ status = "paid")
    <3>1. /\ charges' = charges /\ charges' \in Seq(Charge) /\ Grown(charges, charges')
      BY <1>1, <1>3, <2>7 DEF TypeOK, Grown, SameCharge
    <3>2. r.status = "paid" => Grounds(charges', req[s].pid)
      BY <2>1, <2>3, <2>5, <2>7, <3>1 DEF Grounds
    <3> QED
      BY <1>1, <2>3, <2>4, <3>1, <3>2, Answered
  <2> QED
    BY <2>6, <2>7
<1> QED
  BY <1>2, <1>3 DEF GovPayCallbackStatus

(* A capture that PayPal completes is a charge that succeeded. *)
LEMMA CapturePaymentKeeps ==
  ASSUME IInv, NEW s \in Slots, CapturePayment(s)
  PROVE  IInv'
<1> DEFINE j == req[s].sess.ref
           Patch(status) == [req EXCEPT ![s].pc = "patch", ![s].method = req[s].sess.method,
                                        ![s].status = status]
           open == j # 0 /\ charges[j].account = "paypal" /\ charges[j].state = "open"
<1>1. /\ TypeOK /\ req[s].pc = "capture" /\ req[s] \in Request
      /\ UNCHANGED <<costs, session, agreed, lost, issued, changes>>
  BY DEF IInv, TypeOK, CapturePayment
<1>2. CASE req' = [req EXCEPT ![s] = Idle] /\ UNCHANGED charges
  BY <1>1, <1>2, Ends
<1>3. ASSUME NEW status \in {"paid", "failed"}, open, req' = Patch(status),
             \/ /\ UNCHANGED charges /\ status = "failed"
             \/ \E state \in {"success", "rejected"} :
                  /\ charges' = [charges EXCEPT ![j].state = state]
                  /\ status = "paid" => state = "success"
      PROVE  IInv'
  <2> DEFINE r == [req[s] EXCEPT !.pc = "patch", !.method = req[s].sess.method, !.status = status]
  <2>1. req[s].sess.method \in Methods \cup {""}
    BY <1>1 DEF Request, Session
  <2>2. /\ r \in Request /\ r.pc = "patch" /\ r.pid = req[s].pid /\ r.sess = req[s].sess
        /\ r.items = req[s].items /\ r.status = status
    BY <1>1, <2>1 DEF Request, Statuses
  <2>3. req' = [req EXCEPT ![s] = r]
    BY <1>3
  <2> HIDE DEF r
  <2>4. /\ j \in DOMAIN charges /\ charges[j].pid = req[s].pid /\ charges[j].state = "open"
        /\ charges[j] \in Charge
    BY <1>1, <1>3, InFlight, ChargeIs DEF ChargeOf
  <2> HIDE DEF j
  <2>5. CASE UNCHANGED charges /\ status = "failed"
    <3>1. charges' \in Seq(Charge) /\ Grown(charges, charges')
      BY <1>1, <2>5 DEF TypeOK, Grown, SameCharge
    <3> QED
      BY <1>1, <2>2, <2>3, <2>5, <3>1, Answered
  <2>6. ASSUME NEW state \in {"success", "rejected"}, charges' = [charges EXCEPT ![j].state = state],
               status = "paid" => state = "success"
        PROVE  IInv'
    <3> DEFINE x == [charges[j] EXCEPT !.state = state]
    <3>1. x \in Charge /\ SameCharge(charges[j], x) /\ x.state = state /\ x.pid = charges[j].pid
      BY <2>4 DEF Charge, SameCharge
    <3>2. charges' = [charges EXCEPT ![j] = x]
      BY <2>6
    <3> HIDE DEF x
    <3>3. /\ charges' \in Seq(Charge) /\ Len(charges') = Len(charges)
          /\ DOMAIN charges' = DOMAIN charges /\ charges'[j] = x
          /\ Grown(charges, charges')
      BY <2>4, <3>1, <3>2, Updated
    <3>4. r.status = "paid" => Grounds(charges', req[s].pid)
      BY <2>2, <2>4, <2>6, <3>1, <3>3 DEF Grounds
    <3> QED
      BY <1>1, <2>2, <2>3, <3>3, <3>4, Answered
  <2> QED
    BY <1>3, <2>5, <2>6
<1> QED
  BY <1>2, <1>3 DEF CapturePayment

-----------------------------------------------------------------------------
(* The invariant. *)

LEMMA InitIInv == Init => IInv
<1> SUFFICES ASSUME Init PROVE IInv
  OBVIOUS
<1>1. /\ <<>> \in Seq(Cost) /\ <<>> \in Seq(Charge) /\ Len(<<>>) = 0 /\ DOMAIN <<>> = {}
  OBVIOUS
<1>2. NoSession \in Session /\ NoSession.status = ""
  <2>1. Zero \in AmountText
    BY DEF Zero, AmountText
  <2> QED
    BY <2>1 DEF NoSession, Session, Statuses
<1>3. /\ session \in [Payments -> Session] /\ \A p \in Payments : session[p].status = ""
  BY <1>2 DEF Init
<1>4. req \in [Slots -> Request] /\ \A s \in Slots : req[s] = Idle
  BY IdleTrue DEF Init
<1>5. MaxRequests \in Nat /\ MaxCharges \in Nat /\ MaxChanges \in Nat
  BY ChargesAssumption
<1>6. charges = <<>> /\ charges \in Seq(Charge) /\ Len(charges) <= MaxCharges
  BY <1>1, <1>5 DEF Init
<1>7. lost \in BOOLEAN /\ issued \in 0 .. MaxRequests /\ changes \in 0 .. MaxChanges
  <2>1. lost = FALSE /\ issued = 0 /\ changes = 0
    BY DEF Init
  <2>2. issued \in 0 .. MaxRequests /\ changes \in 0 .. MaxChanges
    BY <1>5, <2>1
  <2> QED
    BY <2>1, <2>2, Zenon
<1>8. costs \in [Payments -> Offers] /\ agreed \in [Payments -> Seq(Cost)]
  BY <1>1 DEF Init
<1>9. TypeOK
  BY <1>3, <1>4, <1>6, <1>7, <1>8 DEF TypeOK
<1>10. \A p \in Payments : SessionTrue(session, agreed, charges, p) /\ PaidTrue(session, charges, p)
  BY <1>3 DEF SessionTrue, PaidTrue
<1>11. \A s \in Slots : RequestTrue(session, agreed, charges, req[s])
  BY <1>4, IdleTrue
<1>12. DOMAIN charges = {}
  BY <1>1, <1>6
<1> QED
  BY <1>9, <1>10, <1>11, <1>12 DEF IInv

LEMMA NextIInv == IInv /\ [Next]_vars => IInv'
<1> SUFFICES ASSUME IInv, [Next]_vars PROVE IInv'
  OBVIOUS
<1>1. ASSUME NEW s \in Slots, NEW p \in Payments, Arrive(s, p) PROVE IInv'
  BY <1>1, HandlePatchPaymentSessionKeeps, CreateExternalPaymentJourneyKeeps, ReadsKeep DEF Arrive
<1>2. ASSUME NEW s \in Slots, Proceed(s) PROVE IInv'
  BY <1>2, PatchPaymentSessionKeeps, CreateGovPayPaymentKeeps, CreatePayPalOrderKeeps,
     GovPayCallbackStatusKeeps, CapturePaymentKeeps, CheckAsksKeeps DEF Proceed
<1>3. CASE UNCHANGED vars
  <2>1. UNCHANGED <<costs, session, charges, req, agreed, lost, issued, changes>>
    BY <1>3 DEF vars
  <2>2. TypeOK'
    BY <2>1 DEF IInv, TypeOK
  <2> QED
    BY <2>1, <2>2, Moves
<1> QED
  BY <1>1, <1>2, <1>3, CostsChangeKeeps, CreatePaymentSessionKeeps, OtherRequestKeeps,
     GovPayMovesKeeps DEF Next

(* The invariant of charges: every state satisfies IInv, however the costs
   change and requests interleave. *)
THEOREM ChargesSafe == Spec => []IInv
BY InitIInv, NextIInv, PTL DEF Spec

(* Every variable keeps its type: in particular a payment is only ever asked
   for in an account the service has a token for (addGovPayHeaders). *)
THEOREM ChargesTyped == Spec => []TypeOK
<1>1. IInv => TypeOK
  BY DEF IInv
<1> QED
  BY <1>1, ChargesSafe, PTL

(* Payers are charged what was agreed, whatever the costs service did since:
   getTotalAmount, convertToPenceFromDecimal and the comparison in
   GetPaymentSession together. *)
THEOREM AsAgreed == Spec => []ChargedAsAgreed
<1>1. IInv => ChargedAsAgreed
  BY DEF IInv, ChargedAsAgreed, ChargeTrue
<1> QED
  BY <1>1, ChargesSafe, PTL

(* What CreateExternalPaymentJourney charges is the sum of the very costs
   whose class chose the account. *)
THEOREM CoversItsCosts == Spec => []ChargeCoversItsCosts
<1>1. IInv => ChargeCoversItsCosts
  BY DEF IInv, ChargeCoversItsCosts, ChargeTrue
<1> QED
  BY <1>1, ChargesSafe, PTL

(* Every cost that validateClassOfPayment let through belongs, by its first
   class, to the account addGovPayHeaders chose by the first of them; what
   the comparison of bytes let through beside a first class belongs to none,
   whatever the names of classes are. *)
THEOREM InItsAccount == Spec => []EachCostInItsAccount
<1>1. IInv => EachCostInItsAccount
  <2> SUFFICES ASSUME IInv, NEW j \in DOMAIN charges, charges[j].account # "paypal",
                      NEW i \in DOMAIN charges[j].items
               PROVE  /\ charges[j].items[i].classes # <<>>
                      /\ AccountOf[charges[j].items[i].classes[1]] = charges[j].account
                      /\ \A k \in 2 .. 10 : k \in DOMAIN charges[j].items[i].classes =>
                           AccountOf[charges[j].items[i].classes[k]] = "none"
    BY DEF EachCostInItsAccount
  <2>1. charges[j] \in Charge
    BY ChargeIs DEF IInv
  <2>2. /\ charges[j].items \in Seq(Cost)
        /\ charges[j].account \in {"ch", "legacy", "treasury", "sanctions", "paypal"}
    BY <2>1 DEF Charge
  <2>3. /\ validateClassOfPayment(charges[j].items)
        /\ charges[j].account = addGovPayHeaders(charges[j].items)
    BY DEF IInv, ChargeTrue
  <2> QED
    BY <2>2, <2>3, AccountIs
<1> QED
  BY <1>1, ChargesSafe, PTL

(* A session is called paid only on the strength of a charge of the agreed
   amount that succeeded, or that a callback trusted while GOV.UK Pay said
   created: never on costs reclassified since. *)
THEOREM PaidIsFull == Spec => []PaidInFull
<1>1. IInv => PaidInFull
  <2> SUFFICES ASSUME IInv, NEW p \in Payments, session[p].status = "paid"
               PROVE  \E j \in DOMAIN charges :
                        /\ charges[j].pid = p /\ charges[j].pence = Owed(agreed[p])
                        /\ charges[j].state = "success" \/ charges[j].trusted
    BY DEF PaidInFull
  <2>1. PICK j \in DOMAIN charges :
          charges[j].pid = p /\ (charges[j].state = "success" \/ charges[j].trusted)
    BY DEF IInv, PaidTrue, Grounds
  <2>2. charges[j].pence = Owed(agreed[p])
    BY <2>1 DEF IInv, ChargeTrue
  <2> QED
    BY <2>1, <2>2
<1> QED
  BY <1>1, ChargesSafe, PTL

(* PaymentAuthentication, on the route of the journey, lets the owner of a
   session start its payment, or an API key with a privilege, and nobody else. *)
THEOREM OwnersPay == Spec => []OnlyOwnersPay
<1>1. IInv => OnlyOwnersPay
  BY DEF IInv, OnlyOwnersPay, ChargeTrue, MayPay
<1> QED
  BY <1>1, ChargesSafe, PTL

(* Whatever the caller, no interceptor or handler of any route in register.go
   reads what is not in the request's context. *)
THEOREM ContextThere == Spec => []ContextIsThere
<1>1. Init => ContextIsThere
  BY DEF Init, ContextIsThere
<1>2. IInv /\ ContextIsThere /\ [Next]_vars => ContextIsThere'
  <2> SUFFICES ASSUME IInv, ContextIsThere, [Next]_vars PROVE ContextIsThere'
    OBVIOUS
  <2>1. ASSUME NEW route \in RouteNames, NEW p, NEW w, OtherRequest(route, p, w)
        PROVE  ContextIsThere'
    BY <2>1, OtherRequestKeeps DEF ContextIsThere
  <2>2. ASSUME lost' = lost PROVE ContextIsThere'
    BY <2>2 DEF ContextIsThere
  <2>3. ASSUME NEW s \in Slots, NEW p \in Payments, Arrive(s, p) PROVE lost' = lost
    BY <2>3 DEF Arrive, HandlePatchPaymentSession, CreateExternalPaymentJourney,
       HandleGovPayCallback, HandlePayPalCallback, CheckReads, Begin
  <2>4. ASSUME NEW s \in Slots, Proceed(s) PROVE lost' = lost
    BY <2>4 DEF Proceed, PatchPaymentSession, CreateGovPayPayment, CreatePayPalOrder,
       GovPayCallbackStatus, CapturePayment, CheckAsks
  <2>5. ASSUME NEW p \in Payments, NEW w, NEW i,
               CostsChange(p) \/ CreatePaymentSession(p, w, i)
        PROVE  lost' = lost
    BY <2>5 DEF CostsChange, CreatePaymentSession
  <2>6. ASSUME NEW j, GovPayMoves(j) PROVE lost' = lost
    BY <2>6 DEF GovPayMoves
  <2> QED
    BY <2>1, <2>2, <2>3, <2>4, <2>5, <2>6 DEF Next, vars
<1> QED
  BY <1>1, <1>2, ChargesSafe, PTL DEF Spec

-----------------------------------------------------------------------------
(* One request at a time: what was captured and is not paid is on its way,
   unless the costs changed. *)

LEMMA TheRequest ==
  ASSUME OneAtATime, IInv, NEW s \in Slots, NEW r, req' = [req EXCEPT ![s] = r]
  PROVE  /\ Slots = {s} /\ \A t \in Slots : t = s
         /\ \A t \in Slots : req'[t] = r
BY DEF OneAtATime, IInv, TypeOK

LEMMA StaysReadable ==
  ASSUME Readable, costs' = costs,
         \A p \in Payments : session'[p].status # "" =>
           session[p].status # "" /\ session'[p].amount = session[p].amount
  PROVE  Readable'
BY DEF Readable, GetPaymentSession

(* A step of the request, or of a provider while it waits. *)
LEMMA AloneFrom ==
  ASSUME OneAtATime, IInv, AloneInv, NEW s \in Slots, NEW r, req' = [req EXCEPT ![s] = r],
         costs' = costs, changes' = changes,
         \A p \in Payments : session'[p].status # "" =>
           session[p].status # "" /\ session'[p].amount = session[p].amount,
         ChargesOpened(session', charges'), RequestAlone(session', r),
         changes = 0 => CapturesUnderWay(session', charges', r)
  PROVE  AloneInv'
<1>1. \A t \in Slots : req'[t] = r
  BY TheRequest
<1>2. changes = 0 => Readable'
  BY StaysReadable DEF AloneInv
<1> QED
  BY <1>1, <1>2 DEF AloneInv

(* What the request in slot s knows. *)
LEMMA AloneIs ==
  ASSUME AloneInv, NEW s \in Slots
  PROVE  /\ ChargesOpened(session, charges) /\ RequestAlone(session, req[s])
         /\ changes = 0 => Readable /\ CapturesUnderWay(session, charges, req[s])
BY DEF AloneInv

(* A request that only moves on: it was not about to call a session paid. *)
LEMMA OneTurns ==
  ASSUME OneAtATime, IInv, AloneInv, NEW s \in Slots, NEW r, req' = [req EXCEPT ![s] = r],
         UNCHANGED <<costs, session, charges, changes>>, RequestAlone(session, r),
         req[s].pc # "patch"
  PROVE  AloneInv'
<1>1. changes = 0 => CapturesUnderWay(session', charges', r)
  BY AloneIs DEF CapturesUnderWay
<1>2. ChargesOpened(session', charges') /\ RequestAlone(session', r)
  BY AloneIs
<1> QED
  BY <1>1, <1>2, AloneFrom

LEMMA IdleAlone == \A b : RequestAlone(b, Idle)
BY DEF RequestAlone, Deciding, Idle

(* A request starts from what it read, and only where there is a charge, or a
   journey to make, is the session sure to be opened. *)
LEMMA BeginAlone ==
  ASSUME OneAtATime, IInv, AloneInv, NEW s \in Slots, NEW p \in Payments,
         req[s].pc = "idle", UNCHANGED <<costs, session, charges, changes>>,
         NEW r, req' = [req EXCEPT ![s] = r], r.status = "", r.pid = p,
         r.pc \in {"patch", "journey", "callback", "capture", "check"},
         r.pc # "patch" => Opened(session, p),
         r.pc \in {"callback", "capture", "check"} => session[p].status # "paid"
  PROVE  AloneInv'
<1>1. RequestAlone(session, r)
  BY DEF RequestAlone, Deciding
<1> QED
  BY <1>1, OneTurns

LEMMA ArriveAlone ==
  ASSUME OneAtATime, IInv, AloneInv, NEW s \in Slots, NEW p \in Payments, Arrive(s, p)
  PROVE  AloneInv'
<1>1. /\ req[s].pc = "idle" /\ UNCHANGED <<costs, session, charges, changes>>
  BY DEF Arrive, HandlePatchPaymentSession, CreateExternalPaymentJourney, HandleGovPayCallback,
     HandlePayPalCallback, CheckReads, Begin
<1>2. \A pc : /\ Read(pc, p).pc = pc /\ Read(pc, p).pid = p /\ Read(pc, p).status = ""
  BY DEF Read, Idle
<1>3. ASSUME NEW w \in Callers, NEW m \in Methods, HandlePatchPaymentSession(s, p, w, m)
      PROVE  AloneInv'
  <2> DEFINE r == [Read("patch", p) EXCEPT !.method = m]
  <2>1. r.pc = "patch" /\ r.pid = p /\ r.status = "" /\ req' = [req EXCEPT ![s] = r]
    BY <1>3 DEF Read, Idle, HandlePatchPaymentSession
  <2> HIDE DEF r
  <2> QED
    BY <1>1, <2>1, BeginAlone
<1>4. ASSUME NEW w \in Callers, CreateExternalPaymentJourney(s, p, w)
      PROVE  AloneInv'
  <2> DEFINE r == [Read("journey", p) EXCEPT !.who = w]
  <2>1. /\ r.pc = "journey" /\ r.pid = p /\ r.status = "" /\ req' = [req EXCEPT ![s] = r]
        /\ session[p].status = "in-progress"
    BY <1>4 DEF Read, Idle, CreateExternalPaymentJourney
  <2> HIDE DEF r
  <2> QED
    BY <1>1, <2>1, BeginAlone DEF Opened
<1>5. ASSUME HandleGovPayCallback(s, p) \/ HandlePayPalCallback(s, p) \/ CheckReads(s, p)
      PROVE  AloneInv'
  <2>1. Opened(session, p) /\ session[p].status # "paid"
    <3>1. ASSUME NEW paypal, SentBack(p, paypal) PROVE Opened(session, p)
      BY <3>1, AloneIs DEF SentBack, ChargesOpened
    <3> QED
      BY <1>5, <3>1 DEF HandleGovPayCallback, HandlePayPalCallback, CheckReads, Opened
  <2>2. PICK pc \in {"callback", "capture", "check"} : req' = [req EXCEPT ![s] = Read(pc, p)]
    BY <1>5 DEF HandleGovPayCallback, HandlePayPalCallback, CheckReads
  <2> QED
    BY <1>1, <1>2, <2>1, <2>2, BeginAlone
<1> QED
  BY <1>3, <1>4, <1>5 DEF Arrive

(* The costs service: from then on nothing is claimed of what was captured. *)
LEMMA CostsChangeAlone ==
  ASSUME IInv, AloneInv, NEW p, CostsChange(p)
  PROVE  AloneInv'
<1>1. UNCHANGED <<session, charges, req>> /\ changes' = changes + 1 /\ changes \in Nat
  <2>1. changes \in 0 .. MaxChanges /\ MaxChanges \in Nat
    BY ChargesAssumption DEF IInv, TypeOK
  <2>2. changes \in Nat
    BY <2>1
  <2> QED
    BY <2>2 DEF CostsChange
<1>2. changes' # 0
  BY <1>1
<1> QED
  BY <1>1, <1>2 DEF AloneInv

LEMMA UnchangedAlone ==
  ASSUME AloneInv, UNCHANGED <<costs, session, charges, req, changes>>
  PROVE  AloneInv'
<1>1. Readable => Readable'
  BY StaysReadable
<1> QED
  BY <1>1 DEF AloneInv

(* A session that is created was not opened: no charge is of it, and no
   request that decides about it. *)
LEMMA CreatePaymentSessionAlone ==
  ASSUME IInv, AloneInv, NEW p \in Payments, NEW w \in Callers, NEW incoming,
         CreatePaymentSession(p, w, incoming)
  PROVE  AloneInv'
<1>1. /\ UNCHANGED <<costs, charges, req, changes>> /\ session \in [Payments -> Session]
      /\ session[p].status = "" /\ CostsResponse(costs[p]) = "Success"
      /\ Summable(costs[p].items)
  BY DEF CreatePaymentSession, IInv, TypeOK
<1>2. /\ session'[p].status = "pending" /\ session'[p].amount = getTotalAmount(costs[p].items)
      /\ \A q \in Payments : q # p => session'[q] = session[q]
  BY <1>1 DEF CreatePaymentSession, NoSession
<1>3. \A q \in Payments : Opened(session, q) => session'[q] = session[q]
  BY <1>1, <1>2 DEF Opened
<1>4. ASSUME NEW j \in DOMAIN charges
      PROVE  Opened(session, charges[j].pid) /\ session'[charges[j].pid] = session[charges[j].pid]
  BY <1>3, ChargeIs DEF AloneInv, ChargesOpened, IInv
<1>5. ASSUME NEW s \in Slots PROVE RequestAlone(session', req[s])
  <2>1. RequestAlone(session, req[s]) /\ RequestTrue(session, agreed, charges, req[s])
    BY DEF AloneInv, IInv
  <2>2. CASE Deciding(req[s]) \/ req[s].pc = "journey"
    <3>1. req[s].pid \in Payments /\ Opened(session, req[s].pid)
      BY <2>1, <2>2 DEF RequestAlone, RequestTrue, Deciding
    <3> QED
      BY <1>3, <2>1, <3>1 DEF RequestAlone, Opened
  <2>3. CASE ~(Deciding(req[s]) \/ req[s].pc = "journey")
    BY <2>1, <2>3 DEF RequestAlone
  <2> QED
    BY <2>2, <2>3
<1>6. Readable => Readable'
  <2> SUFFICES ASSUME Readable, NEW q \in Payments, session'[q].status # ""
               PROVE  GetPaymentSession(q)' = "Success"
    BY DEF Readable
  <2>1. CASE q = p
    BY <1>1, <1>2, <2>1 DEF GetPaymentSession
  <2>2. CASE q # p
    BY <1>1, <1>2, <2>2 DEF GetPaymentSession, Readable
  <2> QED
    BY <2>1, <2>2
<1>7. ChargesOpened(session', charges')
  BY <1>1, <1>4 DEF ChargesOpened, Opened
<1>8. \A s \in Slots :
        CapturesUnderWay(session, charges, req[s]) => CapturesUnderWay(session', charges', req[s])
  BY <1>1, <1>4 DEF CapturesUnderWay
<1> QED
  BY <1>1, <1>5, <1>6, <1>7, <1>8 DEF AloneInv

(* A charge that moves, and is not an order that is captured. *)
LEMMA ChargesStayAlone ==
  ASSUME OneAtATime, IInv, AloneInv, NEW s \in Slots, NEW r, req' = [req EXCEPT ![s] = r],
         UNCHANGED <<costs, session, changes>>, RequestAlone(session, r),
         DOMAIN charges' = DOMAIN charges,
         \A j \in DOMAIN charges :
           /\ charges'[j].pid = charges[j].pid /\ charges'[j].account = charges[j].account
           /\ charges[j].account = "paypal" /\ charges'[j].state = "success" =>
                \/ charges[j].state = "success"
                \/ r.pc = "patch" /\ r.pid = charges[j].pid /\ r.status = "paid",
         r = req[s] \/ req[s].pc # "patch"
  PROVE  AloneInv'
<1>1. ChargesOpened(session', charges')
  BY AloneIs DEF ChargesOpened
<1>2. changes = 0 => CapturesUnderWay(session', charges', r)
  BY AloneIs DEF CapturesUnderWay
<1> QED
  BY <1>1, <1>2, AloneFrom

LEMMA GovPayMovesAlone ==
  ASSUME OneAtATime, IInv, AloneInv, NEW j \in DOMAIN charges, GovPayMoves(j)
  PROVE  AloneInv'
<1>1. /\ charges[j].account # "paypal" /\ UNCHANGED <<costs, session, req, changes>>
      /\ charges \in Seq(Charge) /\ charges[j] \in Charge
  BY ChargeIs DEF GovPayMoves, IInv, TypeOK
<1>2. PICK state \in {"success", "rejected"} : charges' = [charges EXCEPT ![j].state = state]
  BY DEF GovPayMoves
<1>3. /\ DOMAIN charges' = DOMAIN charges
      /\ \A k \in DOMAIN charges : /\ charges'[k].pid = charges[k].pid
                                   /\ charges'[k].account = charges[k].account
                                   /\ k # j => charges'[k] = charges[k]
  BY <1>1, <1>2 DEF Charge
<1>4. PICK s \in Slots : Slots = {s}
  BY DEF OneAtATime
<1>5. req' = [req EXCEPT ![s] = req[s]]
  BY <1>1 DEF IInv, TypeOK
<1>6. RequestAlone(session, req[s])
  BY AloneIs
<1> QED
  BY <1>1, <1>3, <1>5, <1>6, ChargesStayAlone

(* An answer turns into an update of a session that is open, and not paid. *)
LEMMA DecidesAlone ==
  ASSUME AloneInv, NEW s \in Slots, req[s].pc \in {"callback", "capture", "check"},
         NEW r, r.pc = "patch", r.pid = req[s].pid, r.status # "pending"
  PROVE  RequestAlone(session, r)
BY AloneIs DEF RequestAlone, Deciding

LEMMA CheckAsksAlone ==
  ASSUME OneAtATime, IInv, AloneInv, NEW s \in Slots, CheckAsks(s)
  PROVE  AloneInv'
<1> DEFINE a == callGovPay(req[s].items, req[s].sess.ref)
           r == [req[s] EXCEPT !.pc = "patch", !.status = GetPaymentStatus(a)]
<1>1. /\ req[s].pc = "check" /\ UNCHANGED <<costs, session, charges, changes>>
      /\ req[s] \in Request
  BY DEF CheckAsks, IInv, TypeOK
<1>2. r.pc = "patch" /\ r.pid = req[s].pid /\ r.status # "pending"
  BY <1>1 DEF GetPaymentStatus, Request
<1>3. req' = [req EXCEPT ![s] = Idle] \/ req' = [req EXCEPT ![s] = r]
  BY DEF CheckAsks
<1> HIDE DEF r
<1> QED
  BY <1>1, <1>2, <1>3, DecidesAlone, IdleAlone, OneTurns

LEMMA GovPayCallbackStatusAlone ==
  ASSUME OneAtATime, IInv, AloneInv, NEW s \in Slots, GovPayCallbackStatus(s)
  PROVE  AloneInv'
<1> DEFINE j == req[s].sess.ref
           a == callGovPay(req[s].items, j)
<1>1. /\ req[s].pc = "callback" /\ UNCHANGED <<costs, session, changes>>
      /\ req[s] \in Request /\ charges \in Seq(Charge)
  BY DEF GovPayCallbackStatus, IInv, TypeOK
<1>2. CASE req' = [req EXCEPT ![s] = Idle] /\ UNCHANGED charges
  BY <1>1, <1>2, IdleAlone, OneTurns
<1>3. ASSUME NEW status \in CheckPaymentProviderStatus(a),
             req' = [req EXCEPT ![s].pc = "patch", ![s].method = req[s].sess.method,
                                ![s].status = status],
             charges' = IF a = "open" /\ status = "paid"
                        THEN [charges EXCEPT ![j].trusted = TRUE] ELSE charges
      PROVE  AloneInv'
  <2> DEFINE r == [req[s] EXCEPT !.pc = "patch", !.method = req[s].sess.method, !.status = status]
  <2>1. status # "pending"
    BY DEF CheckPaymentProviderStatus
  <2>2. r.pc = "patch" /\ r.pid = req[s].pid /\ r.status # "pending" /\ req' = [req EXCEPT ![s] = r]
    BY <1>1, <1>3, <2>1 DEF Request
  <2> HIDE DEF r
  <2>3. RequestAlone(session, r)
    BY <1>1, <2>2, DecidesAlone
  <2>4. DOMAIN charges' = DOMAIN charges
    BY <1>1, <1>3
  <2>5. ASSUME NEW k \in DOMAIN charges
        PROVE  /\ charges'[k].pid = charges[k].pid /\ charges'[k].account = charges[k].account
               /\ charges'[k].state = charges[k].state
    <3>1. charges[k] \in Charge
      BY ChargeIs DEF IInv
    <3> QED
      BY <1>1, <1>3, <3>1 DEF Charge
  <2> QED
    BY <1>1, <2>2, <2>3, <2>4, <2>5, ChargesStayAlone
<1> QED
  BY <1>2, <1>3 DEF GovPayCallbackStatus

(* An order that PayPal captures has the session patched with paid next. *)
LEMMA CapturePaymentAlone ==
  ASSUME OneAtATime, IInv, AloneInv, NEW s \in Slots, CapturePayment(s)
  PROVE  AloneInv'
<1> DEFINE j == req[s].sess.ref
           Patch(status) == [req EXCEPT ![s].pc = "patch", ![s].method = req[s].sess.method,
                                        ![s].status = status]
           open == j # 0 /\ charges[j].account = "paypal" /\ charges[j].state = "open"
<1>1. /\ req[s].pc = "capture" /\ UNCHANGED <<costs, session, changes>>
      /\ req[s] \in Request /\ charges \in Seq(Charge)
  BY DEF CapturePayment, IInv, TypeOK
<1>2. CASE req' = [req EXCEPT ![s] = Idle] /\ UNCHANGED charges
  BY <1>1, <1>2, IdleAlone, OneTurns
<1>3. ASSUME NEW status \in {"paid", "failed"}, open, req' = Patch(status),
             \/ UNCHANGED charges
             \/ \E state \in {"success", "rejected"} :
                  /\ charges' = [charges EXCEPT ![j].state = state]
                  /\ state = "success" => status = "paid"
      PROVE  AloneInv'
  <2> DEFINE r == [req[s] EXCEPT !.pc = "patch", !.method = req[s].sess.method, !.status = status]
  <2>1. /\ r.pc = "patch" /\ r.pid = req[s].pid /\ r.status = status
        /\ req' = [req EXCEPT ![s] = r]
    BY <1>1, <1>3 DEF Request
  <2> HIDE DEF r
  <2>2. RequestAlone(session, r)
    BY <1>1, <2>1, DecidesAlone
  <2>3. j \in DOMAIN charges /\ charges[j].pid = req[s].pid
    BY <1>1, <1>3, InFlight DEF ChargeOf
  <2>4. DOMAIN charges' = DOMAIN charges
    BY <1>1, <1>3
  <2>5. ASSUME NEW k \in DOMAIN charges
        PROVE  /\ charges'[k].pid = charges[k].pid /\ charges'[k].account = charges[k].account
               /\ charges'[k].state = "success" =>
                    charges[k].state = "success" \/ (k = j /\ status = "paid")
    <3>1. charges[k] \in Charge
      BY ChargeIs DEF IInv
    <3>2. CASE UNCHANGED charges
      BY <3>2
    <3>3. ASSUME NEW state \in {"success", "rejected"},
                 charges' = [charges EXCEPT ![j].state = state], state = "success" => status = "paid"
          PROVE  /\ charges'[k].pid = charges[k].pid /\ charges'[k].account = charges[k].account
                 /\ charges'[k].state = "success" =>
                      charges[k].state = "success" \/ (k = j /\ status = "paid")
      <4> HIDE DEF j
      <4>1. CASE k = j
        BY <1>1, <3>1, <3>3, <4>1 DEF Charge
      <4>2. CASE k # j
        BY <1>1, <3>3, <4>2
      <4> QED
        BY <4>1, <4>2
    <3> QED
      BY <1>3, <3>2, <3>3
  <2>6. \A k \in DOMAIN charges :
          charges'[k].state = "success" =>
            \/ charges[k].state = "success"
            \/ r.pc = "patch" /\ r.pid = charges[k].pid /\ r.status = "paid"
    BY <2>1, <2>3, <2>5
  <2> QED
    BY <1>1, <2>1, <2>2, <2>4, <2>5, <2>6, ChargesStayAlone
<1> QED
  BY <1>2, <1>3 DEF CapturePayment

(* The update that follows a capture finds a session that is open, and that
   it can read unless its costs changed: it is paid then.  Nothing else was
   about to be written over what is paid. *)
LEMMA PatchPaymentSessionAlone ==
  ASSUME OneAtATime, IInv, AloneInv, NEW s \in Slots, PatchPaymentSession(s)
  PROVE  AloneInv'
<1> DEFINE r == req[s]
           p == r.pid
           status == IF session[p].status = "pending" THEN "in-progress"
                     ELSE IF r.status = "" THEN session[p].status ELSE r.status
<1>1. /\ r.pc = "patch" /\ req' = [req EXCEPT ![s] = Idle]
      /\ UNCHANGED <<costs, charges, changes>>
  BY DEF PatchPaymentSession
<1>2. /\ p \in Payments /\ session[p].status # "" /\ session[p] \in Session
      /\ session \in [Payments -> Session]
  BY <1>1, InFlight DEF IInv, TypeOK
<1>3. /\ ChargesOpened(session, charges) /\ RequestAlone(session, r)
      /\ changes = 0 => Readable /\ CapturesUnderWay(session, charges, r)
  BY AloneIs
<1>4. RequestAlone(session', Idle)
  BY IdleAlone
<1>5. CASE GetPaymentSession(p) # "Success" /\ UNCHANGED session
  <2>1. changes # 0
    BY <1>2, <1>3, <1>5 DEF Readable
  <2> QED
    BY <1>1, <1>3, <1>4, <1>5, <2>1, AloneFrom
<1>6. CASE session' = [session EXCEPT
             ![p].status = IF @ = "pending" THEN "in-progress"
                           ELSE IF r.status = "" THEN @ ELSE r.status,
             ![p].method = IF r.method = "" THEN @ ELSE r.method]
  <2>1. /\ session'[p].status = status /\ session'[p].amount = session[p].amount
        /\ \A q \in Payments : q # p => session'[q] = session[q]
    BY <1>2, <1>6 DEF Session
  <2>2. status # "" /\ (Opened(session, p) => status # "pending")
    BY <1>2, <1>3 DEF RequestAlone, Opened
  <2>3. session[p].status = "paid" => status = "paid"
    BY <1>1, <1>3 DEF RequestAlone, Deciding
  <2>4. Opened(session, p) /\ r.status = "paid" => status = "paid"
    BY DEF Opened
  <2> HIDE DEF status, p, r
  <2>5. \A q \in Payments : Opened(session, q) => Opened(session', q)
    BY <2>1, <2>2 DEF Opened
  <2>6. ASSUME NEW j \in DOMAIN charges
        PROVE  /\ charges[j].pid \in Payments /\ Opened(session, charges[j].pid)
               /\ Opened(session', charges[j].pid)
    BY <1>3, <2>5, ChargeIs DEF ChargesOpened, IInv
  <2>7. ChargesOpened(session', charges')
    BY <1>1, <2>6 DEF ChargesOpened
  <2>8. ASSUME CapturesUnderWay(session, charges, r), NEW j \in DOMAIN charges,
               charges[j].account = "paypal", charges[j].state = "success"
        PROVE  session'[charges[j].pid].status = "paid"
    <3>1. session[charges[j].pid].status = "paid" \/ (p = charges[j].pid /\ r.status = "paid")
      BY <2>8 DEF CapturesUnderWay, p
    <3> QED
      BY <2>1, <2>3, <2>4, <2>6, <3>1
  <2>9. changes = 0 => CapturesUnderWay(session', charges', Idle)
    BY <1>1, <1>3, <2>8 DEF CapturesUnderWay
  <2>10. \A q \in Payments : session'[q].status # "" =>
           session[q].status # "" /\ session'[q].amount = session[q].amount
    BY <1>2, <2>1
  <2> QED
    BY <1>1, <1>4, <2>7, <2>9, <2>10, AloneFrom
<1> QED
  BY <1>5, <1>6 DEF PatchPaymentSession

(* A provider's new payment is open, and of a session that is in progress. *)
LEMMA ChargedAlone ==
  ASSUME OneAtATime, IInv, AloneInv, NEW s \in Slots, req[s].pc = "journey",
         req' = [req EXCEPT ![s] = Idle], UNCHANGED <<costs, changes>>,
         \/ \E account \in {"ch", "legacy", "treasury", "sanctions", "paypal", "none"} :
              \E pence : ChargeFor(req[s], account, pence)
         \/ UNCHANGED <<charges, session>>
  PROVE  AloneInv'
<1>1. RequestAlone(session', Idle)
  BY IdleAlone
<1>2. CASE UNCHANGED <<charges, session>>
  BY <1>2, IdleAlone, OneTurns
<1>3. ASSUME NEW account, NEW pence, ChargeFor(req[s], account, pence)
      PROVE  AloneInv'
  <2> DEFINE r == req[s]
             p == r.pid
             j == Len(charges) + 1
             new == [pid |-> p, account |-> account, pence |-> pence, items |-> r.items,
                     starter |-> r.who, state |-> "open", trusted |-> FALSE]
  <2>1. /\ charges \in Seq(Charge) /\ charges' = Append(charges, new)
        /\ session' = [session EXCEPT ![p].ref = Len(charges')]
        /\ session \in [Payments -> Session] /\ p \in Payments
        /\ Opened(session, p)
    BY <1>3, InFlight, AloneIs DEF ChargeFor, IInv, TypeOK, RequestAlone
  <2>2. new.pid = p /\ new.state = "open"
    OBVIOUS
  <2> HIDE DEF new
  <2>3. /\ DOMAIN charges' = DOMAIN charges \cup {j} /\ charges'[j] = new
        /\ \A k \in DOMAIN charges : charges'[k] = charges[k]
    BY <2>1
  <2>4. \A q \in Payments : /\ session'[q].status = session[q].status
                            /\ session'[q].amount = session[q].amount
    BY <2>1 DEF Session
  <2> HIDE DEF j, p, r
  <2>5. \A k \in DOMAIN charges : charges[k].pid \in Payments
    BY ChargeIs DEF IInv
  <2>6. ChargesOpened(session', charges')
    BY <2>1, <2>2, <2>3, <2>4, <2>5, AloneIs DEF ChargesOpened, Opened
  <2>7. changes = 0 => CapturesUnderWay(session', charges', Idle)
    <3>1. changes = 0 => CapturesUnderWay(session, charges, req[s])
      BY AloneIs
    <3> QED
      BY <2>2, <2>3, <2>4, <2>5, <3>1 DEF CapturesUnderWay
  <2> QED
    BY <1>1, <2>4, <2>6, <2>7, AloneFrom
<1> QED
  BY <1>2, <1>3

LEMMA ProceedAlone ==
  ASSUME OneAtATime, IInv, AloneInv, NEW s \in Slots, Proceed(s)
  PROVE  AloneInv'
<1>1. CASE CreateGovPayPayment(s)
  <2>1. addGovPayHeaders(req[s].items) # "none" =>
          addGovPayHeaders(req[s].items) \in {"ch", "legacy", "treasury", "sanctions"}
    BY <1>1, InFlight, AccountIs DEF CreateGovPayPayment
  <2> QED
    BY <1>1, <2>1, ChargedAlone DEF CreateGovPayPayment
<1>2. CASE CreatePayPalOrder(s)
  BY <1>2, ChargedAlone DEF CreatePayPalOrder
<1> QED
  BY <1>1, <1>2, PatchPaymentSessionAlone, GovPayCallbackStatusAlone, CapturePaymentAlone,
     CheckAsksAlone DEF Proceed

LEMMA InitAlone == Init => AloneInv
<1> SUFFICES ASSUME Init PROVE AloneInv
  OBVIOUS
<1>1. DOMAIN charges = {} /\ \A s \in Slots : req[s] = Idle
  BY DEF Init
<1>2. \A p \in Payments : session[p].status = ""
  BY DEF Init, NoSession
<1>3. Readable /\ ChargesOpened(session, charges)
  BY <1>1, <1>2 DEF Readable, ChargesOpened
<1> QED
  BY <1>1, <1>3, IdleAlone DEF AloneInv, CapturesUnderWay

LEMMA NextAlone == OneAtATime /\ IInv /\ AloneInv /\ [Next]_vars => AloneInv'
<1> SUFFICES ASSUME OneAtATime, IInv, AloneInv, [Next]_vars PROVE AloneInv'
  OBVIOUS
<1>1. CASE UNCHANGED vars
  BY <1>1, UnchangedAlone DEF vars
<1>2. ASSUME NEW route, NEW p, NEW w, OtherRequest(route, p, w) PROVE AloneInv'
  BY <1>2, UnchangedAlone DEF OtherRequest
<1> QED
  BY <1>1, <1>2, CostsChangeAlone, CreatePaymentSessionAlone, ArriveAlone, ProceedAlone,
     GovPayMovesAlone DEF Next

(* Requests that come one at a time, with any number of payments and whatever
   the costs service does, keep to AloneInv. *)
THEOREM ChargesAlone == OneAtATime => (Spec => []AloneInv)
<1> SUFFICES ASSUME OneAtATime PROVE Spec => []AloneInv
  OBVIOUS
<1>1. IInv /\ AloneInv /\ [Next]_vars => AloneInv'
  BY NextAlone
<1> QED
  BY <1>1, InitAlone, ChargesSafe, PTL DEF Spec

(* Of what PayPal captured while no costs changed, everything is recorded:
   HandlePayPalCallback captures an order before PatchPaymentSession reads the
   costs again, and it is this read alone that can lose the payment. *)
THEOREM CapturedIsPaid == OneAtATime => (Spec => []UnrecordedCaptureMeansDrift)
<1> SUFFICES ASSUME OneAtATime PROVE Spec => []UnrecordedCaptureMeansDrift
  OBVIOUS
<1>1. AloneInv => UnrecordedCaptureMeansDrift
  <2>1. PICK s \in Slots : Slots = {s}
    BY DEF OneAtATime
  <2> QED
    BY <2>1 DEF AloneInv, UnrecordedCaptureMeansDrift, CapturesUnderWay
<1> QED
  BY <1>1, ChargesAlone, PTL
=============================================================================
