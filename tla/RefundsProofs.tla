--------------------------- MODULE RefundsProofs ---------------------------
(***************************************************************************)
(* The safety of refunds, for any number of payments, refunds, concurrent  *)
(* requests, files and faults.                                             *)
(*                                                                         *)
(* What IInv says of a session and of a request's copies of sessions       *)
(* survives whatever the providers and the other requests do meanwhile     *)
(* (Grows), so that each action is left with the one request and the one   *)
(* session it changes.                                                     *)
(***************************************************************************)
EXTENDS RefundsInvariants, SumProofs, SequenceTheorems

(* What only grows: refunds made keep their payment and amount, and a settled
   one its state; refunds that came in one by one are told from the others
   when they are made; and an array that has something never becomes empty. *)
Grows(m, n) ==
  /\ DOMAIN m \subseteq DOMAIN n
  /\ \A i \in DOMAIN m :
       /\ n[i].pid = m[i].pid /\ n[i].amount = m[i].amount
       /\ m[i].state # "submitted" => n[i].state = m[i].state

Widens(m, listed, more) ==
  listed \subseteq DOMAIN m /\ listed \subseteq more /\ more \cap DOMAIN m \subseteq listed

Fills(d, e) == \A p \in Payments : d[p] # <<>> => e[p] # <<>>

LEMMA Still ==
  ASSUME NEW m, NEW listed \in SUBSET DOMAIN m, NEW d
  PROVE  Grows(m, m) /\ Widens(m, listed, listed) /\ Fills(d, d)
BY DEF Grows, Widens, Fills

(* True arrays stay true. *)
LEMMA ListStays ==
  ASSUME NEW m, NEW n, Grows(m, n), NEW listed, NEW more, Widens(m, listed, more),
         NEW list, NEW p, ListTrue(m, listed, list, p)
  PROVE  ListTrue(n, more, list, p)
BY DEF ListTrue, StatusTrue, Grows, Widens

LEMMA BulkStays ==
  ASSUME NEW m, NEW n, Grows(m, n), NEW listed, NEW more, Widens(m, listed, more),
         NEW entries, NEW p, BulkTrue(m, listed, entries, p)
  PROVE  BulkTrue(n, more, entries, p)
BY DEF BulkTrue, EntryTrue, Grows, Widens

LEMMA CopyStays ==
  ASSUME NEW m, NEW n, Grows(m, n), NEW listed, NEW more, Widens(m, listed, more),
         NEW b, NEW c, Fills(b, c), NEW x, CopyTrue(m, listed, b, x)
  PROVE  CopyTrue(n, more, c, x)
BY ListStays, BulkStays DEF CopyTrue, Fills

(* The first refund of an array. *)
LEMMA FirstTrue ==
  ASSUME NEW list \in Seq(Refund), list # <<>>, NEW m, NEW listed \in SUBSET DOMAIN m, NEW p,
         ListTrue(m, listed, list, p)
  PROVE  1 \in DOMAIN list /\ FirstId(list) \in listed /\ FirstId(list) \in DOMAIN m
BY DEF ListTrue, FirstId

(* True requests stay true. *)
LEMMA RequestStays ==
  ASSUME NEW m, NEW n, Grows(m, n), NEW listed, NEW more, Widens(m, listed, more),
         NEW d, NEW e, Fills(d, e), NEW b, NEW c, Fills(b, c),
         NEW r \in Request, RequestOK(r), RequestTrue(m, listed, d, b, r)
  PROVE  RequestTrue(n, more, e, c, r)
<1>1. \A x \in r.todo \cup {r.sess} : CopyTrue(n, more, c, x)
  BY CopyStays DEF RequestTrue
<1>2. r.done \subseteq FinalIn(n)
  BY DEF RequestTrue, FinalIn, Grows
<1>3. PendingTrue(n, e, r)
  <2>1. CASE r.pc \in {"pending-next", "pending-tell"}
    BY <2>1 DEF RequestTrue, PendingTrue, RequestOK, Fills
  <2>2. CASE r.pc = "pending-patch"
    <3>1. /\ r.sess.list \in Seq(Refund) /\ r.sess.list # <<>> /\ r.sess.pid \in Payments
          /\ ListTrue(m, listed, r.sess.list, r.sess.pid)
      BY <2>2 DEF RequestTrue, CopyTrue, PendingTrue, Request, Sessions, RequestOK
    <3>2. FirstId(r.sess.list) \in DOMAIN m
      BY <3>1, FirstTrue DEF Widens
    <3>3. r.good => n[FirstId(r.sess.list)].state = "success"
      BY <2>2, <3>2 DEF RequestTrue, PendingTrue, Grows
    <3>4. \A x \in r.todo : x.list # <<>> /\ e[x.pid] # <<>>
      BY <2>2 DEF RequestTrue, PendingTrue, RequestOK, Fills
    <3> QED
      BY <2>2, <3>1, <3>3, <3>4 DEF RequestTrue, PendingTrue, Fills
  <2> QED
    BY <2>1, <2>2 DEF PendingTrue
<1> QED
  BY <1>1, <1>2, <1>3 DEF RequestTrue

(* What is to be shown of a step that moves the request in slot s to r. *)
LEMMA OneSlot ==
  ASSUME TypeOK, NEW listed, NEW more, CopiesTrue(made, listed, refunds, bulk, req),
         Grows(made, made'), Widens(made, listed, more), more \subseteq DOMAIN made',
         Fills(refunds, refunds'), Fills(bulk, bulk'),
         \A p \in Payments :
           ListTrue(made', more, refunds'[p], p) /\ BulkTrue(made', more, bulk'[p], p),
         NEW s \in Slots, NEW r, req' = [req EXCEPT ![s] = r],
         RequestTrue(made', more, refunds', bulk', r)
  PROVE  CopiesTrue(made', more, refunds', bulk', req')
<1>1. req'[s] = r /\ \A t \in Slots : t # s => req'[t] = req[t]
  BY DEF TypeOK
<1>2. ASSUME NEW t \in Slots PROVE RequestTrue(made', more, refunds', bulk', req'[t])
  <2>1. CASE t = s
    BY <1>1, <2>1
  <2>2. CASE t # s
    <3>1. /\ req[t] \in Request /\ RequestOK(req[t]) /\ req'[t] = req[t]
          /\ RequestTrue(made, listed, refunds, bulk, req[t])
      BY <1>1, <2>2 DEF TypeOK, CopiesTrue
    <3> QED
      BY <3>1, RequestStays
  <2> QED
    BY <2>1, <2>2
<1> QED
  BY <1>2 DEF CopiesTrue

(* Of a step that moves none of them. *)
LEMMA NoSlot ==
  ASSUME TypeOK, NEW listed, CopiesTrue(made, listed, refunds, bulk, req),
         Grows(made, made'), UNCHANGED <<refunds, bulk, req>>
  PROVE  CopiesTrue(made', listed, refunds', bulk', req')
<1>1. /\ listed \subseteq DOMAIN made /\ Widens(made, listed, listed) /\ listed \subseteq DOMAIN made'
      /\ Fills(refunds, refunds') /\ Fills(bulk, bulk')
  BY DEF CopiesTrue, Widens, Grows, Fills
<1>2. ASSUME NEW t \in Slots PROVE RequestTrue(made', listed, refunds', bulk', req'[t])
  <2>1. /\ req[t] \in Request /\ RequestOK(req[t]) /\ req'[t] = req[t]
        /\ RequestTrue(made, listed, refunds, bulk, req[t])
    BY DEF TypeOK, CopiesTrue
  <2> QED
    BY <1>1, <2>1, RequestStays
<1>3. ASSUME NEW p \in Payments
      PROVE  ListTrue(made', listed, refunds'[p], p) /\ BulkTrue(made', listed, bulk'[p], p)
  BY <1>1, ListStays, BulkStays DEF CopiesTrue
<1> QED
  BY <1>1, <1>2, <1>3 DEF CopiesTrue

-----------------------------------------------------------------------------
(* The money. *)

(* The invariant's sum is Total. *)
LEMMA MoneyIs ==
  ASSUME NEW m, NEW l
  PROVE  MoneyTrue(m, l) <=>
           /\ \A i \in DOMAIN m : m[i].amount \in 1 .. Amount
           /\ \A p \in Payments : l[p] >= 0 /\ l[p] + Total(m, HeldOf(m, p)) = Amount
BY DEF MoneyTrue, Total

LEMMA HeldFinite ==
  ASSUME NEW m \in Seq(RefundMade), NEW p
  PROVE  /\ IsFiniteSet(HeldOf(m, p))
         /\ HeldOf(m, p) \subseteq DOMAIN m
<1>1. Len(m) \in Nat /\ DOMAIN m = 1 .. Len(m)
  OBVIOUS
<1>2. IsFiniteSet(1 .. Len(m))
  BY <1>1, FS_Interval
<1> QED
  BY <1>1, <1>2, FS_Subset DEF HeldOf

(* Amounts are natural numbers, and one that is held is part of the sum. *)
LEMMA HeldTotal ==
  ASSUME NEW m \in Seq(RefundMade), NEW p,
         \A i \in DOMAIN m : m[i].amount \in 1 .. Amount
  PROVE  /\ Total(m, HeldOf(m, p)) \in Nat
         /\ \A i \in HeldOf(m, p) :
              /\ Total(m, HeldOf(m, p)) = m[i].amount + Total(m, HeldOf(m, p) \ {i})
              /\ Total(m, HeldOf(m, p) \ {i}) \in Nat
<1>1. Amount \in Nat
  BY RefundAssumption
<1>2. IsFiniteSet(HeldOf(m, p)) /\ \A i \in HeldOf(m, p) : m[i].amount \in Nat
  BY <1>1, HeldFinite
<1> HIDE DEF HeldOf
<1>3. \A i \in HeldOf(m, p) : IsFiniteSet(HeldOf(m, p) \ {i})
  BY <1>2, FS_RemoveElement
<1> QED
  BY <1>2, <1>3, Totals

(* A refund of at most what is left is made. *)
LEMMA MoneyGiven ==
  ASSUME NEW m \in Seq(RefundMade), NEW n \in Seq(RefundMade), NEW l, NEW k, MoneyTrue(m, l),
         NEW p \in Payments, NEW amount \in 1 .. Amount, l[p] \in Int, amount <= l[p],
         k[p] = l[p] - amount, \A q \in Payments : q # p => k[q] = l[q],
         NEW i, i \notin DOMAIN m, DOMAIN n = DOMAIN m \cup {i},
         n[i].pid = p, n[i].amount = amount, n[i].state # "error",
         \A j \in DOMAIN m : n[j] = m[j]
  PROVE  MoneyTrue(n, k)
<1>1. /\ Amount \in Nat /\ amount \in Nat /\ \A j \in DOMAIN m : m[j].amount \in 1 .. Amount
      /\ \A q \in Payments : l[q] >= 0 /\ l[q] + Total(m, HeldOf(m, q)) = Amount
  BY MoneyIs, RefundAssumption
<1>2. \A j \in DOMAIN n : n[j].amount \in 1 .. Amount
  BY <1>1
<1>3. i \in HeldOf(n, p) /\ HeldOf(n, p) \ {i} = HeldOf(m, p)
  <2>1. i \in HeldOf(n, p)
    BY DEF HeldOf
  <2>2. \A h : h \in HeldOf(n, p) \ {i} <=> h \in HeldOf(m, p)
    BY DEF HeldOf
  <2> QED
    BY <2>1, <2>2
<1>4. \A q \in Payments : q # p => HeldOf(n, q) = HeldOf(m, q)
  BY DEF HeldOf
<1>5. ASSUME NEW q \in Payments PROVE Total(n, HeldOf(m, q)) = Total(m, HeldOf(m, q))
  <2>1. IsFiniteSet(HeldOf(m, q)) /\ HeldOf(m, q) \subseteq DOMAIN m
    BY HeldFinite
  <2>2. \A j \in HeldOf(m, q) : n[j].amount = m[j].amount
    BY <2>1
  <2> QED
    BY <2>1, <2>2, TotalsAgree
<1>6. Total(n, HeldOf(n, p)) = amount + Total(m, HeldOf(m, p))
  <2>1. Total(n, HeldOf(n, p)) = n[i].amount + Total(n, HeldOf(n, p) \ {i})
    BY <1>2, <1>3, HeldTotal
  <2> QED
    BY <1>3, <1>5, <2>1
<1>7. k[p] >= 0 /\ k[p] + Total(n, HeldOf(n, p)) = Amount
  <2>1. Total(m, HeldOf(m, p)) \in Nat
    BY <1>1, HeldTotal
  <2> QED
    BY <1>1, <1>6, <2>1
<1>8. ASSUME NEW q \in Payments, q # p PROVE k[q] >= 0 /\ k[q] + Total(n, HeldOf(n, q)) = Amount
  <2>1. Total(n, HeldOf(n, q)) = Total(m, HeldOf(m, q))
    BY <1>4, <1>5, <1>8
  <2> QED
    BY <1>1, <1>8, <2>1
<1> QED
  BY <1>2, <1>7, <1>8, MoneyIs

(* A refund settles; the money of one that fails comes back. *)
Settled(m, n, l, k, i) ==
  /\ i \in DOMAIN m /\ m[i].pid \in Payments /\ l[m[i].pid] \in Int
  /\ m[i].state # "error" /\ DOMAIN n = DOMAIN m
  /\ \A j \in DOMAIN m : n[j].amount = m[j].amount /\ n[j].pid = m[j].pid
  /\ \A j \in DOMAIN m : j # i => n[j].state = m[j].state
  /\ k[m[i].pid] = IF n[i].state = "error" THEN l[m[i].pid] + m[i].amount ELSE l[m[i].pid]
  /\ \A q \in Payments : q # m[i].pid => k[q] = l[q]

LEMMA MoneySettled ==
  ASSUME NEW m \in Seq(RefundMade), NEW n \in Seq(RefundMade), NEW l, NEW k, NEW i,
         MoneyTrue(m, l), Settled(m, n, l, k, i)
  PROVE  MoneyTrue(n, k) /\ l[m[i].pid] + m[i].amount <= Amount
<1> DEFINE p == m[i].pid
<1>0. /\ i \in DOMAIN m /\ p \in Payments /\ m[i].pid = p /\ l[p] \in Int
      /\ m[i].state # "error" /\ DOMAIN n = DOMAIN m
      /\ \A j \in DOMAIN m : n[j].amount = m[j].amount /\ n[j].pid = m[j].pid
      /\ \A j \in DOMAIN m : j # i => n[j].state = m[j].state
      /\ k[p] = IF n[i].state = "error" THEN l[p] + m[i].amount ELSE l[p]
      /\ \A q \in Payments : q # p => k[q] = l[q]
  BY DEF Settled
<1> HIDE DEF p
<1>1. /\ Amount \in Nat /\ \A j \in DOMAIN m : m[j].amount \in 1 .. Amount
      /\ \A q \in Payments : l[q] >= 0 /\ l[q] + Total(m, HeldOf(m, q)) = Amount
  BY MoneyIs, RefundAssumption
<1>2. m[i].amount \in Nat /\ i \in HeldOf(m, p)
  BY <1>0, <1>1 DEF HeldOf
<1>3. /\ Total(m, HeldOf(m, p)) = m[i].amount + Total(m, HeldOf(m, p) \ {i})
      /\ Total(m, HeldOf(m, p) \ {i}) \in Nat
  BY <1>1, <1>2, HeldTotal
<1>4. /\ n[i].state # "error" => \A q : HeldOf(n, q) = HeldOf(m, q)
      /\ n[i].state = "error" => HeldOf(n, p) = HeldOf(m, p) \ {i}
      /\ \A q : q # p => HeldOf(n, q) = HeldOf(m, q)
  <2>1. ASSUME n[i].state # "error", NEW q PROVE HeldOf(n, q) = HeldOf(m, q)
    BY <1>0, <2>1 DEF HeldOf
  <2>2. ASSUME n[i].state = "error" PROVE HeldOf(n, p) = HeldOf(m, p) \ {i}
    BY <1>0, <2>2 DEF HeldOf
  <2>3. ASSUME NEW q, q # p PROVE HeldOf(n, q) = HeldOf(m, q)
    BY <1>0, <2>3 DEF HeldOf
  <2> QED
    BY <2>1, <2>2, <2>3
<1>5. ASSUME NEW q PROVE Total(n, HeldOf(n, q)) = Total(m, HeldOf(n, q))
  <2>1. IsFiniteSet(HeldOf(n, q)) /\ HeldOf(n, q) \subseteq DOMAIN n
    BY HeldFinite
  <2>2. \A j \in HeldOf(n, q) : n[j].amount = m[j].amount
    BY <1>0, <2>1
  <2> QED
    BY <2>1, <2>2, TotalsAgree
<1>6. ASSUME NEW q \in Payments, q # p \/ n[i].state # "error"
      PROVE  k[q] >= 0 /\ k[q] + Total(n, HeldOf(n, q)) = Amount
  <2>1. HeldOf(n, q) = HeldOf(m, q) /\ k[q] = l[q]
    BY <1>0, <1>4, <1>6
  <2>2. Total(n, HeldOf(n, q)) = Total(m, HeldOf(m, q))
    BY <1>5, <2>1
  <2> QED
    BY <1>1, <2>1, <2>2
<1>7. ASSUME n[i].state = "error"
      PROVE  k[p] >= 0 /\ k[p] + Total(n, HeldOf(n, p)) = Amount
  <2>1. Total(n, HeldOf(n, p)) = Total(m, HeldOf(m, p) \ {i})
    BY <1>4, <1>5, <1>7
  <2>2. k[p] = l[p] + m[i].amount
    BY <1>0, <1>7
  <2>3. l[p] \in Int /\ l[p] >= 0 /\ l[p] + Total(m, HeldOf(m, p)) = Amount
    BY <1>0, <1>1
  <2> QED
    BY <1>1, <1>2, <1>3, <2>1, <2>2, <2>3
<1>8. l[p] + m[i].amount <= Amount
  <2>1. l[p] \in Int /\ l[p] + Total(m, HeldOf(m, p)) = Amount
    BY <1>0, <1>1
  <2> QED
    BY <1>1, <1>2, <1>3, <2>1
<1>9. \A j \in DOMAIN n : n[j].amount \in 1 .. Amount
  BY <1>0, <1>1
<1> QED
  BY <1>6, <1>7, <1>8, <1>9, MoneyIs DEF p

-----------------------------------------------------------------------------
(* Steps, by what they change. *)

(* A request, and what consumers are told that it was to tell them. *)
LEMMA Tells ==
  ASSUME IInv, NEW s \in Slots, NEW r \in Request, RequestOK(r), req' = [req EXCEPT ![s] = r],
         UNCHANGED <<refunds, bulk, made, left>>, told' \subseteq told \cup req[s].done,
         overlapped' \in BOOLEAN, issued' \in 0 .. MaxRequests, faults' \in 0 .. MaxFaults,
         \A listed \in SUBSET DOMAIN made :
           CopiesTrue(made, listed, refunds, bulk, req) => RequestTrue(made, listed, refunds, bulk, r)
  PROVE  IInv'
<1>1. TypeOK /\ told \subseteq FinalIn(made) /\ MoneyTrue(made, left)
  BY DEF IInv
<1>2. PICK listed \in SUBSET DOMAIN made : CopiesTrue(made, listed, refunds, bulk, req)
  BY DEF IInv
<1>3. TypeOK'
  BY <1>1 DEF TypeOK, Request
<1>4. told' \subseteq FinalIn(made') /\ MoneyTrue(made', left')
  BY <1>1, <1>2 DEF CopiesTrue, RequestTrue
<1>5. CopiesTrue(made', listed, refunds', bulk', req')
  <2>1. /\ Grows(made, made') /\ Widens(made, listed, listed)
        /\ Fills(refunds, refunds') /\ Fills(bulk, bulk')
    BY Still
  <2>2. \A p \in Payments :
          ListTrue(made', listed, refunds'[p], p) /\ BulkTrue(made', listed, bulk'[p], p)
    BY <1>2 DEF CopiesTrue
  <2>3. RequestTrue(made', listed, refunds', bulk', r)
    BY <1>2
  <2> QED
    BY <1>1, <1>2, <2>1, <2>2, <2>3, OneSlot
<1> QED
  BY <1>3, <1>4, <1>5 DEF IInv

(* Only a request. *)
LEMMA Moves ==
  ASSUME IInv, NEW s \in Slots, NEW r \in Request, RequestOK(r), req' = [req EXCEPT ![s] = r],
         UNCHANGED <<refunds, bulk, made, left, told>>,
         overlapped' \in BOOLEAN, issued' \in 0 .. MaxRequests, faults' \in 0 .. MaxFaults,
         \A listed \in SUBSET DOMAIN made :
           CopiesTrue(made, listed, refunds, bulk, req) => RequestTrue(made, listed, refunds, bulk, r)
  PROVE  IInv'
<1>1. UNCHANGED <<refunds, bulk, made, left>> /\ told' \subseteq told \cup req[s].done
  OBVIOUS
<1> QED
  BY <1>1, Tells

(* A request and the arrays of one session. *)
LEMMA Writes ==
  ASSUME IInv, NEW s \in Slots, NEW r \in Request, RequestOK(r), req' = [req EXCEPT ![s] = r],
         NEW p \in Payments, NEW list \in Seq(Refund), NEW entries \in Seq(BulkRefund),
         refunds' = [refunds EXCEPT ![p] = list], bulk' = [bulk EXCEPT ![p] = entries],
         refunds[p] # <<>> => list # <<>>, bulk[p] # <<>> => entries # <<>>,
         UNCHANGED <<made, left, told, outside>>,
         \A listed \in SUBSET DOMAIN made :
           CopiesTrue(made, listed, refunds, bulk, req) =>
             /\ ListTrue(made, listed, list, p) /\ BulkTrue(made, listed, entries, p)
             /\ RequestTrue(made, listed, refunds', bulk', r)
  PROVE  IInv'
<1>1. TypeOK /\ told \subseteq FinalIn(made) /\ MoneyTrue(made, left)
  BY DEF IInv
<1>2. PICK listed \in SUBSET DOMAIN made : CopiesTrue(made, listed, refunds, bulk, req)
  BY DEF IInv
<1>3. TypeOK'
  BY <1>1 DEF TypeOK, outside
<1>4. told' \subseteq FinalIn(made') /\ MoneyTrue(made', left')
  BY <1>1
<1>5. /\ refunds'[p] = list /\ \A q \in Payments : q # p => refunds'[q] = refunds[q]
      /\ bulk'[p] = entries /\ \A q \in Payments : q # p => bulk'[q] = bulk[q]
  BY <1>1 DEF TypeOK
<1>6. Fills(refunds, refunds') /\ Fills(bulk, bulk')
  BY <1>5 DEF Fills
<1>7. CopiesTrue(made', listed, refunds', bulk', req')
  <2>1. Grows(made, made') /\ Widens(made, listed, listed)
    BY Still
  <2>2. ASSUME NEW q \in Payments
        PROVE  ListTrue(made', listed, refunds'[q], q) /\ BulkTrue(made', listed, bulk'[q], q)
    <3>1. CASE q = p
      BY <1>2, <1>5, <3>1
    <3>2. CASE q # p
      BY <1>2, <1>5, <3>2 DEF CopiesTrue
    <3> QED
      BY <3>1, <3>2
  <2>3. RequestTrue(made', listed, refunds', bulk', r)
    BY <1>2
  <2> QED
    BY <1>1, <1>2, <1>6, <2>1, <2>2, <2>3, OneSlot
<1> QED
  BY <1>3, <1>4, <1>7 DEF IInv

(* What a provider does when it makes a refund. *)
LEMMA RefundMadeIs ==
  ASSUME TypeOK, NEW p \in Payments, NEW amount \in 1 .. Amount,
         NEW state \in {"submitted", "success"}, MakeRefund(p, amount, state)
  PROVE  /\ made' \in Seq(RefundMade) /\ Len(made') <= MaxRefunds
         /\ NewId \in Ids /\ NewId \notin DOMAIN made /\ DOMAIN made' = DOMAIN made \cup {NewId}
         /\ made'[NewId] = [pid |-> p, amount |-> amount, state |-> state]
         /\ \A j \in DOMAIN made : made'[j] = made[j]
         /\ left' \in [Payments -> Int] /\ left[p] \in Int /\ left'[p] = left[p] - amount
         /\ \A q \in Payments : q # p => left'[q] = left[q]
<1>1. /\ Amount \in Nat /\ MaxRefunds \in Nat /\ Len(made) \in Nat /\ made \in Seq(RefundMade)
      /\ DOMAIN made = 1 .. Len(made) /\ left[p] \in Int
  BY RefundAssumption DEF TypeOK
<1>2. [pid |-> p, amount |-> amount, state |-> state] \in RefundMade
  BY <1>1 DEF RefundMade, GovPayRefundStatuses
<1>3. /\ made' \in Seq(RefundMade) /\ Len(made') = Len(made) + 1 /\ Len(made') <= MaxRefunds
      /\ DOMAIN made' = 1 .. NewId
      /\ made'[NewId] = [pid |-> p, amount |-> amount, state |-> state]
      /\ \A j \in DOMAIN made : made'[j] = made[j]
  BY <1>1, <1>2 DEF MakeRefund, NewId
<1>4. NewId \in Ids /\ NewId \notin DOMAIN made /\ DOMAIN made' = DOMAIN made \cup {NewId}
  BY <1>1, <1>3 DEF NewId, Ids
<1>5. /\ left' \in [Payments -> Int] /\ left'[p] = left[p] - amount
      /\ \A q \in Payments : q # p => left'[q] = left[q]
  BY <1>1 DEF MakeRefund, TypeOK
<1> QED
  BY <1>1, <1>3, <1>4, <1>5

LEMMA RefundMadeCounts ==
  ASSUME TypeOK, MoneyTrue(made, left), NEW p \in Payments, NEW amount \in 1 .. Amount,
         amount <= left[p],
         NEW state \in {"submitted", "success"}, MakeRefund(p, amount, state)
  PROVE  MoneyTrue(made', left')
<1>1. /\ made \in Seq(RefundMade) /\ made' \in Seq(RefundMade)
      /\ left[p] \in Int /\ left'[p] = left[p] - amount
      /\ \A q \in Payments : q # p => left'[q] = left[q]
      /\ NewId \notin DOMAIN made /\ DOMAIN made' = DOMAIN made \cup {NewId}
      /\ \A j \in DOMAIN made : made'[j] = made[j]
  BY RefundMadeIs DEF TypeOK
<1>2. made'[NewId].pid = p /\ made'[NewId].amount = amount /\ made'[NewId].state # "error"
  <2>1. made'[NewId] = [pid |-> p, amount |-> amount, state |-> state]
    BY RefundMadeIs
  <2> QED
    BY <2>1
<1> QED
  BY <1>1, <1>2, MoneyGiven

(* A request, and a refund is made: one that comes in by itself, or not. *)
LEMMA Makes ==
  ASSUME IInv, NEW s \in Slots, NEW r \in Request, RequestOK(r), req' = [req EXCEPT ![s] = r],
         NEW p \in Payments, NEW amount \in 1 .. Amount, amount <= left[p],
         NEW state \in {"submitted", "success"}, MakeRefund(p, amount, state),
         NEW alone \in BOOLEAN,
         UNCHANGED <<refunds, bulk, told, outside>>,
         \A listed \in SUBSET DOMAIN made : \A more :
           /\ CopiesTrue(made, listed, refunds, bulk, req)
           /\ Grows(made, made') /\ Widens(made, listed, more)
           /\ more = IF alone THEN listed \cup {NewId} ELSE listed
           => RequestTrue(made', more, refunds, bulk, r)
  PROVE  IInv'
<1>1. TypeOK /\ told \subseteq FinalIn(made) /\ MoneyTrue(made, left)
  BY DEF IInv
<1>2. PICK listed \in SUBSET DOMAIN made : CopiesTrue(made, listed, refunds, bulk, req)
  BY DEF IInv
<1>3. /\ made' \in Seq(RefundMade) /\ Len(made') <= MaxRefunds
      /\ NewId \notin DOMAIN made /\ DOMAIN made' = DOMAIN made \cup {NewId}
      /\ \A j \in DOMAIN made : made'[j] = made[j]
      /\ left' \in [Payments -> Int]
  BY <1>1, RefundMadeIs
<1>4. TypeOK'
  BY <1>1, <1>3 DEF TypeOK, outside
<1>5. told' \subseteq FinalIn(made')
  BY <1>1, <1>3 DEF FinalIn
<1>6. MoneyTrue(made', left')
  BY <1>1, RefundMadeCounts
<1> DEFINE more == IF alone THEN listed \cup {NewId} ELSE listed
<1>7. more \subseteq DOMAIN made' /\ Grows(made, made') /\ Widens(made, listed, more)
  BY <1>3 DEF Grows, Widens
<1> HIDE DEF more
<1>8. CopiesTrue(made', more, refunds', bulk', req')
  <2>1. Fills(refunds, refunds') /\ Fills(bulk, bulk')
    BY DEF Fills
  <2>2. ASSUME NEW q \in Payments
        PROVE  ListTrue(made', more, refunds'[q], q) /\ BulkTrue(made', more, bulk'[q], q)
    BY <1>2, <1>7, ListStays, BulkStays DEF CopiesTrue
  <2>3. RequestTrue(made', more, refunds', bulk', r)
    BY <1>2, <1>7 DEF more
  <2> QED
    BY <1>1, <1>2, <1>7, <2>1, <2>2, <2>3, OneSlot
<1> QED
  BY <1>4, <1>5, <1>6, <1>7, <1>8 DEF IInv

-----------------------------------------------------------------------------
(* Requests as they begin and end. *)

LEMMA IdleTrue ==
  /\ Idle \in Request /\ RequestOK(Idle)
  /\ Idle.todo = {} /\ Idle.done = {} /\ Idle.file = {} /\ Idle.pc = "idle"
  /\ \A m, listed, d, b : RequestTrue(m, listed, d, b, Idle)
<1>1. Idle.sess \in Sessions
  BY DEF Idle, Session, Sessions
<1>2. Idle \in Request /\ RequestOK(Idle)
  BY <1>1 DEF Idle, Request, RequestOK, PCs, AnyId
<1>3. /\ Idle.pc = "idle" /\ Idle.todo = {} /\ Idle.done = {} /\ Idle.file = {}
      /\ Idle.sess.list = <<>> /\ Idle.sess.bulk = <<>>
  BY DEF Idle, Session
<1>4. ASSUME NEW m, NEW listed, NEW d, NEW b PROVE RequestTrue(m, listed, d, b, Idle)
  <2>1. CopyTrue(m, listed, b, Idle.sess)
    BY <1>3 DEF CopyTrue, ListTrue, BulkTrue
  <2> QED
    BY <1>2, <1>3, <2>1
       DEF RequestTrue, Creating, CreatingTrue, UpdatingTrue, PendingTrue, BulkingTrue, UploadTrue
<1> QED
  BY <1>2, <1>3, <1>4

(* A copy as it is read. *)
LEMMA ReadTrue ==
  ASSUME TypeOK, NEW p \in Payments, NEW listed, CopiesTrue(made, listed, refunds, bulk, req),
         NEW list \in {<<>>, refunds[p]}, NEW entries \in {<<>>, bulk[p]}
  PROVE  /\ Session(p, list, entries) \in Sessions
         /\ CopyTrue(made, listed, bulk, Session(p, list, entries))
<1>1. list \in Seq(Refund) /\ entries \in Seq(BulkRefund)
  <2>1. /\ <<>> \in Seq(Refund) /\ refunds[p] \in Seq(Refund)
        /\ <<>> \in Seq(BulkRefund) /\ bulk[p] \in Seq(BulkRefund)
    BY DEF TypeOK
  <2> QED
    BY <2>1
<1>2. Session(p, list, entries) \in Sessions
  BY <1>1 DEF Session, Sessions
<1>3. ListTrue(made, listed, list, p) /\ BulkTrue(made, listed, entries, p)
  BY DEF CopiesTrue, ListTrue, BulkTrue
<1>4. entries # <<>> => bulk[p] # <<>>
  OBVIOUS
<1> QED
  BY <1>2, <1>3, <1>4 DEF CopyTrue, Session

(* The request of slot s as it is. *)
LEMMA RequestIs ==
  ASSUME TypeOK, NEW s \in Slots
  PROVE  req[s] \in Request /\ RequestOK(req[s])
BY DEF TypeOK

LEMMA BeginCreateRefundKeeps ==
  ASSUME IInv, NEW s \in Slots, NEW p \in Payments, NEW amount \in Amounts, NEW ref \in References,
         BeginCreateRefund(s, p, amount, ref)
  PROVE  IInv'
<1> DEFINE sess == Session(p, <<>>, <<>>)
           r == [Idle EXCEPT !.pc = "create-session", !.sess = sess, !.amount = amount, !.ref = ref]
<1>1. TypeOK
  BY DEF IInv
<1>2. sess \in Sessions /\ sess.pid = p /\ sess.list = <<>> /\ sess.bulk = <<>>
  BY DEF Session, Sessions
<1> HIDE DEF sess
<1>3. /\ r \in Request /\ r.pc = "create-session" /\ r.sess = sess
      /\ r.amount = amount /\ r.ref = ref /\ r.todo = {} /\ r.done = {} /\ r.file = {}
  BY <1>2, IdleTrue, RefundAssumption DEF Request, PCs, AnyId
<1> HIDE DEF r
<1>4. RequestOK(r)
  BY <1>2, <1>3 DEF RequestOK
<1>5. ASSUME NEW listed \in SUBSET DOMAIN made, CopiesTrue(made, listed, refunds, bulk, req)
      PROVE  RequestTrue(made, listed, refunds, bulk, r)
  <2>1. CopyTrue(made, listed, bulk, sess)
    BY <1>2 DEF CopyTrue, ListTrue, BulkTrue
  <2> QED
    BY <1>2, <1>3, <2>1
       DEF RequestTrue, Creating, CreatingTrue, UpdatingTrue, PendingTrue, BulkingTrue, UploadTrue
<1>6. /\ req' = [req EXCEPT ![s] = r] /\ UNCHANGED <<refunds, bulk, made, left, told>>
      /\ overlapped' \in BOOLEAN /\ issued' \in 0 .. MaxRequests /\ faults' \in 0 .. MaxFaults
  BY <1>1, RefundAssumption DEF BeginCreateRefund, ClientBegins, Begin, TypeOK, r, sess
<1> QED
  BY <1>3, <1>4, <1>5, <1>6, Moves

LEMMA BeginUpdateRefundKeeps ==
  ASSUME IInv, NEW s \in Slots, NEW p \in Payments, NEW id \in Ids, BeginUpdateRefund(s, p, id)
  PROVE  IInv'
<1> DEFINE sess == Session(p, refunds[p], <<>>)
           r == [Idle EXCEPT !.pc = "update-status", !.id = id, !.sess = sess]
<1>1. TypeOK
  BY DEF IInv
<1>2. sess \in Sessions /\ sess.pid = p /\ sess.list = refunds[p] /\ sess.bulk = <<>>
  BY <1>1 DEF Session, Sessions, TypeOK
<1>3. ASSUME NEW listed \in SUBSET DOMAIN made, CopiesTrue(made, listed, refunds, bulk, req)
      PROVE  CopyTrue(made, listed, bulk, sess)
  BY <1>1, <1>3, ReadTrue
<1> HIDE DEF sess
<1>4. /\ r \in Request /\ r.pc = "update-status" /\ r.sess = sess
      /\ r.id = id /\ r.todo = {} /\ r.done = {} /\ r.file = {}
  BY <1>2, IdleTrue DEF Request, PCs, AnyId
<1> HIDE DEF r
<1>5. RequestOK(r)
  BY <1>2, <1>4 DEF RequestOK
<1>6. ASSUME NEW listed \in SUBSET DOMAIN made, CopiesTrue(made, listed, refunds, bulk, req)
      PROVE  RequestTrue(made, listed, refunds, bulk, r)
  <2>1. id \in IdsIn(sess.list)
    BY <1>2 DEF BeginUpdateRefund
  <2> QED
    BY <1>2, <1>3, <1>4, <1>6, <2>1
       DEF RequestTrue, Creating, CreatingTrue, UpdatingTrue, PendingTrue, BulkingTrue, UploadTrue
<1>7. /\ req' = [req EXCEPT ![s] = r] /\ UNCHANGED <<refunds, bulk, made, left, told>>
      /\ overlapped' \in BOOLEAN /\ issued' \in 0 .. MaxRequests /\ faults' \in 0 .. MaxFaults
  BY <1>1, RefundAssumption DEF BeginUpdateRefund, ClientBegins, Begin, TypeOK, r, sess
<1> QED
  BY <1>4, <1>5, <1>6, <1>7, Moves

LEMMA handleRefundFileKeeps ==
  ASSUME IInv, NEW s \in Slots, NEW by, NEW file \in Files, handleRefundFile(s, by, file)
  PROVE  IInv'
<1> DEFINE r == [Idle EXCEPT !.pc = "upload", !.file = file]
<1>1. TypeOK /\ Idle.sess \in Sessions /\ Idle.sess.list = <<>> /\ Idle.sess.bulk = <<>>
  BY DEF IInv, Idle, Session, Sessions
<1>2. file \subseteq Entry
  BY FilesAssumption
<1>3. /\ r \in Request /\ r.pc = "upload" /\ r.sess = Idle.sess
      /\ r.file = file /\ r.todo = {} /\ r.done = {}
  BY <1>2, IdleTrue DEF Request, PCs
<1> HIDE DEF r
<1>4. RequestOK(r)
  BY <1>3 DEF RequestOK
<1>5. \A entry \in file : entry.order \in Payments /\ entry.amount = Amount
  BY RefundAssumption DEF handleRefundFile, ValidateBatchRefund, IsValid, FoundBy
<1>6. ASSUME NEW listed \in SUBSET DOMAIN made, CopiesTrue(made, listed, refunds, bulk, req)
      PROVE  RequestTrue(made, listed, refunds, bulk, r)
  <2>1. CopyTrue(made, listed, bulk, Idle.sess)
    BY <1>1 DEF CopyTrue, ListTrue, BulkTrue
  <2> QED
    BY <1>3, <1>5, <2>1
       DEF RequestTrue, Creating, CreatingTrue, UpdatingTrue, PendingTrue, BulkingTrue, UploadTrue
<1>7. /\ req' = [req EXCEPT ![s] = r] /\ UNCHANGED <<refunds, bulk, made, left, told>>
      /\ overlapped' \in BOOLEAN /\ issued' \in 0 .. MaxRequests /\ faults' \in 0 .. MaxFaults
  BY <1>1, RefundAssumption DEF handleRefundFile, TypeOK, r
<1> QED
  BY <1>3, <1>4, <1>6, <1>7, Moves

LEMMA BeginProcessPendingKeeps ==
  ASSUME IInv, NEW s \in Slots, BeginProcessPending(s)
  PROVE  IInv'
<1>1. TypeOK
  BY DEF IInv
<1>2. PICK b \in Batch(RequestedSessions) :
        req' = [req EXCEPT ![s] = [Idle EXCEPT
                 !.pc = "pending-next",
                 !.todo = {Session(p, refunds[p], <<>>) : p \in b}]]
  BY DEF BeginProcessPending
<1> DEFINE todo == {Session(p, refunds[p], <<>>) : p \in b}
           r == [Idle EXCEPT !.pc = "pending-next", !.todo = todo]
<1>3. \A p \in b : p \in Payments /\ refunds[p] # <<>>
  <2>1. \A p \in b : p \in Payments /\ HasStatus(refunds[p], "refund-requested")
    BY DEF Batch, RequestedSessions
  <2> QED
    BY <2>1 DEF HasStatus
<1>4. \A x \in todo : x \in Sessions /\ x.pid \in Payments /\ x.list # <<>> /\ refunds[x.pid] # <<>>
  <2>1. ASSUME NEW p \in b
        PROVE  /\ Session(p, refunds[p], <<>>) \in Sessions
               /\ Session(p, refunds[p], <<>>).pid = p /\ Session(p, refunds[p], <<>>).list = refunds[p]
    BY <1>1, <1>3 DEF Session, Sessions, TypeOK
  <2> QED
    BY <1>3, <2>1
<1>5. ASSUME NEW listed \in SUBSET DOMAIN made, CopiesTrue(made, listed, refunds, bulk, req),
             NEW x \in todo
      PROVE  CopyTrue(made, listed, bulk, x)
  <2>1. PICK p \in b : x = Session(p, refunds[p], <<>>)
    OBVIOUS
  <2> QED
    BY <1>1, <1>3, <1>5, <2>1, ReadTrue
<1> HIDE DEF todo
<1>6. /\ r \in Request /\ r.pc = "pending-next" /\ r.sess = Idle.sess
      /\ r.todo = todo /\ r.done = {} /\ r.file = {}
  BY <1>4, IdleTrue DEF Request, PCs
<1> HIDE DEF r
<1>7. RequestOK(r)
  BY <1>4, <1>6 DEF RequestOK
<1>8. ASSUME NEW listed \in SUBSET DOMAIN made, CopiesTrue(made, listed, refunds, bulk, req)
      PROVE  RequestTrue(made, listed, refunds, bulk, r)
  <2>1. CopyTrue(made, listed, bulk, Idle.sess)
    BY IdleTrue DEF RequestTrue
  <2> QED
    BY <1>4, <1>5, <1>6, <1>8, <2>1
       DEF RequestTrue, Creating, CreatingTrue, UpdatingTrue, PendingTrue, BulkingTrue, UploadTrue
<1>9. /\ req' = [req EXCEPT ![s] = r] /\ UNCHANGED <<refunds, bulk, made, left, told>>
      /\ overlapped' \in BOOLEAN /\ issued' \in 0 .. MaxRequests /\ faults' \in 0 .. MaxFaults
  BY <1>1, <1>2 DEF BeginProcessPending, SchedulerBegins, Begin, TypeOK, r, todo
<1> QED
  BY <1>6, <1>7, <1>8, <1>9, Moves

LEMMA BeginProcessBatchKeeps ==
  ASSUME IInv, NEW s \in Slots, BeginProcessBatch(s)
  PROVE  IInv'
<1> DEFINE todo == {Session(p, refunds[p], bulk[p]) : p \in PendingSessions}
           r == [Idle EXCEPT !.pc = "bulk-next", !.todo = todo]
<1>1. TypeOK
  BY DEF IInv
<1>2. PendingSessions \subseteq Payments
  BY DEF PendingSessions
<1>3. \A x \in todo : x \in Sessions /\ x.pid \in Payments
  BY <1>1, <1>2 DEF Session, Sessions, TypeOK
<1>4. ASSUME NEW listed \in SUBSET DOMAIN made, CopiesTrue(made, listed, refunds, bulk, req),
             NEW x \in todo
      PROVE  CopyTrue(made, listed, bulk, x) /\ Waiting(x)
  <2>1. PICK p \in PendingSessions : x = Session(p, refunds[p], bulk[p])
    OBVIOUS
  <2>2. p \in Payments /\ HasStatus(bulk[p], "refund-pending")
    BY DEF PendingSessions
  <2>3. CopyTrue(made, listed, bulk, x)
    BY <1>1, <1>4, <2>1, <2>2, ReadTrue
  <2>4. bulk[p] \in Seq(BulkRefund) /\ Len(bulk[p]) <= 1 /\ x.bulk = bulk[p]
    BY <1>1, <1>4, <2>1, <2>2 DEF TypeOK, CopiesTrue, BulkTrue, Session
  <2>5. \A j, k \in DOMAIN bulk[p] : j = k
    BY <2>4
  <2> QED
    BY <2>2, <2>3, <2>4, <2>5 DEF Waiting, HasStatus
<1> HIDE DEF todo
<1>5. /\ r \in Request /\ r.pc = "bulk-next" /\ r.sess = Idle.sess
      /\ r.todo = todo /\ r.done = {} /\ r.file = {}
  BY <1>3, IdleTrue DEF Request, PCs
<1> HIDE DEF r
<1>6. RequestOK(r)
  BY <1>3, <1>5 DEF RequestOK
<1>7. ASSUME NEW listed \in SUBSET DOMAIN made, CopiesTrue(made, listed, refunds, bulk, req)
      PROVE  RequestTrue(made, listed, refunds, bulk, r)
  <2>1. CopyTrue(made, listed, bulk, Idle.sess)
    BY IdleTrue DEF RequestTrue
  <2> QED
    BY <1>4, <1>5, <1>7, <2>1
       DEF RequestTrue, Creating, CreatingTrue, UpdatingTrue, PendingTrue, BulkingTrue, UploadTrue
<1>8. /\ req' = [req EXCEPT ![s] = r] /\ UNCHANGED <<refunds, bulk, made, left, told>>
      /\ overlapped' \in BOOLEAN /\ issued' \in 0 .. MaxRequests /\ faults' \in 0 .. MaxFaults
  BY <1>1 DEF BeginProcessBatch, SchedulerBegins, Begin, TypeOK, r, todo
<1> QED
  BY <1>5, <1>6, <1>7, <1>8, Moves

-----------------------------------------------------------------------------
(* Requests on their way that change nothing else. *)

LEMMA ReadSessionKeeps ==
  ASSUME IInv, NEW s \in Slots, ReadSession(s)
  PROVE  IInv'
<1> DEFINE p == req[s].sess.pid
           sess == Session(p, refunds[p], <<>>)
           r == [req[s] EXCEPT !.pc = "create-summary", !.sess = sess]
<1>1. TypeOK /\ req[s] \in Request /\ RequestOK(req[s]) /\ req[s].pc = "create-session"
  BY RequestIs DEF IInv, ReadSession
<1>2. p \in Payments /\ \A x \in req[s].todo : x.pid \in Payments
  BY <1>1 DEF RequestOK
<1> HIDE DEF p
<1>3. sess \in Sessions /\ sess.pid = p /\ sess.bulk = <<>>
  BY <1>1, <1>2 DEF Session, Sessions, TypeOK
<1>4. ASSUME NEW listed \in SUBSET DOMAIN made, CopiesTrue(made, listed, refunds, bulk, req)
      PROVE  CopyTrue(made, listed, bulk, sess)
  BY <1>1, <1>2, <1>4, ReadTrue
<1>5. req' = [req EXCEPT ![s] = r]
  BY <1>1 DEF ReadSession, p, TypeOK
<1> HIDE DEF sess
<1>6. /\ r \in Request /\ r.pc = "create-summary" /\ r.sess = sess /\ r.amount = req[s].amount
      /\ r.ref = req[s].ref /\ r.todo = req[s].todo /\ r.done = req[s].done /\ r.file = req[s].file
  BY <1>1, <1>3 DEF Request, PCs
<1> HIDE DEF r
<1>7. RequestOK(r)
  BY <1>2, <1>3, <1>6 DEF RequestOK
<1>8. ASSUME NEW listed \in SUBSET DOMAIN made, CopiesTrue(made, listed, refunds, bulk, req)
      PROVE  RequestTrue(made, listed, refunds, bulk, r)
  <2>1. RequestTrue(made, listed, refunds, bulk, req[s])
    BY <1>8 DEF CopiesTrue
  <2> QED
    BY <1>1, <1>3, <1>4, <1>6, <1>8, <2>1
       DEF RequestTrue, Creating, CreatingTrue, UpdatingTrue, PendingTrue, BulkingTrue, UploadTrue
<1>9. /\ UNCHANGED <<refunds, bulk, made, left, told>>
      /\ overlapped' \in BOOLEAN /\ issued' \in 0 .. MaxRequests /\ faults' \in 0 .. MaxFaults
  BY <1>1 DEF ReadSession, TypeOK, outside
<1> QED
  BY <1>5, <1>6, <1>7, <1>8, <1>9, Moves

LEMMA GetRefundSummaryKeeps ==
  ASSUME IInv, NEW s \in Slots, GetRefundSummary(s)
  PROVE  IInv'
<1> DEFINE available == left[req[s].sess.pid]
<1>1. TypeOK /\ req[s] \in Request /\ RequestOK(req[s]) /\ req[s].pc = "create-summary"
  BY RequestIs DEF IInv, GetRefundSummary
<1>2. available \in Int
  BY <1>1 DEF RequestOK, TypeOK
<1>3. /\ UNCHANGED <<refunds, bulk, made, left, told>>
      /\ overlapped' \in BOOLEAN /\ issued' \in 0 .. MaxRequests /\ faults' \in 0 .. MaxFaults
  BY <1>1 DEF GetRefundSummary, TypeOK, outside
<1>4. CASE available > 0 /\ available >= req[s].amount
  <2> DEFINE r == [req[s] EXCEPT !.pc = "create-refund", !.avail = available]
  <2>1. req' = [req EXCEPT ![s] = r]
    BY <1>1, <1>4 DEF GetRefundSummary, TypeOK
  <2> HIDE DEF available
  <2>2. /\ r \in Request /\ r.pc = "create-refund" /\ r.sess = req[s].sess /\ r.avail = available
        /\ r.amount = req[s].amount /\ r.ref = req[s].ref
        /\ r.todo = req[s].todo /\ r.done = req[s].done /\ r.file = req[s].file
    BY <1>1, <1>2 DEF Request, PCs
  <2> HIDE DEF r
  <2>3. RequestOK(r)
    BY <1>1, <2>2 DEF RequestOK
  <2>4. ASSUME NEW listed \in SUBSET DOMAIN made, CopiesTrue(made, listed, refunds, bulk, req)
        PROVE  RequestTrue(made, listed, refunds, bulk, r)
    <3>1. RequestTrue(made, listed, refunds, bulk, req[s])
      BY <2>4 DEF CopiesTrue
    <3> QED
      BY <1>1, <1>4, <2>2, <3>1
         DEF RequestTrue, Creating, CreatingTrue, UpdatingTrue, PendingTrue, BulkingTrue, UploadTrue
  <2> QED
    BY <1>3, <2>1, <2>2, <2>3, <2>4, Moves
<1>5. CASE ~(available > 0 /\ available >= req[s].amount)
  <2>1. req' = [req EXCEPT ![s] = Idle]
    BY <1>1, <1>5 DEF GetRefundSummary, TypeOK
  <2> QED
    BY <1>3, <2>1, IdleTrue, Moves
<1> QED
  BY <1>4, <1>5

(* An array in which some elements are replaced is one. *)
LEMMA Replaced ==
  ASSUME NEW list \in Seq(Refund), NEW f \in [DOMAIN list -> Refund]
  PROVE  f \in Seq(Refund) /\ DOMAIN f = DOMAIN list
<1>1. Len(list) \in Nat /\ DOMAIN list = 1 .. Len(list)
  OBVIOUS
<1>2. f \in [1 .. Len(list) -> Refund]
  BY <1>1
<1> QED
  BY <1>1, <1>2, SeqDef

(* The provider's word, stored as it is, is true. *)
LEMMA WithStatusTrue ==
  ASSUME NEW m \in Seq(RefundMade), NEW listed \in SUBSET DOMAIN m, NEW list \in Seq(Refund), NEW p,
         ListTrue(m, listed, list, p), NEW id \in IdsIn(list)
  PROVE  /\ WithStatus(list, id, m[id].state) \in Seq(Refund)
         /\ ListTrue(m, listed, WithStatus(list, id, m[id].state), p)
<1> DEFINE f == WithStatus(list, id, m[id].state)
<1>1. m[id].state \in GovPayRefundStatuses
  <2>1. id \in DOMAIN m
    BY DEF IdsIn, ListTrue
  <2>2. m[id] \in RefundMade
    BY <2>1
  <2> QED
    BY <2>2 DEF RefundMade
<1>2. ASSUME NEW k \in DOMAIN list
      PROVE  /\ f[k] \in Refund /\ f[k].id = list[k].id
             /\ f[k].status = IF list[k].id = id THEN m[id].state ELSE list[k].status
  <2>1. list[k] \in Refund
    OBVIOUS
  <2>2. f[k] = IF list[k].id = id THEN [list[k] EXCEPT !.status = m[id].state] ELSE list[k]
    BY DEF WithStatus
  <2> HIDE DEF f
  <2> QED
    BY <1>1, <2>1, <2>2 DEF Refund
<1>3. f \in [DOMAIN list -> Refund]
  BY <1>2 DEF WithStatus
<1> HIDE DEF f
<1>4. f \in Seq(Refund) /\ DOMAIN f = DOMAIN list
  BY <1>3, Replaced
<1>5. ListTrue(m, listed, f, p)
  BY <1>1, <1>2, <1>4 DEF ListTrue, StatusTrue, GovPayRefundStatuses
<1> QED
  BY <1>4, <1>5 DEF f

LEMMA GetRefundStatusKeeps ==
  ASSUME IInv, NEW s \in Slots, GetRefundStatus(s)
  PROVE  IInv'
<1> DEFINE x == req[s].sess
           list == WithStatus(x.list, req[s].id, made[req[s].id].state)
           r == [req[s] EXCEPT !.pc = "update-patch", !.sess.list = list]
<1>1. TypeOK /\ req[s] \in Request /\ RequestOK(req[s]) /\ req[s].pc = "update-status"
  BY RequestIs DEF IInv, GetRefundStatus
<1>2. x \in Sessions /\ x.pid \in Payments /\ made \in Seq(RefundMade)
  BY <1>1 DEF RequestOK, Request, TypeOK
<1>3. ASSUME NEW listed \in SUBSET DOMAIN made, CopiesTrue(made, listed, refunds, bulk, req)
      PROVE  /\ RequestTrue(made, listed, refunds, bulk, req[s])
             /\ list \in Seq(Refund) /\ ListTrue(made, listed, list, x.pid)
  <2>1. RequestTrue(made, listed, refunds, bulk, req[s])
    BY <1>3 DEF CopiesTrue
  <2>2. /\ ListTrue(made, listed, x.list, x.pid) /\ req[s].id \in IdsIn(x.list)
        /\ x.list \in Seq(Refund)
    BY <1>1, <1>2, <2>1 DEF RequestTrue, UpdatingTrue, CopyTrue, Sessions
  <2> QED
    BY <1>2, <2>1, <2>2, WithStatusTrue
<1>4. list \in Seq(Refund)
  BY <1>3 DEF IInv
<1>5. req' = [req EXCEPT ![s] = r]
  BY <1>1 DEF GetRefundStatus, TypeOK, Request, Sessions
<1> HIDE DEF list
<1>6. /\ r \in Request /\ r.pc = "update-patch"
      /\ r.sess.pid = x.pid /\ r.sess.list = list /\ r.sess.bulk = x.bulk
      /\ r.todo = req[s].todo /\ r.done = req[s].done /\ r.file = req[s].file
  BY <1>1, <1>2, <1>4 DEF Request, PCs, Sessions
<1> HIDE DEF r
<1>7. RequestOK(r)
  BY <1>1, <1>2, <1>6 DEF RequestOK
<1>8. ASSUME NEW listed \in SUBSET DOMAIN made, CopiesTrue(made, listed, refunds, bulk, req)
      PROVE  RequestTrue(made, listed, refunds, bulk, r)
  <2>1. CopyTrue(made, listed, bulk, r.sess)
    BY <1>3, <1>6, <1>8 DEF CopyTrue, RequestTrue
  <2>2. r.sess.bulk = <<>>
    BY <1>1, <1>3, <1>6, <1>8 DEF RequestTrue, BulkingTrue
  <2> QED
    BY <1>3, <1>6, <1>8, <2>1, <2>2
       DEF RequestTrue, Creating, CreatingTrue, UpdatingTrue, PendingTrue, BulkingTrue, UploadTrue
<1>9. /\ UNCHANGED <<refunds, bulk, made, left, told>>
      /\ overlapped' \in BOOLEAN /\ issued' \in 0 .. MaxRequests /\ faults' \in 0 .. MaxFaults
  BY <1>1 DEF GetRefundStatus, TypeOK, outside
<1> QED
  BY <1>5, <1>6, <1>7, <1>8, <1>9, Moves

-----------------------------------------------------------------------------
(* The job for pending refunds, from one session to the next. *)

LEMMA OnwardTrue ==
  ASSUME NEW r \in Request, NEW m, NEW listed, NEW d, NEW b,
         \A x \in r.todo : CopyTrue(m, listed, b, x) /\ x.list # <<>> /\ d[x.pid] # <<>>,
         r.done \subseteq FinalIn(m)
  PROVE  RequestTrue(m, listed, d, b, Onward(r))
<1> DEFINE next == Onward(r)
<1>1. /\ next.pc \in {"idle", "pending-next", "pending-tell"} /\ next.sess = Idle.sess
      /\ next.todo \subseteq r.todo /\ next.done \subseteq r.done /\ next.file = {}
  BY IdleTrue DEF Onward, Request
<1>2. CopyTrue(m, listed, b, Idle.sess)
  BY IdleTrue DEF RequestTrue
<1> HIDE DEF next
<1>3. RequestTrue(m, listed, d, b, next)
  BY <1>1, <1>2
     DEF RequestTrue, Creating, CreatingTrue, UpdatingTrue, PendingTrue, BulkingTrue, UploadTrue
<1> QED
  BY <1>3 DEF next

LEMMA OnwardIs ==
  ASSUME NEW r \in Request, \A x \in r.todo : x.pid \in Payments
  PROVE  Onward(r) \in Request /\ RequestOK(Onward(r))
<1>1. /\ Onward(r) \in Request /\ Onward(r).todo \subseteq r.todo
      /\ Onward(r).pc \in {"idle", "pending-next", "pending-tell"}
  BY IdleTrue DEF Onward, Request, PCs
<1>2. Onward(r).pc \in {"idle", "pending-next", "pending-tell"}
  BY <1>1
<1> QED
  BY <1>1, <1>2 DEF RequestOK

LEMMA GetPendingStatusKeeps ==
  ASSUME IInv, NEW s \in Slots, GetPendingStatus(s)
  PROVE  IInv'
<1>1. TypeOK /\ req[s] \in Request /\ RequestOK(req[s]) /\ req[s].pc = "pending-next"
  BY RequestIs DEF IInv, GetPendingStatus
<1>2. PICK x \in req[s].todo :
        req' = [req EXCEPT ![s].pc = "pending-patch", ![s].sess = x, ![s].todo = @ \ {x},
                           ![s].good = made[FirstId(x.list)].state = "success"]
  BY DEF GetPendingStatus
<1> DEFINE good == made[FirstId(x.list)].state = "success"
           r == [req[s] EXCEPT !.pc = "pending-patch", !.sess = x, !.todo = @ \ {x}, !.good = good]
<1>3. req' = [req EXCEPT ![s] = r]
  BY <1>1, <1>2 DEF TypeOK, Request
<1>4. x \in Sessions /\ x.pid \in Payments /\ good \in BOOLEAN
  BY <1>1 DEF RequestOK, Request
<1> HIDE DEF good
<1>5. /\ r \in Request /\ r.pc = "pending-patch" /\ r.sess = x /\ r.todo \subseteq req[s].todo
      /\ r.good = good /\ r.done = req[s].done /\ r.file = req[s].file
  BY <1>1, <1>4 DEF Request, PCs
<1> HIDE DEF r
<1>6. RequestOK(r)
  BY <1>1, <1>4, <1>5 DEF RequestOK
<1>7. ASSUME NEW listed \in SUBSET DOMAIN made, CopiesTrue(made, listed, refunds, bulk, req)
      PROVE  RequestTrue(made, listed, refunds, bulk, r)
  <2>1. RequestTrue(made, listed, refunds, bulk, req[s])
    BY <1>7 DEF CopiesTrue
  <2>2. \A y \in r.todo \cup {r.sess} :
          CopyTrue(made, listed, bulk, y) /\ y.list # <<>> /\ refunds[y.pid] # <<>>
    BY <1>1, <1>5, <2>1 DEF RequestTrue, PendingTrue
  <2>3. r.good => made[FirstId(r.sess.list)].state = "success"
    BY <1>5 DEF good
  <2> QED
    BY <1>5, <2>1, <2>2, <2>3
       DEF RequestTrue, Creating, CreatingTrue, UpdatingTrue, PendingTrue, BulkingTrue, UploadTrue
<1>8. /\ UNCHANGED <<refunds, bulk, made, left, told>>
      /\ overlapped' \in BOOLEAN /\ issued' \in 0 .. MaxRequests /\ faults' \in 0 .. MaxFaults
  BY <1>1 DEF GetPendingStatus, TypeOK, outside
<1> QED
  BY <1>3, <1>5, <1>6, <1>7, <1>8, Moves

(* The request after fewer sessions, or fewer messages. *)
LEMMA OnwardLess ==
  ASSUME TypeOK, NEW s \in Slots, req[s].pc \in {"pending-next", "pending-tell"},
         NEW r \in Request, r.todo \subseteq req[s].todo, r.done \subseteq req[s].done
  PROVE  /\ Onward(r) \in Request /\ RequestOK(Onward(r))
         /\ \A listed \in SUBSET DOMAIN made :
              CopiesTrue(made, listed, refunds, bulk, req) =>
                RequestTrue(made, listed, refunds, bulk, Onward(r))
<1>1. req[s] \in Request /\ RequestOK(req[s])
  BY RequestIs
<1>2. Onward(r) \in Request /\ RequestOK(Onward(r))
  <2>1. \A x \in r.todo : x.pid \in Payments
    BY <1>1 DEF RequestOK
  <2> QED
    BY <2>1, OnwardIs
<1>3. ASSUME NEW listed \in SUBSET DOMAIN made, CopiesTrue(made, listed, refunds, bulk, req)
      PROVE  RequestTrue(made, listed, refunds, bulk, Onward(r))
  <2>1. RequestTrue(made, listed, refunds, bulk, req[s])
    BY <1>3 DEF CopiesTrue
  <2>2. \A x \in r.todo : CopyTrue(made, listed, bulk, x) /\ x.list # <<>> /\ refunds[x.pid] # <<>>
    BY <2>1 DEF RequestTrue, PendingTrue
  <2>3. r.done \subseteq FinalIn(made)
    BY <2>1 DEF RequestTrue
  <2> QED
    BY <1>1, <2>2, <2>3, OnwardTrue
<1> QED
  BY <1>2, <1>3

LEMMA PassOverKeeps ==
  ASSUME IInv, NEW s \in Slots, PassOver(s)
  PROVE  IInv'
<1>1. TypeOK /\ req[s] \in Request /\ req[s].pc \in {"pending-next", "pending-tell"}
  BY RequestIs DEF IInv, PassOver
<1>2. PICK r \in Request :
        /\ r.todo \subseteq req[s].todo /\ r.done \subseteq req[s].done
        /\ req' = [req EXCEPT ![s] = Onward(r)]
  <2>1. CASE req[s].pc = "pending-next"
    <3>1. PICK x \in req[s].todo :
            req' = [req EXCEPT ![s] = Onward([req[s] EXCEPT !.todo = @ \ {x}])]
      BY <2>1, Zenon DEF PassOver
    <3> DEFINE r == [req[s] EXCEPT !.todo = @ \ {x}]
    <3>2. r \in Request /\ r.todo \subseteq req[s].todo /\ r.done \subseteq req[s].done
      BY <1>1 DEF Request
    <3> QED
      BY <3>1, <3>2
  <2>2. CASE req[s].pc = "pending-tell"
    <3>1. PICK i \in req[s].done :
            req' = [req EXCEPT ![s] = Onward([req[s] EXCEPT !.done = @ \ {i}])]
      BY <2>2, Zenon DEF PassOver
    <3> DEFINE r == [req[s] EXCEPT !.done = @ \ {i}]
    <3>2. r \in Request /\ r.todo \subseteq req[s].todo /\ r.done \subseteq req[s].done
      BY <1>1 DEF Request
    <3> QED
      BY <3>1, <3>2
  <2> QED
    BY <1>1, <2>1, <2>2
<1>3. /\ UNCHANGED <<refunds, bulk, made, left, told>>
      /\ overlapped' \in BOOLEAN /\ issued' \in 0 .. MaxRequests /\ faults' \in 0 .. MaxFaults
  BY <1>1, RefundAssumption DEF PassOver, TypeOK
<1>4. /\ Onward(r) \in Request /\ RequestOK(Onward(r))
      /\ \A listed \in SUBSET DOMAIN made :
           CopiesTrue(made, listed, refunds, bulk, req) =>
             RequestTrue(made, listed, refunds, bulk, Onward(r))
  BY <1>1, <1>2, OnwardLess
<1> QED
  BY <1>2, <1>3, <1>4, Moves

LEMMA SendRefundMessageKeeps ==
  ASSUME IInv, NEW s \in Slots, SendRefundMessage(s)
  PROVE  IInv'
<1>1. TypeOK /\ req[s] \in Request /\ req[s].pc = "pending-tell"
  BY RequestIs DEF IInv, SendRefundMessage
<1>2. PICK i \in req[s].done :
        /\ told' = told \cup {i}
        /\ req' = [req EXCEPT ![s] = Onward([req[s] EXCEPT !.done = @ \ {i}])]
  BY Zenon DEF SendRefundMessage
<1> DEFINE r == [req[s] EXCEPT !.done = @ \ {i}]
<1>3. r \in Request /\ r.todo \subseteq req[s].todo /\ r.done \subseteq req[s].done
  BY <1>1 DEF Request
<1>4. /\ UNCHANGED <<refunds, bulk, made, left>> /\ told' \subseteq told \cup req[s].done
      /\ overlapped' \in BOOLEAN /\ issued' \in 0 .. MaxRequests /\ faults' \in 0 .. MaxFaults
  BY <1>1, <1>2 DEF SendRefundMessage, TypeOK, outside
<1>5. req' = [req EXCEPT ![s] = Onward(r)]
  BY <1>2
<1> HIDE DEF r
<1>6. /\ Onward(r) \in Request /\ RequestOK(Onward(r))
      /\ \A listed \in SUBSET DOMAIN made :
           CopiesTrue(made, listed, refunds, bulk, req) =>
             RequestTrue(made, listed, refunds, bulk, Onward(r))
  BY <1>1, <1>3, OnwardLess
<1> QED
  BY <1>4, <1>5, <1>6, Tells

(* What PatchRefundStatus leaves of a stored array is true. *)
LEMMA PatchRefundStatusTrue ==
  ASSUME NEW m, NEW listed, NEW list \in Seq(Refund), NEW p, ListTrue(m, listed, list, p),
         NEW f \in [DOMAIN list -> Refund],
         \A k \in DOMAIN list :
           /\ f[k].id = list[k].id
           /\ \/ f[k].status = list[k].status
              \/ f[k].status = "refund-success" /\ m[list[k].id].state = "success"
  PROVE  f \in Seq(Refund) /\ DOMAIN f = DOMAIN list /\ ListTrue(m, listed, f, p)
<1>1. f \in Seq(Refund) /\ DOMAIN f = DOMAIN list
  BY Replaced
<1> QED
  BY <1>1 DEF ListTrue, StatusTrue

LEMMA PatchPendingKeeps ==
  ASSUME IInv, NEW s \in Slots, PatchPending(s)
  PROVE  IInv'
<1> DEFINE p == req[s].sess.pid
           id == FirstId(req[s].sess.list)
           after == PatchRefundStatus(refunds[p], id, req[s].good)
           new == IF after[1].status = "refund-success" THEN {FirstId(after)} ELSE {}
           r == [req[s] EXCEPT !.done = @ \cup new]
<1>1. TypeOK /\ req[s] \in Request /\ RequestOK(req[s]) /\ req[s].pc = "pending-patch"
  BY RequestIs DEF IInv, PatchPending
<1>2. p \in Payments /\ req[s].good \in BOOLEAN
  BY <1>1 DEF RequestOK, Request
<1>3. /\ refunds' = [refunds EXCEPT ![p] = after]
      /\ req' = [req EXCEPT ![s] = Onward(r)]
      /\ bulk' = [bulk EXCEPT ![p] = bulk[p]]
      /\ UNCHANGED <<made, left, told, outside>>
  BY <1>1, <1>2 DEF PatchPending, TypeOK
<1> HIDE DEF p
<1>4. refunds[p] \in Seq(Refund) /\ bulk[p] \in Seq(BulkRefund) /\ made \in Seq(RefundMade)
  BY <1>1, <1>2 DEF TypeOK
<1>5. ASSUME NEW listed \in SUBSET DOMAIN made, CopiesTrue(made, listed, refunds, bulk, req)
      PROVE  /\ RequestTrue(made, listed, refunds, bulk, req[s]) /\ refunds[p] # <<>>
             /\ after \in Seq(Refund) /\ DOMAIN after = DOMAIN refunds[p]
             /\ ListTrue(made, listed, after, p) /\ BulkTrue(made, listed, bulk[p], p)
  <2>1. RequestTrue(made, listed, refunds, bulk, req[s])
    BY <1>5 DEF CopiesTrue
  <2>2. refunds[p] # <<>> /\ (req[s].good => made[id].state = "success")
    BY <1>1, <2>1 DEF RequestTrue, PendingTrue, p
  <2>3. ListTrue(made, listed, refunds[p], p) /\ BulkTrue(made, listed, bulk[p], p)
    BY <1>2, <1>5 DEF CopiesTrue
  <2> HIDE DEF id
  <2>4. after \in Seq(Refund) /\ DOMAIN after = DOMAIN refunds[p] /\ ListTrue(made, listed, after, p)
    <3>1. ASSUME NEW k \in DOMAIN refunds[p]
          PROVE  /\ after[k] \in Refund /\ after[k].id = refunds[p][k].id
                 /\ \/ after[k].status = refunds[p][k].status
                    \/ /\ after[k].status = "refund-success"
                       /\ made[refunds[p][k].id].state = "success"
      <4>1. refunds[p][k] \in Refund
        BY <1>4
      <4>2. after[k] = IF req[s].good /\ refunds[p][k].id = id
                       THEN [refunds[p][k] EXCEPT !.status = "refund-success"] ELSE refunds[p][k]
        BY DEF PatchRefundStatus
      <4> HIDE DEF after
      <4> QED
        BY <2>2, <4>1, <4>2 DEF Refund, InternalStatuses
    <3>2. after \in [DOMAIN refunds[p] -> Refund]
      BY <3>1 DEF PatchRefundStatus
    <3> HIDE DEF after
    <3> QED
      BY <1>4, <2>3, <3>1, <3>2, PatchRefundStatusTrue
  <2> QED
    BY <2>1, <2>2, <2>3, <2>4, Zenon
<1> HIDE DEF after, id
<1>6. /\ after \in Seq(Refund) /\ refunds[p] # <<>> /\ after # <<>>
      /\ new \subseteq FinalIn(made) /\ new \subseteq Ids
  <2>1. PICK listed \in SUBSET DOMAIN made : CopiesTrue(made, listed, refunds, bulk, req)
    BY DEF IInv
  <2>2. /\ refunds[p] # <<>> /\ after \in Seq(Refund) /\ DOMAIN after = DOMAIN refunds[p]
        /\ ListTrue(made, listed, after, p)
    BY <1>5, <2>1
  <2>3. after # <<>> /\ 1 \in DOMAIN after /\ FirstId(after) \in DOMAIN made /\ after[1] \in Refund
    <3>1. Len(refunds[p]) \in Nat \ {0} /\ DOMAIN refunds[p] = 1 .. Len(refunds[p])
      BY <1>4, <2>2
    <3>2. 1 \in DOMAIN after
      BY <2>2, <3>1
    <3> QED
      BY <2>2, <3>2, FirstTrue
  <2>4. after[1].status = "refund-success" => made[FirstId(after)].state = "success"
    BY <2>2, <2>3 DEF ListTrue, StatusTrue, FirstId
  <2>5. FirstId(after) \in Ids
    BY <2>3 DEF FirstId, Refund
  <2> QED
    BY <2>2, <2>3, <2>4, <2>5 DEF FinalIn
<1> HIDE DEF new
<1>7. r \in Request /\ r.todo = req[s].todo /\ r.done = req[s].done \cup new
  BY <1>1, <1>6 DEF Request
<1> HIDE DEF r
<1>8. \A x \in r.todo : x.pid \in Payments
  BY <1>1, <1>7 DEF RequestOK
<1>9. Onward(r) \in Request /\ RequestOK(Onward(r))
  BY <1>7, <1>8, OnwardIs
<1>10. Fills(refunds, refunds') /\ Fills(bulk, bulk')
  BY <1>1, <1>3, <1>6 DEF Fills, TypeOK
<1>11. ASSUME NEW listed \in SUBSET DOMAIN made, CopiesTrue(made, listed, refunds, bulk, req)
       PROVE  RequestTrue(made, listed, refunds', bulk', Onward(r))
  <2>1. RequestTrue(made, listed, refunds, bulk, req[s])
    BY <1>5, <1>11
  <2>2. \A x \in r.todo : CopyTrue(made, listed, bulk, x) /\ x.list # <<>> /\ refunds[x.pid] # <<>>
    BY <1>1, <1>7, <2>1 DEF RequestTrue, PendingTrue
  <2>3. \A x \in r.todo : CopyTrue(made, listed, bulk', x) /\ x.list # <<>> /\ refunds'[x.pid] # <<>>
    BY <1>8, <1>10, <2>2, Still, CopyStays DEF Fills
  <2>4. r.done \subseteq FinalIn(made)
    BY <1>6, <1>7, <2>1 DEF RequestTrue
  <2> QED
    BY <1>7, <2>3, <2>4, OnwardTrue
<1> QED
  BY <1>2, <1>3, <1>4, <1>5, <1>6, <1>9, <1>11, Writes

-----------------------------------------------------------------------------
(* The job for bulk refunds, from one session to the next. *)

LEMMA NextBulkTrue ==
  ASSUME NEW r \in Request, \A x \in r.todo : x.pid \in Payments
  PROVE  /\ NextBulk(r) \in Request /\ RequestOK(NextBulk(r))
         /\ \A m, listed, d, b :
              (\A x \in r.todo : CopyTrue(m, listed, b, x) /\ Waiting(x)) =>
                RequestTrue(m, listed, d, b, NextBulk(r))
<1> DEFINE next == NextBulk(r)
<1>1. /\ next \in Request /\ next.pc \in {"idle", "bulk-next"} /\ next.sess = Idle.sess
      /\ next.todo \subseteq r.todo /\ next.done = {} /\ next.file = {}
  BY IdleTrue DEF NextBulk, Request, PCs
<1> HIDE DEF next
<1>2. RequestOK(next)
  BY <1>1 DEF RequestOK
<1>3. ASSUME NEW m, NEW listed, NEW d, NEW b,
             \A x \in r.todo : CopyTrue(m, listed, b, x) /\ Waiting(x)
      PROVE  RequestTrue(m, listed, d, b, next)
  <2>1. CopyTrue(m, listed, b, Idle.sess)
    BY IdleTrue DEF RequestTrue
  <2> QED
    BY <1>1, <1>3, <2>1
       DEF RequestTrue, Creating, CreatingTrue, UpdatingTrue, PendingTrue, BulkingTrue, UploadTrue
<1> QED
  BY <1>1, <1>2, <1>3 DEF next

(* The request when the work on one session ends. *)
LEMMA NextBulkLess ==
  ASSUME TypeOK, NEW s \in Slots, req[s].pc \in {"bulk-next", "bulk-refund", "bulk-patch"},
         NEW r \in Request, r.todo \subseteq req[s].todo
  PROVE  /\ NextBulk(r) \in Request /\ RequestOK(NextBulk(r))
         /\ \A m, listed, d, b :
              RequestTrue(m, listed, d, b, req[s]) => RequestTrue(m, listed, d, b, NextBulk(r))
<1>1. \A x \in r.todo : x.pid \in Payments
  BY RequestIs DEF RequestOK
<1>2. ASSUME NEW m, NEW listed, NEW d, NEW b, RequestTrue(m, listed, d, b, req[s])
      PROVE  RequestTrue(m, listed, d, b, NextBulk(r))
  <2>1. \A x \in r.todo : CopyTrue(m, listed, b, x) /\ Waiting(x)
    BY <1>2 DEF RequestTrue, BulkingTrue
  <2> QED
    BY <1>1, <2>1, NextBulkTrue
<1> QED
  BY <1>1, <1>2, NextBulkTrue

LEMMA BulkFailsKeeps ==
  ASSUME IInv, NEW s \in Slots, BulkFails(s)
  PROVE  IInv'
<1>1. TypeOK /\ req[s] \in Request /\ req[s].pc \in {"bulk-next", "bulk-refund", "bulk-patch"}
  BY RequestIs DEF IInv, BulkFails
<1>2. PICK r \in Request : r.todo \subseteq req[s].todo /\ req' = [req EXCEPT ![s] = NextBulk(r)]
  <2>1. CASE req[s].pc = "bulk-next"
    <3>1. PICK x \in req[s].todo :
            req' = [req EXCEPT ![s] = NextBulk([req[s] EXCEPT !.todo = @ \ {x}])]
      BY <2>1, Zenon DEF BulkFails
    <3> DEFINE r == [req[s] EXCEPT !.todo = @ \ {x}]
    <3>2. r \in Request /\ r.todo \subseteq req[s].todo
      BY <1>1 DEF Request
    <3> QED
      BY <3>1, <3>2
  <2>2. CASE req[s].pc \in {"bulk-refund", "bulk-patch"}
    <3>1. req' = [req EXCEPT ![s] = NextBulk(req[s])]
      BY <2>2 DEF BulkFails
    <3> QED
      BY <1>1, <3>1
  <2> QED
    BY <1>1, <2>1, <2>2
<1>3. /\ UNCHANGED <<refunds, bulk, made, left, told>>
      /\ overlapped' \in BOOLEAN /\ issued' \in 0 .. MaxRequests /\ faults' \in 0 .. MaxFaults
  BY <1>1, RefundAssumption DEF BulkFails, TypeOK
<1>4. /\ NextBulk(r) \in Request /\ RequestOK(NextBulk(r))
      /\ \A listed \in SUBSET DOMAIN made :
           CopiesTrue(made, listed, refunds, bulk, req) =>
             RequestTrue(made, listed, refunds, bulk, NextBulk(r))
  BY <1>1, <1>2, NextBulkLess DEF CopiesTrue
<1> QED
  BY <1>2, <1>3, <1>4, Moves

LEMMA RequestDiesKeeps ==
  ASSUME IInv, NEW s \in Slots, RequestDies(s)
  PROVE  IInv'
<1>1. /\ UNCHANGED <<refunds, bulk, made, left, told>> /\ req' = [req EXCEPT ![s] = Idle]
      /\ overlapped' \in BOOLEAN /\ issued' \in 0 .. MaxRequests /\ faults' \in 0 .. MaxFaults
  BY RefundAssumption DEF RequestDies, IInv, TypeOK
<1> QED
  BY <1>1, IdleTrue, Moves

LEMMA CheckAvailableKeeps ==
  ASSUME IInv, NEW s \in Slots, CheckAvailable(s)
  PROVE  IInv'
<1>1. TypeOK /\ req[s] \in Request /\ RequestOK(req[s]) /\ req[s].pc = "bulk-next"
  BY RequestIs DEF IInv, CheckAvailable
<1>2. PICK x \in req[s].todo :
        LET rest == [req[s] EXCEPT !.todo = @ \ {x}]
            due  == IF x.pid \in Cards THEN Recent(x).amount ELSE Amount
        IN
        req' = [req EXCEPT ![s] = IF left[x.pid] = due
                                  THEN [rest EXCEPT !.pc = "bulk-refund", !.sess = x]
                                  ELSE NextBulk(rest)]
  BY DEF CheckAvailable
<1> DEFINE rest == [req[s] EXCEPT !.todo = @ \ {x}]
           r == [rest EXCEPT !.pc = "bulk-refund", !.sess = x]
<1>3. req' = [req EXCEPT ![s] = r] \/ req' = [req EXCEPT ![s] = NextBulk(rest)]
  BY <1>2
<1>4. /\ UNCHANGED <<refunds, bulk, made, left, told>>
      /\ overlapped' \in BOOLEAN /\ issued' \in 0 .. MaxRequests /\ faults' \in 0 .. MaxFaults
  BY <1>1 DEF CheckAvailable, TypeOK, outside
<1>5. x \in Sessions /\ x.pid \in Payments
  BY <1>1 DEF Request, RequestOK
<1>6. /\ rest \in Request /\ rest.todo \subseteq req[s].todo
      /\ rest.done = req[s].done /\ rest.file = req[s].file
  BY <1>1 DEF Request
<1> HIDE DEF rest
<1>7. CASE req' = [req EXCEPT ![s] = r]
  <2>1. /\ r \in Request /\ r.pc = "bulk-refund" /\ r.sess = x /\ r.todo \subseteq req[s].todo
        /\ r.done = req[s].done /\ r.file = req[s].file
    BY <1>5, <1>6 DEF Request, PCs
  <2>2. req' = [req EXCEPT ![s] = r]
    BY <1>7
  <2> HIDE DEF r
  <2>3. RequestOK(r)
    BY <1>1, <1>5, <2>1 DEF RequestOK
  <2>4. ASSUME NEW listed \in SUBSET DOMAIN made, CopiesTrue(made, listed, refunds, bulk, req)
        PROVE  RequestTrue(made, listed, refunds, bulk, r)
    <3>1. RequestTrue(made, listed, refunds, bulk, req[s])
      BY <2>4 DEF CopiesTrue
    <3> QED
      BY <1>1, <2>1, <3>1
         DEF RequestTrue, Creating, CreatingTrue, UpdatingTrue, PendingTrue, BulkingTrue, UploadTrue
  <2> QED
    BY <1>4, <2>1, <2>2, <2>3, <2>4, Moves
<1>8. CASE req' = [req EXCEPT ![s] = NextBulk(rest)]
  <2>1. /\ NextBulk(rest) \in Request /\ RequestOK(NextBulk(rest))
        /\ \A listed \in SUBSET DOMAIN made :
             CopiesTrue(made, listed, refunds, bulk, req) =>
               RequestTrue(made, listed, refunds, bulk, NextBulk(rest))
    BY <1>1, <1>6, NextBulkLess DEF CopiesTrue
  <2> QED
    BY <1>4, <1>8, <2>1, Moves
<1> QED
  BY <1>3, <1>7, <1>8

-----------------------------------------------------------------------------
(* Requests that have a refund made. *)

(* A provider would never give back more than was paid. *)
LEMMA LeftBounded ==
  ASSUME IInv, NEW p \in Payments
  PROVE  left[p] \in 0 .. Amount
<1>1. /\ Amount \in Nat /\ made \in Seq(RefundMade) /\ left[p] \in Int
      /\ \A i \in DOMAIN made : made[i].amount \in 1 .. Amount
      /\ left[p] >= 0 /\ left[p] + Total(made, HeldOf(made, p)) = Amount
  BY MoneyIs, RefundAssumption DEF IInv, TypeOK
<1>2. Total(made, HeldOf(made, p)) \in Nat
  BY <1>1, HeldTotal
<1> QED
  BY <1>1, <1>2

(* A refund under a new id joins the copy it was made from. *)
LEMMA AppendTrue ==
  ASSUME NEW m, NEW listed, NEW list \in Seq(Refund), NEW p, ListTrue(m, listed, list, p),
         NEW new \in Refund, new.id \notin listed, m[new.id].pid = p,
         new.status = "refund-requested", NEW more, more = listed \cup {new.id}
  PROVE  Append(list, new) \in Seq(Refund) /\ ListTrue(m, more, Append(list, new), p)
<1> DEFINE after == Append(list, new)
<1>1. Len(list) \in Nat /\ DOMAIN list = 1 .. Len(list)
  OBVIOUS
<1>2. /\ after \in Seq(Refund) /\ DOMAIN after = 1 .. (Len(list) + 1)
      /\ \A k \in DOMAIN list : after[k] = list[k]
      /\ after[Len(list) + 1] = new
  OBVIOUS
<1> HIDE DEF after
<1>3. \A k \in DOMAIN after : k \in DOMAIN list \/ k = Len(list) + 1
  BY <1>1, <1>2
<1>4. \A k \in DOMAIN list : list[k].id # new.id
  BY DEF ListTrue
<1>5. \A j, k \in DOMAIN after : after[j].id = after[k].id => j = k
  BY <1>2, <1>3, <1>4 DEF ListTrue
<1>6. ASSUME NEW k \in DOMAIN after
      PROVE  /\ after[k].id \in more /\ m[after[k].id].pid = p
             /\ StatusTrue(after[k].status, m[after[k].id].state)
  <2>1. CASE k \in DOMAIN list
    BY <1>2, <2>1 DEF ListTrue
  <2>2. CASE k = Len(list) + 1
    BY <1>2, <2>2 DEF StatusTrue
  <2> QED
    BY <1>3, <2>1, <2>2
<1> QED
  BY <1>2, <1>5, <1>6 DEF ListTrue, after

LEMMA CreateRefundKeeps ==
  ASSUME IInv, NEW s \in Slots, CreateRefund(s)
  PROVE  IInv'
<1> DEFINE p == req[s].sess.pid
           amount == req[s].amount
           state == IF Sandbox THEN "success" ELSE "submitted"
           new == [id |-> NewId, ref |-> req[s].ref, status |-> MapStatus("submitted")]
           list == Append(req[s].sess.list, new)
           r == [req[s] EXCEPT !.pc = "create-patch", !.sess.list = list]
<1>1. TypeOK /\ req[s] \in Request /\ RequestOK(req[s]) /\ req[s].pc = "create-refund"
  BY RequestIs DEF IInv, CreateRefund
<1>2. req[s].sess \in Sessions /\ p \in Payments
  BY <1>1 DEF RequestOK, Request
<1>3. UNCHANGED <<refunds, bulk, told, outside>>
  BY DEF CreateRefund
<1>4. CASE UNCHANGED <<made, left>> /\ req' = [req EXCEPT ![s] = Idle]
  <2>1. /\ UNCHANGED <<refunds, bulk, made, left, told>>
        /\ overlapped' \in BOOLEAN /\ issued' \in 0 .. MaxRequests /\ faults' \in 0 .. MaxFaults
    BY <1>1, <1>3, <1>4 DEF TypeOK, outside
  <2> QED
    BY <1>4, <2>1, IdleTrue, Moves
<1>5. CASE /\ amount > 0 /\ left[p] = req[s].avail
           /\ MakeRefund(p, amount, state) /\ req' = [req EXCEPT ![s] = r]
  <2>1. amount \in 1 .. Amount /\ amount <= left[p] /\ req[s].ref \in References
    <3>1. PICK listed : RequestTrue(made, listed, refunds, bulk, req[s])
      BY DEF IInv, CopiesTrue
    <3>2. /\ amount \in Amounts /\ req[s].ref \in References /\ req[s].avail >= amount
          /\ left[p] \in 0 .. Amount
      BY <1>1, <1>2, <3>1, LeftBounded DEF RequestTrue, CreatingTrue, Creating
    <3>3. amount \in Int /\ Amount \in Nat
      BY <3>2, RefundAssumption
    <3> QED
      BY <1>5, <3>2, <3>3
  <2>2. state \in {"submitted", "success"}
    OBVIOUS
  <2> HIDE DEF state
  <2>3. /\ NewId \in Ids /\ NewId \notin DOMAIN made /\ NewId \in DOMAIN made'
        /\ made'[NewId].pid = p
    <3>1. /\ NewId \in Ids /\ NewId \notin DOMAIN made /\ DOMAIN made' = DOMAIN made \cup {NewId}
          /\ made'[NewId] = [pid |-> p, amount |-> amount, state |-> state]
      BY <1>1, <1>2, <1>5, <2>1, <2>2, RefundMadeIs
    <3> QED
      BY <3>1
  <2>4. new \in Refund /\ new.id = NewId /\ new.status = "refund-requested"
    BY <2>1, <2>3 DEF Refund, MapStatus, InternalStatuses
  <2> HIDE DEF new
  <2>5. req[s].sess.list \in Seq(Refund) /\ list \in Seq(Refund)
    BY <1>2, <2>4 DEF Sessions
  <2>6. req' = [req EXCEPT ![s] = r]
    BY <1>5
  <2> HIDE DEF list
  <2>7. /\ r \in Request /\ r.pc = "create-patch"
        /\ r.sess.pid = p /\ r.sess.list = list /\ r.sess.bulk = req[s].sess.bulk
        /\ r.todo = req[s].todo /\ r.done = req[s].done /\ r.file = req[s].file
    BY <1>1, <1>2, <2>5 DEF Request, PCs, Sessions
  <2> HIDE DEF r
  <2>8. RequestOK(r)
    BY <1>1, <1>2, <2>7 DEF RequestOK
  <2>9. ASSUME NEW listed \in SUBSET DOMAIN made, NEW more,
               CopiesTrue(made, listed, refunds, bulk, req),
               Grows(made, made'), Widens(made, listed, more),
               more = IF TRUE THEN listed \cup {NewId} ELSE listed
        PROVE  RequestTrue(made', more, refunds, bulk, r)
    <3>1. RequestTrue(made, listed, refunds, bulk, req[s])
      BY <2>9 DEF CopiesTrue
    <3>2. RequestTrue(made', more, refunds, bulk, req[s])
      BY <1>1, <2>9, <3>1, Still, RequestStays DEF Fills
    <3>3. ListTrue(made', listed, req[s].sess.list, p)
      <4>1. ListTrue(made, listed, req[s].sess.list, p)
        BY <3>1 DEF RequestTrue, CopyTrue
      <4>2. Widens(made, listed, listed)
        BY Still
      <4> QED
        BY <2>9, <4>1, <4>2, ListStays
    <3>4. ListTrue(made', more, list, p)
      <4>1. NewId \notin listed /\ more = listed \cup {NewId}
        BY <2>3, <2>9
      <4> QED
        BY <2>3, <2>4, <2>5, <3>3, <4>1, AppendTrue DEF list
    <3>5. CopyTrue(made', more, bulk, r.sess) /\ r.sess.bulk = <<>>
      BY <1>1, <2>7, <3>2, <3>4 DEF RequestTrue, CopyTrue, BulkingTrue, Creating
    <3> QED
      BY <2>7, <3>2, <3>5
         DEF RequestTrue, Creating, CreatingTrue, UpdatingTrue, PendingTrue, BulkingTrue, UploadTrue
  <2>10. MakeRefund(p, amount, state)
    BY <1>5
  <2> HIDE DEF p, amount
  <2> QED
    BY <1>2, <1>3, <2>1, <2>2, <2>6, <2>7, <2>8, <2>9, <2>10, Makes
<1>6. \/ UNCHANGED <<made, left>> /\ req' = [req EXCEPT ![s] = Idle]
      \/ /\ amount > 0 /\ left[p] = req[s].avail
         /\ MakeRefund(p, amount, state) /\ req' = [req EXCEPT ![s] = r]
  BY <1>1 DEF CreateRefund, TypeOK, Request, Sessions
<1> QED
  BY <1>4, <1>5, <1>6

(* The one entry of a copy that has any. *)
LEMMA OneEntry ==
  ASSUME NEW entries \in Seq(BulkRefund), Len(entries) <= 1, entries # <<>>
  PROVE  /\ Len(entries) = 1 /\ DOMAIN entries = 1 .. 1
         /\ entries \in [1 .. 1 -> BulkRefund] /\ entries[1] \in BulkRefund
<1>1. Len(entries) \in Nat /\ DOMAIN entries = 1 .. Len(entries)
  OBVIOUS
<1>2. Len(entries) # 0
  BY EmptySeq
<1>3. Len(entries) = 1
  BY <1>1, <1>2
<1>4. entries \in [1 .. Len(entries) -> BulkRefund]
  BY LenProperties
<1> QED
  BY <1>1, <1>3, <1>4

(* Which, requested, is true once its refund is made. *)
LEMMA RequestedIs ==
  ASSUME NEW entries \in Seq(BulkRefund), Len(entries) <= 1, entries # <<>>, NEW id \in Ids
  PROVE  /\ Requested(entries, id) \in Seq(BulkRefund) /\ Len(Requested(entries, id)) = 1
         /\ Requested(entries, id) # <<>> /\ DOMAIN Requested(entries, id) = 1 .. 1
         /\ Requested(entries, id)[1].id = id /\ Requested(entries, id)[1].amount = entries[1].amount
         /\ Requested(entries, id)[1].status = "refund-requested"
<1> DEFINE f == Requested(entries, id)
<1>1. /\ Len(entries) = 1 /\ DOMAIN entries = 1 .. 1
      /\ entries \in [1 .. 1 -> BulkRefund] /\ entries[1] \in BulkRefund
  BY OneEntry
<1>2. f = [entries EXCEPT ![1] = [entries[1] EXCEPT !.id = id, !.status = "refund-requested"]]
  BY <1>1 DEF Requested
<1> HIDE DEF f
<1>3. /\ [entries[1] EXCEPT !.id = id, !.status = "refund-requested"] \in BulkRefund
      /\ f[1] = [entries[1] EXCEPT !.id = id, !.status = "refund-requested"]
  <2>1. [entries[1] EXCEPT !.id = id, !.status = "refund-requested"] \in BulkRefund
    BY <1>1 DEF BulkRefund, AnyId
  <2>2. f[1] = [entries[1] EXCEPT !.id = id, !.status = "refund-requested"]
    BY <1>1, <1>2
  <2> QED
    BY <2>1, <2>2
<1>4. f[1].id = id /\ f[1].amount = entries[1].amount /\ f[1].status = "refund-requested"
  BY <1>1, <1>3 DEF BulkRefund
<1>5. f \in [1 .. 1 -> BulkRefund]
  BY <1>1, <1>2, <1>3
<1>6. f \in Seq(BulkRefund) /\ DOMAIN f = 1 .. 1
  BY <1>5, SeqDef
<1>7. Len(f) = 1 /\ f # <<>>
  BY <1>6
<1> QED
  BY <1>4, <1>6, <1>7 DEF f

LEMMA RequestedTrue ==
  ASSUME NEW m, NEW listed, NEW entries \in Seq(BulkRefund), NEW p, BulkTrue(m, listed, entries, p),
         entries # <<>>, NEW id \in Ids, id \in DOMAIN m \ listed,
         m[id].pid = p, m[id].amount = Amount
  PROVE  /\ Requested(entries, id) # <<>>
         /\ BulkTrue(m, listed, Requested(entries, id), p)
         /\ \A k \in DOMAIN Requested(entries, id) :
              Requested(entries, id)[k].status = "refund-requested"
<1> DEFINE f == Requested(entries, id)
<1>1. Len(entries) <= 1
  BY DEF BulkTrue
<1>2. entries[1].amount = Amount
  BY <1>1, OneEntry DEF BulkTrue, EntryTrue
<1>3. /\ Len(f) = 1 /\ f # <<>> /\ DOMAIN f = 1 .. 1 /\ f[1].id = id
      /\ f[1].amount = entries[1].amount /\ f[1].status = "refund-requested"
  BY <1>1, RequestedIs
<1> HIDE DEF f
<1>4. EntryTrue(m, listed, f[1], p)
  BY <1>2, <1>3 DEF EntryTrue
<1>5. \A k \in DOMAIN f : k = 1
  BY <1>3
<1> QED
  BY <1>3, <1>4, <1>5 DEF BulkTrue, f

(* What is asked for is the whole payment. *)
LEMMA WholeIsDue ==
  ASSUME IInv, NEW s \in Slots, req[s].pc = "bulk-refund"
  PROVE  /\ req[s].sess \in Sessions /\ req[s].sess.pid \in Payments
         /\ Recent(req[s].sess).amount = Amount
<1>1. /\ req[s].sess \in Sessions /\ req[s].sess.pid \in Payments
      /\ req[s].sess.bulk \in Seq(BulkRefund)
  BY RequestIs DEF IInv, Request, RequestOK, Sessions
<1>2. PICK listed : RequestTrue(made, listed, refunds, bulk, req[s])
  BY DEF IInv, CopiesTrue
<1>3. req[s].sess.bulk # <<>> /\ BulkTrue(made, listed, req[s].sess.bulk, req[s].sess.pid)
  BY <1>2 DEF RequestTrue, BulkingTrue, Waiting, CopyTrue
<1> QED
  BY <1>1, <1>3 DEF Recent, BulkTrue, EntryTrue

LEMMA MadeKeeps ==
  ASSUME IInv, NEW s \in Slots, req[s].pc = "bulk-refund", NEW p, p = req[s].sess.pid,
         NEW state \in {"submitted", "success"}, Made(s, p, Amount, state),
         UNCHANGED <<refunds, bulk, told, outside>>
  PROVE  IInv'
<1> DEFINE entries == Requested(req[s].sess.bulk, NewId)
           r == [req[s] EXCEPT !.pc = "bulk-patch", !.sess.bulk = entries]
<1>1. TypeOK /\ req[s] \in Request /\ RequestOK(req[s])
  BY RequestIs DEF IInv
<1>2. req[s].sess \in Sessions /\ p \in Payments /\ req[s].sess.bulk \in Seq(BulkRefund)
  BY WholeIsDue DEF Sessions
<1>3. Amount \in 1 .. Amount /\ Amount <= left[p] /\ MakeRefund(p, Amount, state)
  BY RefundAssumption DEF Made
<1>4. req' = [req EXCEPT ![s] = r]
  BY <1>1 DEF Made, TypeOK, Request, Sessions
<1>5. /\ NewId \in Ids /\ NewId \notin DOMAIN made /\ NewId \in DOMAIN made'
      /\ made'[NewId].pid = p /\ made'[NewId].amount = Amount
  <2>1. /\ NewId \in Ids /\ NewId \notin DOMAIN made /\ DOMAIN made' = DOMAIN made \cup {NewId}
        /\ made'[NewId] = [pid |-> p, amount |-> Amount, state |-> state]
    BY <1>1, <1>2, <1>3, RefundMadeIs
  <2> QED
    BY <2>1
<1>6. ASSUME NEW listed \in SUBSET DOMAIN made, NEW more, CopiesTrue(made, listed, refunds, bulk, req),
             Grows(made, made'), Widens(made, listed, more),
             more = IF FALSE THEN listed \cup {NewId} ELSE listed
      PROVE  /\ RequestTrue(made', more, refunds, bulk, req[s])
             /\ entries # <<>> /\ BulkTrue(made', more, entries, p)
             /\ \A k \in DOMAIN entries : entries[k].status = "refund-requested"
  <2>1. RequestTrue(made, listed, refunds, bulk, req[s])
    BY <1>6 DEF CopiesTrue
  <2>2. RequestTrue(made', more, refunds, bulk, req[s])
    BY <1>1, <1>6, <2>1, Still, RequestStays DEF Fills
  <2>3. req[s].sess.bulk # <<>> /\ BulkTrue(made', more, req[s].sess.bulk, p)
    BY <2>2 DEF RequestTrue, BulkingTrue, Waiting, CopyTrue
  <2>4. NewId \in DOMAIN made' \ more
    BY <1>5, <1>6
  <2> QED
    <3>1. /\ entries # <<>> /\ BulkTrue(made', more, entries, p)
          /\ \A k \in DOMAIN entries : entries[k].status = "refund-requested"
      <4> DEFINE had == req[s].sess.bulk
      <4>1. had \in Seq(BulkRefund) /\ had # <<>> /\ BulkTrue(made', more, had, p)
        BY <1>2, <2>3
      <4> HIDE DEF had
      <4>2. /\ Requested(had, NewId) # <<>> /\ BulkTrue(made', more, Requested(had, NewId), p)
            /\ \A k \in DOMAIN Requested(had, NewId) :
                 Requested(had, NewId)[k].status = "refund-requested"
        BY <1>5, <2>4, <4>1, RequestedTrue
      <4> QED
        BY <4>2 DEF had
    <3> QED
      BY <2>2, <3>1, Zenon
<1>7. entries \in Seq(BulkRefund)
  <2>1. PICK listed : RequestTrue(made, listed, refunds, bulk, req[s])
    BY DEF IInv, CopiesTrue
  <2>2. req[s].sess.bulk # <<>> /\ BulkTrue(made, listed, req[s].sess.bulk, p)
    BY <2>1 DEF RequestTrue, BulkingTrue, Waiting, CopyTrue
  <2> QED
    BY <1>2, <1>5, <2>2, RequestedIs DEF BulkTrue
<1> HIDE DEF entries
<1>8. /\ r \in Request /\ r.pc = "bulk-patch"
      /\ r.sess.pid = p /\ r.sess.list = req[s].sess.list /\ r.sess.bulk = entries
      /\ r.todo = req[s].todo /\ r.done = req[s].done /\ r.file = req[s].file
  BY <1>1, <1>2, <1>7 DEF Request, PCs, Sessions
<1> HIDE DEF r
<1>9. RequestOK(r)
  BY <1>1, <1>2, <1>8 DEF RequestOK
<1>10. ASSUME NEW listed \in SUBSET DOMAIN made, NEW more,
              CopiesTrue(made, listed, refunds, bulk, req),
              Grows(made, made'), Widens(made, listed, more),
              more = IF FALSE THEN listed \cup {NewId} ELSE listed
       PROVE  RequestTrue(made', more, refunds, bulk, r)
  <2>1. /\ RequestTrue(made', more, refunds, bulk, req[s])
        /\ entries # <<>> /\ BulkTrue(made', more, entries, p)
        /\ \A k \in DOMAIN entries : entries[k].status = "refund-requested"
    BY <1>6, <1>10
  <2>2. CopyTrue(made', more, bulk, r.sess)
    BY <1>8, <2>1 DEF RequestTrue, CopyTrue, BulkingTrue, Waiting
  <2>3. \A x \in r.todo : Waiting(x)
    BY <1>8, <2>1 DEF RequestTrue, BulkingTrue
  <2> QED
    BY <1>8, <2>1, <2>2, <2>3
       DEF RequestTrue, Creating, CreatingTrue, UpdatingTrue, PendingTrue, BulkingTrue, UploadTrue
<1> QED
  BY <1>2, <1>3, <1>4, <1>8, <1>9, <1>10, Makes

(* A refund that goes unrecorded. *)
LEMMA UnrecordedKeeps ==
  ASSUME IInv, NEW s \in Slots, req[s].pc = "bulk-refund", NEW p, p = req[s].sess.pid,
         left[p] = Amount, MakeRefund(p, Amount, "submitted"),
         req' = [req EXCEPT ![s] = NextBulk(req[s])],
         UNCHANGED <<refunds, bulk, told, outside>>
  PROVE  IInv'
<1>1. TypeOK /\ req[s] \in Request /\ RequestOK(req[s]) /\ p \in Payments
  BY RequestIs, WholeIsDue DEF IInv
<1>2. Amount \in 1 .. Amount /\ Amount <= left[p]
  BY RefundAssumption
<1>3. /\ NextBulk(req[s]) \in Request /\ RequestOK(NextBulk(req[s]))
      /\ \A m, listed, d, b :
           RequestTrue(m, listed, d, b, req[s]) => RequestTrue(m, listed, d, b, NextBulk(req[s]))
  BY <1>1, NextBulkLess
<1>4. ASSUME NEW listed \in SUBSET DOMAIN made, NEW more,
             CopiesTrue(made, listed, refunds, bulk, req),
             Grows(made, made'), Widens(made, listed, more),
             more = IF FALSE THEN listed \cup {NewId} ELSE listed
      PROVE  RequestTrue(made', more, refunds, bulk, NextBulk(req[s]))
  <2>1. RequestTrue(made, listed, refunds, bulk, req[s])
    BY <1>4 DEF CopiesTrue
  <2>2. RequestTrue(made', more, refunds, bulk, req[s])
    BY <1>1, <1>4, <2>1, Still, RequestStays DEF Fills
  <2> QED
    BY <1>3, <2>2
<1> QED
  BY <1>1, <1>2, <1>3, <1>4, Makes

LEMMA RefusedKeeps ==
  ASSUME IInv, NEW s \in Slots, req[s].pc = "bulk-refund", NEW p, NEW due, Refused(s, p, due),
         UNCHANGED <<refunds, bulk, told, outside>>
  PROVE  IInv'
<1>1. TypeOK /\ req[s] \in Request
  BY RequestIs DEF IInv
<1>2. /\ NextBulk(req[s]) \in Request /\ RequestOK(NextBulk(req[s]))
      /\ \A listed \in SUBSET DOMAIN made :
           CopiesTrue(made, listed, refunds, bulk, req) =>
             RequestTrue(made, listed, refunds, bulk, NextBulk(req[s]))
  BY <1>1, NextBulkLess DEF CopiesTrue
<1>3. /\ req' = [req EXCEPT ![s] = NextBulk(req[s])] /\ UNCHANGED <<refunds, bulk, made, left, told>>
      /\ overlapped' \in BOOLEAN /\ issued' \in 0 .. MaxRequests /\ faults' \in 0 .. MaxFaults
  BY <1>1 DEF Refused, TypeOK, outside
<1> QED
  BY <1>2, <1>3, Moves

LEMMA CreateWholeRefundKeeps ==
  ASSUME IInv, NEW s \in Slots, CreateWholeRefund(s)
  PROVE  IInv'
<1>1. req[s].pc = "bulk-refund" /\ Recent(req[s].sess).amount = Amount
  BY WholeIsDue DEF CreateWholeRefund
<1>2. (IF Sandbox THEN "success" ELSE "submitted") \in {"submitted", "success"}
  OBVIOUS
<1> QED
  BY <1>1, <1>2, MadeKeeps, RefusedKeeps DEF CreateWholeRefund

LEMMA RefundCaptureKeeps ==
  ASSUME IInv, NEW s \in Slots, RefundCapture(s)
  PROVE  IInv'
BY MadeKeeps, UnrecordedKeeps, RefusedKeeps DEF RefundCapture

-----------------------------------------------------------------------------
(* Requests that write arrays. *)

(* The copy a request holds is written, and the request goes on. *)
LEMMA CopyWritten ==
  ASSUME IInv, NEW s \in Slots, NEW x, x = req[s].sess, x.pid \in Payments,
         PatchPaymentResource(x.pid, x.list, x.bulk),
         NEW r \in Request, RequestOK(r), req' = [req EXCEPT ![s] = r],
         \A m, listed, d, b :
           RequestTrue(m, listed, d, b, req[s]) => RequestTrue(m, listed, d, b, r),
         UNCHANGED <<made, left, told, outside>>
  PROVE  IInv'
<1> DEFINE p == x.pid
           list == IF x.list = <<>> THEN refunds[p] ELSE x.list
           entries == IF x.bulk = <<>> THEN bulk[p] ELSE x.bulk
<1>1. TypeOK /\ req[s] \in Request /\ RequestOK(req[s])
  BY RequestIs DEF IInv
<1>2. x.list \in Seq(Refund) /\ x.bulk \in Seq(BulkRefund)
  BY <1>1 DEF Request, Sessions
<1>3. refunds[p] \in Seq(Refund) /\ bulk[p] \in Seq(BulkRefund)
  BY <1>1 DEF TypeOK
<1>4. list \in Seq(Refund) /\ entries \in Seq(BulkRefund)
  BY <1>2, <1>3
<1>5. (refunds[p] # <<>> => list # <<>>) /\ (bulk[p] # <<>> => entries # <<>>)
  OBVIOUS
<1>6. refunds' = [refunds EXCEPT ![p] = list] /\ bulk' = [bulk EXCEPT ![p] = entries]
  BY DEF PatchPaymentResource
<1>7. ASSUME NEW listed \in SUBSET DOMAIN made, CopiesTrue(made, listed, refunds, bulk, req)
      PROVE  /\ ListTrue(made, listed, list, p) /\ BulkTrue(made, listed, entries, p)
             /\ RequestTrue(made, listed, refunds, bulk, req[s])
  <2>1. ListTrue(made, listed, refunds[p], p) /\ BulkTrue(made, listed, bulk[p], p)
    BY <1>7 DEF CopiesTrue
  <2>2. RequestTrue(made, listed, refunds, bulk, req[s])
    BY <1>7 DEF CopiesTrue
  <2>3. ListTrue(made, listed, x.list, p) /\ BulkTrue(made, listed, x.bulk, p)
    BY <2>2 DEF RequestTrue, CopyTrue
  <2> QED
    BY <2>1, <2>2, <2>3
<1> HIDE DEF list, entries
<1>8. Fills(refunds, refunds') /\ Fills(bulk, bulk')
  BY <1>1, <1>5, <1>6 DEF Fills, TypeOK
<1>9. ASSUME NEW listed \in SUBSET DOMAIN made, CopiesTrue(made, listed, refunds, bulk, req)
      PROVE  RequestTrue(made, listed, refunds', bulk', r)
  <2>1. RequestTrue(made, listed, refunds', bulk', req[s])
    BY <1>1, <1>7, <1>8, <1>9, Still, RequestStays
  <2> QED
    BY <2>1
<1> HIDE DEF p
<1>10. p \in Payments
  BY DEF p
<1> QED
  BY <1>4, <1>5, <1>6, <1>7, <1>9, <1>10, Writes

LEMMA PatchRefundsKeeps ==
  ASSUME IInv, NEW s \in Slots, PatchRefunds(s)
  PROVE  IInv'
<1>1. /\ req[s].sess.pid \in Payments /\ req' = [req EXCEPT ![s] = Idle]
      /\ PatchPaymentResource(req[s].sess.pid, req[s].sess.list, req[s].sess.bulk)
      /\ UNCHANGED <<made, left, told, outside>>
  BY RequestIs DEF PatchRefunds, IInv, RequestOK
<1> QED
  BY <1>1, IdleTrue, CopyWritten

LEMMA PatchBulkKeeps ==
  ASSUME IInv, NEW s \in Slots, PatchBulk(s)
  PROVE  IInv'
<1>1. /\ TypeOK /\ req[s] \in Request /\ req[s].pc = "bulk-patch"
      /\ req[s].sess.pid \in Payments /\ req' = [req EXCEPT ![s] = NextBulk(req[s])]
      /\ PatchPaymentResource(req[s].sess.pid, req[s].sess.list, req[s].sess.bulk)
      /\ UNCHANGED <<made, left, told, outside>>
  BY RequestIs DEF PatchBulk, IInv, RequestOK
<1>2. /\ NextBulk(req[s]) \in Request /\ RequestOK(NextBulk(req[s]))
      /\ \A m, listed, d, b :
           RequestTrue(m, listed, d, b, req[s]) => RequestTrue(m, listed, d, b, NextBulk(req[s]))
  BY <1>1, NextBulkLess
<1> QED
  BY <1>1, <1>2, CopyWritten

(* An upload puts its entry on a session that has no bulk refund. *)
LEMMA PlacedIs ==
  ASSUME IInv, NEW s \in Slots, req[s].pc = "upload", NEW entry \in req[s].file
  PROVE  /\ entry.order \in Payments /\ entry.amount = Amount
         /\ UpdateBatchRefund(entry) = [id |-> 0, status |-> "refund-pending", amount |-> Amount]
         /\ UpdateBatchRefund(entry) \in BulkRefund
         /\ HasStatus(bulk[entry.order], "refund-pending") \/ HasStatus(bulk[entry.order], "refund-requested")
              <=> bulk[entry.order] # <<>>
<1>1. PICK listed : RequestTrue(made, listed, refunds, bulk, req[s])
  BY DEF IInv, CopiesTrue
<1>2. entry.order \in Payments /\ entry.amount = Amount
  BY <1>1 DEF RequestTrue, UploadTrue
<1>3. /\ UpdateBatchRefund(entry) = [id |-> 0, status |-> "refund-pending", amount |-> Amount]
      /\ UpdateBatchRefund(entry) \in BulkRefund
  BY <1>2, RefundAssumption DEF UpdateBatchRefund, BulkRefund, AnyId
<1> DEFINE had == bulk[entry.order]
<1>4. had \in Seq(BulkRefund)
  BY <1>2 DEF IInv, TypeOK
<1> HIDE DEF had
<1>5. ASSUME had # <<>>
      PROVE  HasStatus(had, "refund-pending") \/ HasStatus(had, "refund-requested")
  <2>1. 1 \in DOMAIN had /\ had[1] \in BulkRefund
    BY <1>4, <1>5, EmptySeq
  <2> QED
    BY <2>1 DEF HasStatus, BulkRefund
<1>6. had = <<>> => ~HasStatus(had, "refund-pending") /\ ~HasStatus(had, "refund-requested")
  BY DEF HasStatus
<1> QED
  BY <1>2, <1>3, <1>5, <1>6 DEF had

LEMMA CreateBulkRefundKeeps ==
  ASSUME IInv, NEW s \in Slots, CreateBulkRefund(s)
  PROVE  IInv'
<1>1. TypeOK /\ req[s] \in Request /\ RequestOK(req[s]) /\ req[s].pc = "upload"
  BY RequestIs DEF IInv, CreateBulkRefund
<1>2. PICK entry \in req[s].file :
        /\ req' = [req EXCEPT ![s] = IF req[s].file = {entry} THEN Idle
                                     ELSE [req[s] EXCEPT !.file = @ \ {entry}]]
        /\ bulk' = [bulk EXCEPT ![entry.order] =
                      IF \/ HasStatus(bulk[entry.order], "refund-pending")
                         \/ HasStatus(bulk[entry.order], "refund-requested")
                      THEN bulk[entry.order]
                      ELSE Append(bulk[entry.order], UpdateBatchRefund(entry))]
  BY <1>1, Zenon DEF CreateBulkRefund
<1> DEFINE p == entry.order
           new == UpdateBatchRefund(entry)
           entries == IF bulk[p] = <<>> THEN <<new>> ELSE bulk[p]
           rest == [req[s] EXCEPT !.file = @ \ {entry}]
           r == IF req[s].file = {entry} THEN Idle ELSE rest
<1>3. /\ p \in Payments /\ new \in BulkRefund
      /\ new = [id |-> 0, status |-> "refund-pending", amount |-> Amount]
      /\ HasStatus(bulk[p], "refund-pending") \/ HasStatus(bulk[p], "refund-requested")
           <=> bulk[p] # <<>>
  BY <1>1, PlacedIs
<1>4. bulk[p] \in Seq(BulkRefund) /\ refunds[p] \in Seq(Refund)
  BY <1>1, <1>3 DEF TypeOK
<1> HIDE DEF p, new
<1>5. /\ bulk' = [bulk EXCEPT ![p] = entries]
      /\ refunds' = [refunds EXCEPT ![p] = refunds[p]]
      /\ UNCHANGED <<made, left, told, outside>>
  <2>1. Append(<<>>, new) = <<new>>
    OBVIOUS
  <2>2. refunds' = refunds /\ refunds = [refunds EXCEPT ![p] = refunds[p]]
    BY <1>1, <1>3 DEF CreateBulkRefund, TypeOK
  <2>3. UNCHANGED <<made, left, told, outside>>
    BY DEF CreateBulkRefund
  <2> QED
    BY <1>2, <1>3, <2>1, <2>2, <2>3 DEF p, new
<1>6. req' = [req EXCEPT ![s] = r]
  BY <1>2
<1>7. entries \in Seq(BulkRefund) /\ entries # <<>>
  BY <1>3, <1>4
<1>8. /\ rest \in Request /\ rest.file \subseteq req[s].file /\ rest.pc = "upload"
      /\ rest.sess = req[s].sess /\ rest.todo = req[s].todo /\ rest.done = req[s].done
  BY <1>1 DEF Request
<1> HIDE DEF rest
<1>9. r \in Request /\ RequestOK(r)
  BY <1>1, <1>8, IdleTrue DEF RequestOK
<1>10. Fills(refunds, refunds') /\ Fills(bulk, bulk')
  BY <1>1, <1>5, <1>7 DEF Fills, TypeOK
<1>11. ASSUME NEW listed \in SUBSET DOMAIN made, CopiesTrue(made, listed, refunds, bulk, req)
       PROVE  /\ ListTrue(made, listed, refunds[p], p) /\ BulkTrue(made, listed, entries, p)
              /\ RequestTrue(made, listed, refunds', bulk', r)
  <2>1. ListTrue(made, listed, refunds[p], p) /\ BulkTrue(made, listed, bulk[p], p)
    BY <1>3, <1>11 DEF CopiesTrue
  <2>2. BulkTrue(made, listed, <<new>>, p)
    <3>1. EntryTrue(made, listed, new, p)
      BY <1>3 DEF EntryTrue
    <3>2. Len(<<new>>) = 1 /\ DOMAIN <<new>> = 1 .. 1 /\ <<new>>[1] = new
      OBVIOUS
    <3>3. \A k \in DOMAIN <<new>> : <<new>>[k] = new
      BY <3>2
    <3> QED
      BY <3>1, <3>2, <3>3 DEF BulkTrue
  <2>3. RequestTrue(made, listed, refunds, bulk, req[s])
    BY <1>11 DEF CopiesTrue
  <2>4. RequestTrue(made, listed, refunds', bulk', req[s])
    BY <1>1, <1>10, <1>11, <2>3, Still, RequestStays
  <2>5. RequestTrue(made, listed, refunds', bulk', rest)
    BY <1>8, <2>4
       DEF RequestTrue, Creating, CreatingTrue, UpdatingTrue, PendingTrue, BulkingTrue, UploadTrue
  <2> QED
    BY <2>1, <2>2, <2>5, IdleTrue
<1> HIDE DEF entries, r
<1> QED
  BY <1>3, <1>4, <1>5, <1>6, <1>7, <1>9, <1>11, Writes

-----------------------------------------------------------------------------
(* A refund that GOV.UK Pay settles. *)
LEMMA SettledIs ==
  ASSUME IInv, NEW i \in Ids, RefundSettles(i)
  PROVE  /\ Settled(made, made', left, left', i) /\ left' \in [Payments -> Int]
         /\ made[i].state = "submitted" /\ made'[i].state \in {"success", "error"}
         /\ made' \in Seq(RefundMade)
<1>1. /\ TypeOK /\ made \in Seq(RefundMade) /\ i \in DOMAIN made /\ made[i].state = "submitted"
      /\ made[i].amount \in 1 .. Amount /\ Amount \in Nat
  BY RefundAssumption DEF IInv, TypeOK, RefundSettles, MoneyTrue
<1>2. PICK end \in Outcomes :
        /\ made' = [made EXCEPT ![i].state = end]
        /\ left' = [left EXCEPT ![made[i].pid] = IF end = "error" THEN @ + made[i].amount ELSE @]
  BY DEF RefundSettles
<1>3. end \in {"success", "error"}
  BY RefundAssumption
<1>4. made[i] \in RefundMade /\ \A j \in DOMAIN made : made[j] \in RefundMade
  BY <1>1
<1>5. /\ made' \in Seq(RefundMade) /\ DOMAIN made' = DOMAIN made
      /\ made'[i] = [made[i] EXCEPT !.state = end]
      /\ \A j \in DOMAIN made : j # i => made'[j] = made[j]
  <2> DEFINE new == [made[i] EXCEPT !.state = end]
  <2>1. new \in RefundMade
    BY <1>3, <1>4 DEF RefundMade, GovPayRefundStatuses
  <2>2. made' = [made EXCEPT ![i] = new]
    BY <1>2
  <2> HIDE DEF new
  <2>3. /\ made' \in Seq(RefundMade) /\ DOMAIN made' = DOMAIN made /\ made'[i] = new
        /\ \A j \in DOMAIN made : j # i => made'[j] = made[j]
    BY <1>1, <2>1, <2>2
  <2> QED
    BY <2>3 DEF new
<1>6. /\ made'[i].state = end /\ made'[i].pid = made[i].pid /\ made'[i].amount = made[i].amount
      /\ made[i].pid \in Payments
  BY <1>4, <1>5 DEF RefundMade
<1>7. \A j \in DOMAIN made : made'[j].amount = made[j].amount /\ made'[j].pid = made[j].pid
  BY <1>5, <1>6
<1>8. \A j \in DOMAIN made : j # i => made'[j].state = made[j].state
  BY <1>5
<1> DEFINE p == made[i].pid
<1>9. left' = [left EXCEPT ![p] = IF end = "error" THEN left[p] + made[i].amount ELSE left[p]]
  BY <1>2
<1>10. p \in Payments /\ left \in [Payments -> Int] /\ made[i].amount \in Int
  BY <1>1, <1>6 DEF TypeOK
<1>11. /\ left' \in [Payments -> Int]
       /\ left'[p] = IF made'[i].state = "error" THEN left[p] + made[i].amount ELSE left[p]
       /\ \A q \in Payments : q # p => left'[q] = left[q]
  <2> HIDE DEF p
  <2>1. (IF end = "error" THEN left[p] + made[i].amount ELSE left[p]) \in Int
    BY <1>10
  <2> QED
    BY <1>6, <1>9, <1>10, <2>1
<1> QED
  BY <1>1, <1>3, <1>5, <1>6, <1>7, <1>8, <1>10, <1>11 DEF Settled

LEMMA RefundSettlesKeeps ==
  ASSUME IInv, NEW i \in Ids, RefundSettles(i)
  PROVE  IInv' /\ left[made[i].pid] + made[i].amount <= Amount
<1>1. /\ Settled(made, made', left, left', i) /\ left' \in [Payments -> Int]
      /\ made[i].state = "submitted" /\ made' \in Seq(RefundMade)
  BY SettledIs
<1>2. /\ i \in DOMAIN made /\ DOMAIN made' = DOMAIN made
      /\ \A j \in DOMAIN made : made'[j].amount = made[j].amount /\ made'[j].pid = made[j].pid
      /\ \A j \in DOMAIN made : j # i => made'[j].state = made[j].state
  BY <1>1 DEF Settled
<1>3. TypeOK /\ told \subseteq FinalIn(made) /\ MoneyTrue(made, left) /\ made \in Seq(RefundMade)
  BY DEF IInv, TypeOK
<1>4. MoneyTrue(made', left') /\ left[made[i].pid] + made[i].amount <= Amount
  BY <1>1, <1>3, MoneySettled
<1>5. UNCHANGED <<refunds, bulk, told, req, outside>>
  BY DEF RefundSettles
<1>6. TypeOK'
  <2>1. Len(made') = Len(made)
    BY <1>1, <1>2, <1>3
  <2> QED
    BY <1>1, <1>3, <1>5, <2>1 DEF TypeOK, outside
<1>7. Grows(made, made')
  BY <1>1, <1>2 DEF Grows
<1>8. told' \subseteq FinalIn(made')
  BY <1>2, <1>3, <1>5, <1>7 DEF FinalIn, Grows
<1>9. PICK listed \in SUBSET DOMAIN made : CopiesTrue(made, listed, refunds, bulk, req)
  BY DEF IInv
<1>10. CopiesTrue(made', listed, refunds', bulk', req')
  BY <1>3, <1>5, <1>7, <1>9, NoSlot
<1>11. listed \subseteq DOMAIN made'
  BY <1>2
<1> QED
  BY <1>4, <1>6, <1>8, <1>10, <1>11 DEF IInv

-----------------------------------------------------------------------------
(* The invariant. *)

LEMMA InitIInv == Init => IInv
<1> SUFFICES ASSUME Init PROVE IInv
  OBVIOUS
<1>1. TypeOK
  <2>1. /\ <<>> \in Seq(Refund) /\ <<>> \in Seq(BulkRefund)
        /\ <<>> \in Seq(RefundMade) /\ Len(<<>>) = 0
    OBVIOUS
  <2>2. /\ refunds \in [Payments -> Seq(Refund)] /\ bulk \in [Payments -> Seq(BulkRefund)]
        /\ made \in Seq(RefundMade) /\ Len(made) <= MaxRefunds
    BY <2>1, RefundAssumption DEF Init
  <2>3. req \in [Slots -> Request] /\ \A s \in Slots : RequestOK(req[s])
    BY IdleTrue DEF Init
  <2>4. /\ left \in [Payments -> Int] /\ told \subseteq Ids /\ overlapped \in BOOLEAN
        /\ issued \in 0 .. MaxRequests /\ faults \in 0 .. MaxFaults
    <3>1. Amount \in Int /\ MaxRequests \in Nat /\ MaxFaults \in Nat
      BY RefundAssumption
    <3>2. left = [p \in Payments |-> Amount] /\ issued = 0 /\ faults = 0
      BY DEF Init
    <3>3. told = {} /\ overlapped = FALSE
      BY DEF Init
    <3>4. left \in [Payments -> Int]
      BY <3>1, <3>2
    <3>5. issued \in 0 .. MaxRequests /\ faults \in 0 .. MaxFaults
      BY <3>1, <3>2
    <3> QED
      BY <3>3, <3>4, <3>5
  <2> QED
    BY <2>2, <2>3, <2>4 DEF TypeOK
<1>2. made = <<>> /\ DOMAIN made = {} /\ told \subseteq FinalIn(made)
  BY DEF Init
<1>3. MoneyTrue(made, left)
  <2>1. ASSUME NEW p \in Payments PROVE HeldOf(made, p) = {}
    BY <1>2 DEF HeldOf
  <2>2. IsFiniteSet({})
    BY FS_EmptySet
  <2>3. Total(made, {}) = 0
    BY <2>2, Totals
  <2>4. ASSUME NEW p \in Payments
        PROVE  left[p] >= 0 /\ left[p] + Total(made, HeldOf(made, p)) = Amount
    <3>1. left[p] = Amount /\ Amount \in Nat
      BY RefundAssumption DEF Init
    <3>2. Total(made, HeldOf(made, p)) = 0
      BY <2>1, <2>3
    <3> QED
      BY <3>1, <3>2
  <2> QED
    BY <1>2, <2>4, MoneyIs
<1>4. CopiesTrue(made, {}, refunds, bulk, req)
  <2>1. ASSUME NEW p \in Payments
        PROVE  ListTrue(made, {}, refunds[p], p) /\ BulkTrue(made, {}, bulk[p], p)
    BY DEF Init, ListTrue, BulkTrue
  <2>2. \A s \in Slots : RequestTrue(made, {}, refunds, bulk, req[s])
    BY IdleTrue DEF Init
  <2> QED
    BY <2>1, <2>2 DEF CopiesTrue
<1> QED
  BY <1>1, <1>2, <1>3, <1>4 DEF IInv

LEMMA NextIInv == IInv /\ [Next]_vars => IInv'
<1> SUFFICES ASSUME IInv, [Next]_vars PROVE IInv'
  OBVIOUS
<1>1. ASSUME NEW s \in Slots, Arrive(s) PROVE IInv'
  BY <1>1, BeginCreateRefundKeeps, BeginUpdateRefundKeeps, handleRefundFileKeeps,
     BeginProcessPendingKeeps, BeginProcessBatchKeeps DEF Arrive
<1>2. ASSUME NEW s \in Slots, Proceed(s) PROVE IInv'
  BY <1>2, ReadSessionKeeps, GetRefundSummaryKeeps, CreateRefundKeeps, GetRefundStatusKeeps,
     PatchRefundsKeeps, GetPendingStatusKeeps, PatchPendingKeeps, SendRefundMessageKeeps,
     CheckAvailableKeeps, CreateWholeRefundKeeps, RefundCaptureKeeps, PatchBulkKeeps,
     CreateBulkRefundKeeps DEF Proceed
<1>3. ASSUME NEW s \in Slots, PassOver(s) \/ BulkFails(s) \/ RequestDies(s) PROVE IInv'
  BY <1>3, PassOverKeeps, BulkFailsKeeps, RequestDiesKeeps
<1>4. ASSUME NEW i \in Ids, RefundSettles(i) PROVE IInv'
  BY <1>4, RefundSettlesKeeps
<1>5. CASE UNCHANGED vars
  <2>1. UNCHANGED <<refunds, bulk, made, left, told, req, overlapped, issued, faults>>
    BY <1>5 DEF vars
  <2>2. TypeOK'
    BY <2>1 DEF IInv, TypeOK
  <2>3. told' \subseteq FinalIn(made') /\ MoneyTrue(made', left')
    BY <2>1 DEF IInv
  <2>4. PICK listed \in SUBSET DOMAIN made : CopiesTrue(made, listed, refunds, bulk, req)
    BY DEF IInv
  <2>5. listed \in SUBSET DOMAIN made' /\ CopiesTrue(made', listed, refunds', bulk', req')
    BY <2>1, <2>4
  <2> QED
    BY <2>2, <2>3, <2>5 DEF IInv
<1> QED
  BY <1>1, <1>2, <1>3, <1>4, <1>5 DEF Next

(* The invariant of refunds: every state they can reach satisfies IInv,
   whatever requests, jobs, uploads and providers do, and in what order. *)
THEOREM RefundsSafe == Spec => []IInv
BY InitIInv, NextIInv, PTL DEF Spec

(* No handler takes a variable out of its type, and no request is ever about a
   session that there is not. *)
THEOREM RefundsTyped == Spec => []TypeOK
<1>1. IInv => TypeOK
  BY DEF IInv
<1> QED
  BY <1>1, RefundsSafe, PTL

(* As many ids as elements, when no two elements have the same one. *)
LEMMA EachIdOnce ==
  ASSUME NEW list \in Seq(Refund), \A j, k \in DOMAIN list : list[j].id = list[k].id => j = k
  PROVE  Cardinality(IdsIn(list)) = Len(list)
<1> DEFINE n == Len(list)
           f == [k \in 1 .. n |-> list[k].id]
<1>1. n \in Nat /\ DOMAIN list = 1 .. n
  OBVIOUS
<1>2. f \in [1 .. n -> IdsIn(list)]
  BY <1>1 DEF IdsIn
<1>3. \A j, k \in 1 .. n : f[j] = f[k] => j = k
  BY <1>1
<1>4. \A i \in IdsIn(list) : \E k \in 1 .. n : f[k] = i
  BY <1>1 DEF IdsIn
<1> HIDE DEF n, f
<1>5. f \in Bijection(1 .. n, IdsIn(list))
  BY <1>2, <1>3, <1>4 DEF Bijection, Injection, Surjection, IsInjective
<1>6. ExistsBijection(1 .. n, IdsIn(list))
  BY <1>5 DEF ExistsBijection
<1>7. Cardinality(IdsIn(list)) = n
  BY <1>1, <1>6, FS_CountingElements
<1> QED
  BY <1>7 DEF n

(* However requests race with stale copies, a session lists refunds of its own
   payment, each once, and its bulk refund is none of them. *)
THEOREM RefundsOwn == Spec => []RefundsAreOwn
<1>1. IInv => RefundsAreOwn
  <2> SUFFICES ASSUME IInv, NEW p \in Payments
               PROVE  /\ Cardinality(IdsIn(refunds[p])) = Len(refunds[p])
                      /\ \A i \in IdsIn(refunds[p]) : i \in DOMAIN made /\ made[i].pid = p
                      /\ IdsIn(refunds[p]) \cap IdsIn(bulk[p]) = {}
    BY DEF RefundsAreOwn
  <2>1. refunds[p] \in Seq(Refund) /\ made \in Seq(RefundMade)
    BY DEF IInv, TypeOK
  <2>2. PICK listed \in SUBSET DOMAIN made :
          ListTrue(made, listed, refunds[p], p) /\ BulkTrue(made, listed, bulk[p], p)
    BY DEF IInv, CopiesTrue
  <2>3. Cardinality(IdsIn(refunds[p])) = Len(refunds[p])
    BY <2>1, <2>2, EachIdOnce DEF ListTrue
  <2>4. \A i \in IdsIn(refunds[p]) : i \in listed /\ i \in DOMAIN made /\ made[i].pid = p
    BY <2>2 DEF ListTrue, IdsIn
  <2>5. \A i \in IdsIn(bulk[p]) : i \notin listed
    <3>1. 0 \notin listed
      BY <2>1, <2>2
    <3> QED
      BY <2>2, <3>1 DEF BulkTrue, EntryTrue, IdsIn
  <2> QED
    BY <2>3, <2>4, <2>5
<1> QED
  BY <1>1, RefundsSafe, PTL

(* What is stored as a success, and what consumers are told of, succeeded at
   the provider; what is stored as an error failed there. *)
THEOREM SuccessTrue == Spec => []SuccessIsTrue
<1>1. IInv => SuccessIsTrue
  <2> SUFFICES ASSUME IInv PROVE SuccessIsTrue
    OBVIOUS
  <2>1. PICK listed : CopiesTrue(made, listed, refunds, bulk, req)
    BY DEF IInv
  <2>2. \A p \in Payments : \A k \in DOMAIN refunds[p] :
          StatusTrue(refunds[p][k].status, made[refunds[p][k].id].state)
    BY <2>1 DEF CopiesTrue, ListTrue
  <2>3. \A i \in told : made[i].state = "success"
    BY DEF IInv, FinalIn
  <2> QED
    BY <2>2, <2>3 DEF SuccessIsTrue, StatusTrue
<1> QED
  BY <1>1, RefundsSafe, PTL

(* Clients and jobs, racing, never have more refunded than was paid. *)
THEOREM NeverMore == Spec => []NeverTooMuch
<1>1. IInv => NeverTooMuch
  <2> SUFFICES ASSUME IInv, NEW p \in Payments PROVE Total(made, Holding(p)) <= Amount
    BY DEF NeverTooMuch, Total
  <2>1. Holding(p) = HeldOf(made, p)
    BY DEF Holding, HeldOf
  <2>2. /\ made \in Seq(RefundMade) /\ Amount \in Nat /\ left[p] \in Int
        /\ \A i \in DOMAIN made : made[i].amount \in 1 .. Amount
        /\ left[p] >= 0 /\ left[p] + Total(made, HeldOf(made, p)) = Amount
    BY MoneyIs, RefundAssumption DEF IInv, TypeOK
  <2>3. Total(made, HeldOf(made, p)) \in Nat
    BY <2>2, HeldTotal
  <2> QED
    BY <2>1, <2>2, <2>3
<1> QED
  BY <1>1, RefundsSafe, PTL

(* Uploads and jobs, repeated, overlapping and cut short, leave at most one
   bulk refund on a session, requested only with a refund of the whole payment. *)
THEOREM BulkGrounded == Spec => []BulkIsGrounded
<1>1. IInv => BulkIsGrounded
  <2> SUFFICES ASSUME IInv, NEW p \in Payments
               PROVE  /\ Len(bulk[p]) <= 1
                      /\ \A k \in DOMAIN bulk[p] :
                           IF bulk[p][k].status = "refund-pending" THEN bulk[p][k].id = 0
                           ELSE /\ bulk[p][k].id \in DOMAIN made
                                /\ made[bulk[p][k].id].pid = p
                                /\ made[bulk[p][k].id].amount = Amount
    BY DEF BulkIsGrounded
  <2>1. PICK listed : BulkTrue(made, listed, bulk[p], p)
    BY DEF IInv, CopiesTrue
  <2> QED
    BY <2>1 DEF BulkTrue, EntryTrue
<1> QED
  BY <1>1, RefundsSafe, PTL
=============================================================================
