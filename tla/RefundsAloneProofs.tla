------------------------- MODULE RefundsAloneProofs -------------------------
(***************************************************************************)
(* What refunds promise while requests do not overlap, for any number of   *)
(* payments, refunds, files, faults and requests one after the other.      *)
(*                                                                         *)
(* The invariant IInv holds whatever overlaps; AloneInv adds that a copy   *)
(* of a session is what is stored.  Each action is left with the request   *)
(* it moves (Goes) and with arrays that only gain (Advances).              *)
(***************************************************************************)
EXTENDS RefundsProofs

(* An array of refunds keeps what it said, or has one refund more. *)
Gains(old, new) == Keeps(old, new) \/ Extends(old, new)

LEMMA KeepsItself ==
  ASSUME NEW list PROVE Keeps(list, list) /\ Gains(list, list)
BY DEF Keeps, Gains

LEMMA ExtendsIs ==
  ASSUME NEW old \in Seq(Refund), NEW refund \in Refund
  PROVE  /\ DOMAIN Append(old, refund) = DOMAIN old \cup {Len(old) + 1}
         /\ Append(old, refund)[Len(old) + 1] = refund /\ Len(old) + 1 \notin DOMAIN old
         /\ \A k \in DOMAIN old : Append(old, refund)[k] = old[k]
         /\ Append(old, refund) # <<>>
OBVIOUS

(* Then it loses neither ids nor successes, and references stay apart. *)
LEMMA GainsIs ==
  ASSUME NEW old \in Seq(Refund), NEW new, Gains(old, new)
  PROVE  /\ IdsIn(old) \subseteq IdsIn(new)
         /\ Succeeded(old) \subseteq Succeeded(new)
         /\ ReferencesApart(old) => ReferencesApart(new)
<1>1. CASE Keeps(old, new)
  <2>1. IdsIn(old) \subseteq IdsIn(new)
    BY <1>1 DEF Keeps, IdsIn
  <2>2. Succeeded(old) \subseteq Succeeded(new)
    <3> SUFFICES ASSUME NEW k \in DOMAIN old, old[k].status \in {"refund-success", "success"}
                 PROVE  old[k].id \in Succeeded(new)
      BY DEF Succeeded
    <3>1. /\ k \in DOMAIN new /\ new[k].id = old[k].id
          /\ new[k].status \in {"refund-success", "success"}
      BY <1>1 DEF Keeps
    <3> QED
      BY <3>1 DEF Succeeded
  <2>3. ReferencesApart(old) => ReferencesApart(new)
    BY <1>1 DEF Keeps, ReferencesApart
  <2> QED
    BY <2>1, <2>2, <2>3
<1>2. CASE Extends(old, new)
  <2>1. PICK refund \in Refund : new = Append(old, refund) /\ ReferenceIsFree(old, refund.ref)
    BY <1>2 DEF Extends
  <2>2. /\ DOMAIN new = DOMAIN old \cup {Len(old) + 1}
        /\ new[Len(old) + 1] = refund /\ \A k \in DOMAIN old : new[k] = old[k]
    BY <2>1, ExtendsIs
  <2>3. IdsIn(old) \subseteq IdsIn(new)
    BY <2>2 DEF IdsIn
  <2>4. Succeeded(old) \subseteq Succeeded(new)
    <3> SUFFICES ASSUME NEW k \in DOMAIN old, old[k].status \in {"refund-success", "success"}
                 PROVE  old[k].id \in Succeeded(new)
      BY DEF Succeeded
    <3>1. k \in DOMAIN new /\ new[k] = old[k]
      BY <2>2
    <3> QED
      BY <3>1 DEF Succeeded
  <2>5. ReferencesApart(old) => ReferencesApart(new)
    BY <2>1, <2>2 DEF ReferenceIsFree, ReferencesApart
  <2> QED
    BY <2>3, <2>4, <2>5
<1> QED
  BY <1>1, <1>2 DEF Gains

-----------------------------------------------------------------------------
(* A step: the arrays gain, the providers' refunds keep their payments ... *)
Advances ==
  /\ \A p \in Payments : /\ Gains(refunds[p], refunds'[p])
                         /\ \A i \in IdsIn(bulk[p]) : i # 0 => i \in IdsIn(bulk'[p])
  /\ \A i \in DOMAIN made : i \in DOMAIN made' /\ made'[i].pid = made[i].pid

(* ... and the request of slot s goes on as r, unless another works, with
   what it carries recorded or carried on. *)
Goes(s, r) ==
  /\ req' = [req EXCEPT ![s] = r]
  /\ Working(r) => Working(req[s]) \/ ~Busy
  /\ UpToDate(refunds', bulk', r)
  /\ told' \subseteq told \cup req[s].done
  /\ \A i \in r.done : i \in req[s].done \/ Announced(refunds', made', i)

Carried(s, r) ==
  faults' = 0 =>
    /\ faults = 0
    /\ \A p \in Payments, i \in DOMAIN made :
         Carries(req[s], p, i) =>
           Carries(r, p, i) \/ i \in IdsIn(refunds'[p]) \cup IdsIn(bulk'[p])
    /\ \A i \in DOMAIN made' \ DOMAIN made :
         made'[i].pid \in Cards => Carries(r, made'[i].pid, i)

(* The other requests do not mind: no other works, or their copies are not of
   what changed. *)
Bystanders(s) == \A t \in Slots \ {s} : UpToDate(refunds', bulk', req[t])

LEMMA IdleUpToDate ==
  ASSUME NEW r, ~Working(r), Apart(r) PROVE \A d, b : UpToDate(d, b, r)
BY DEF Working, UpToDate, CreatesOn, Creating, UpdatesOn, PendingOn, BulkOn

LEMMA OthersStay ==
  ASSUME AloneInv, ~overlapped, NEW s \in Slots, Working(req[s]) \/ UNCHANGED <<refunds, bulk>>
  PROVE  Bystanders(s)
<1> SUFFICES ASSUME NEW t \in Slots, t # s PROVE UpToDate(refunds', bulk', req[t])
  BY DEF Bystanders
<1>1. UpToDate(refunds, bulk, req[t]) /\ OneWorking
  BY DEF AloneInv
<1>2. CASE Working(req[s])
  <2>1. ~Working(req[t]) /\ Apart(req[t])
    BY <1>1, <1>2 DEF OneWorking, UpToDate
  <2> QED
    BY <2>1, IdleUpToDate
<1>3. CASE UNCHANGED <<refunds, bulk>>
  BY <1>1, <1>3
<1> QED
  BY <1>2, <1>3

(* What consumers hear of was made of some payment. *)
LEMMA SaidIs ==
  ASSUME IInv, NEW i, i \in told \/ \E s \in Slots : i \in req[s].done
  PROVE  i \in DOMAIN made /\ made[i].pid \in Payments
<1>1. i \in FinalIn(made)
  BY DEF IInv, CopiesTrue, RequestTrue
<1>2. i \in DOMAIN made /\ made[i] \in RefundMade
  BY <1>1 DEF FinalIn, IInv, TypeOK
<1> QED
  BY <1>2 DEF RefundMade

LEMMA StaysAnnounced ==
  ASSUME IInv, Advances, NEW i \in DOMAIN made, made[i].pid \in Payments,
         Announced(refunds, made, i)
  PROVE  Announced(refunds', made', i)
<1>1. refunds[made[i].pid] \in Seq(Refund)
  BY DEF IInv, TypeOK
<1> QED
  BY <1>1, GainsIs DEF Advances, Announced

(* Together they keep the invariant. *)
LEMMA AloneFrom ==
  ASSUME IInv, AloneInv, ~overlapped, NEW s \in Slots, NEW r,
         Goes(s, r), Carried(s, r), Bystanders(s), Advances
  PROVE  AloneInv'
<1>1. /\ req' = [req EXCEPT ![s] = r] /\ req \in [Slots -> Request]
      /\ \A t \in Slots : req'[t] = IF t = s THEN r ELSE req[t]
  BY DEF Goes, IInv, TypeOK
<1>2. OneWorking'
  <2>1. OneWorking /\ (Working(r) => Working(req[s]) \/ ~Busy)
    BY DEF AloneInv, Goes
  <2>2. \A t \in Slots : Working(req[t]) => Busy
    BY DEF Working, Busy
  <2> QED
    BY <1>1, <2>1, <2>2 DEF OneWorking
<1>3. \A t \in Slots : UpToDate(refunds', bulk', req'[t])
  BY <1>1 DEF Goes, Bystanders
<1>4. ASSUME NEW p \in Payments PROVE ReferencesApart(refunds'[p])
  <2>1. refunds[p] \in Seq(Refund) /\ ReferencesApart(refunds[p]) /\ Gains(refunds[p], refunds'[p])
    BY DEF IInv, TypeOK, AloneInv, Advances
  <2> QED
    BY <2>1, GainsIs
<1>5. ASSUME NEW i \in told' \cup UNION {req'[t].done : t \in Slots}
      PROVE  Announced(refunds', made', i)
  <2>1. CASE i \in told \/ \E t \in Slots : i \in req[t].done
    <3>1. Announced(refunds, made, i)
      BY <2>1 DEF AloneInv
    <3> QED
      BY <2>1, <3>1, SaidIs, StaysAnnounced
  <2>2. CASE ~(i \in told \/ \E t \in Slots : i \in req[t].done)
    <3>1. i \in r.done /\ i \notin req[s].done
      BY <1>1, <2>2 DEF Goes
    <3> QED
      BY <3>1 DEF Goes
  <2> QED
    BY <2>1, <2>2
<1>6. ASSUME faults' = 0, NEW i \in DOMAIN made', made'[i].pid \in Cards
      PROVE  Recorded(refunds', bulk', req', made'[i].pid, i)
  <2>1. CASE i \notin DOMAIN made
    <3>1. Carries(r, made'[i].pid, i)
      BY <1>6, <2>1 DEF Carried
    <3> QED
      BY <1>1, <3>1 DEF Recorded
  <2>2. CASE i \in DOMAIN made
    <3>1. /\ made'[i].pid = made[i].pid /\ made[i].pid \in Cards /\ faults = 0
      BY <1>6, <2>2 DEF Advances, Carried
    <3>2. PICK p \in Payments : p = made[i].pid
      BY <3>1, RefundAssumption
    <3>3. i # 0
      BY <2>2 DEF IInv, TypeOK
    <3>4. refunds[p] \in Seq(Refund) /\ Gains(refunds[p], refunds'[p])
      BY DEF IInv, TypeOK, Advances
    <3>5. IdsIn(refunds[p]) \subseteq IdsIn(refunds'[p])
      BY <3>4, GainsIs
    <3>6. CASE i \in IdsIn(refunds[p]) \cup IdsIn(bulk[p])
      BY <3>1, <3>2, <3>3, <3>5, <3>6 DEF Advances, Recorded
    <3>7. ASSUME NEW t \in Slots, Carries(req[t], p, i)
          PROVE  Recorded(refunds', bulk', req', p, i)
      <4>1. CASE t = s
        <5>1. Carries(r, p, i) \/ i \in IdsIn(refunds'[p]) \cup IdsIn(bulk'[p])
          BY <1>6, <2>2, <3>7, <4>1 DEF Carried
        <5> QED
          BY <1>1, <5>1 DEF Recorded
      <4>2. CASE t # s
        BY <1>1, <3>7, <4>2 DEF Recorded
      <4> QED
        BY <4>1, <4>2
    <3>8. Recorded(refunds, bulk, req, p, i)
      BY <2>2, <3>1, <3>2 DEF AloneInv
    <3> QED
      BY <3>1, <3>2, <3>6, <3>7, <3>8 DEF Recorded
  <2> QED
    BY <2>1, <2>2
<1> QED
  BY <1>2, <1>3, <1>4, <1>5, <1>6 DEF AloneInv

-----------------------------------------------------------------------------
(* Steps of a request alone. *)

LEMMA TurnAlone ==
  ASSUME IInv, AloneInv, ~overlapped, NEW s \in Slots, NEW r, req' = [req EXCEPT ![s] = r],
         UNCHANGED <<refunds, bulk, made, told>>, Working(r) => Working(req[s]) \/ ~Busy,
         UpToDate(refunds, bulk, r), r.done \subseteq req[s].done,
         faults' # 0 \/ (faults' = faults /\ req[s].pc \notin {"create-patch", "bulk-patch"})
  PROVE  AloneInv'
<1>1. Goes(s, r)
  BY DEF Goes
<1>2. Carried(s, r)
  BY DEF Carried, Carries
<1>3. Advances
  BY KeepsItself DEF Advances
<1>4. Bystanders(s)
  BY OthersStay
<1> QED
  BY <1>1, <1>2, <1>3, <1>4, AloneFrom

(* What slot s knows, and what its request is. *)
LEMMA AloneIs ==
  ASSUME IInv, AloneInv, ~overlapped, NEW s \in Slots
  PROVE  /\ UpToDate(refunds, bulk, req[s]) /\ req[s] \in Request /\ RequestOK(req[s])
         /\ OneWorking
BY RequestIs DEF IInv, AloneInv

LEMMA EndAlone ==
  ASSUME IInv, AloneInv, ~overlapped, NEW s \in Slots, req' = [req EXCEPT ![s] = Idle],
         UNCHANGED <<refunds, bulk, made, told>>,
         faults' # 0 \/ (faults' = faults /\ req[s].pc \notin {"create-patch", "bulk-patch"})
  PROVE  AloneInv'
<1>1. ~Working(Idle) /\ Apart(Idle) /\ Idle.done = {}
  BY IdleTrue DEF Working, Apart
<1>2. UpToDate(refunds, bulk, Idle)
  BY <1>1, IdleUpToDate
<1> QED
  BY <1>1, <1>2, TurnAlone

(* Requests that begin, while none works. *)
LEMMA BeginAlone ==
  ASSUME IInv, AloneInv, NEW s \in Slots, NEW op, Begin(s, op), ~overlapped',
         NEW r, req' = [req EXCEPT ![s] = r], r.done = {},
         UNCHANGED <<refunds, bulk, made, told>>, UpToDate(refunds, bulk, r)
  PROVE  AloneInv'
<1>1. ~overlapped /\ ~Busy /\ faults' = faults /\ req[s].pc = "idle"
  BY DEF Begin
<1> QED
  BY <1>1, TurnAlone

LEMMA BeginCreateRefundAlone ==
  ASSUME IInv, AloneInv, ~overlapped', NEW s \in Slots, NEW p \in Payments, NEW amount, NEW ref,
         BeginCreateRefund(s, p, amount, ref)
  PROVE  AloneInv'
<1> DEFINE r == [Idle EXCEPT !.pc = "create-session", !.sess = Session(p, <<>>, <<>>),
                             !.amount = amount, !.ref = ref]
<1>1. /\ req' = [req EXCEPT ![s] = r] /\ UNCHANGED <<refunds, bulk, made, told>>
      /\ Begin(s, "create") /\ ReferenceIsFree(refunds[p], ref)
  BY DEF BeginCreateRefund, ClientBegins
<1>2. /\ r.pc = "create-session" /\ r.sess.pid = p /\ r.ref = ref /\ r.todo = {} /\ r.done = {}
  BY DEF Idle, Session
<1> HIDE DEF r
<1>3. UpToDate(refunds, bulk, r)
  BY <1>1, <1>2 DEF UpToDate, CreatesOn, UpdatesOn, Apart, PendingOn, BulkOn
<1> QED
  BY <1>1, <1>2, <1>3, BeginAlone

LEMMA BeginUpdateRefundAlone ==
  ASSUME IInv, AloneInv, ~overlapped', NEW s \in Slots, NEW p \in Payments, NEW id,
         BeginUpdateRefund(s, p, id)
  PROVE  AloneInv'
<1> DEFINE r == [Idle EXCEPT !.pc = "update-status", !.id = id,
                             !.sess = Session(p, refunds[p], <<>>)]
<1>1. /\ req' = [req EXCEPT ![s] = r] /\ UNCHANGED <<refunds, bulk, made, told>>
      /\ Begin(s, "update")
  BY DEF BeginUpdateRefund, ClientBegins
<1>2. /\ r.pc = "update-status" /\ r.sess.pid = p /\ r.sess.list = refunds[p]
      /\ r.todo = {} /\ r.done = {}
  BY DEF Idle, Session
<1> HIDE DEF r
<1>3. UpToDate(refunds, bulk, r)
  BY <1>2 DEF UpToDate, CreatesOn, Creating, UpdatesOn, Apart, PendingOn, BulkOn
<1> QED
  BY <1>1, <1>2, <1>3, BeginAlone

(* An upload works on no copy. *)
LEMMA handleRefundFileAlone ==
  ASSUME IInv, AloneInv, ~overlapped', NEW s \in Slots, NEW by, NEW file,
         handleRefundFile(s, by, file)
  PROVE  AloneInv'
<1> DEFINE r == [Idle EXCEPT !.pc = "upload", !.file = file]
<1>1. /\ req' = [req EXCEPT ![s] = r] /\ UNCHANGED <<refunds, bulk, made, told, faults>>
      /\ req[s].pc = "idle" /\ ~overlapped
  BY DEF handleRefundFile
<1>2. r.pc = "upload" /\ r.todo = {} /\ r.done = {}
  BY DEF Idle
<1> HIDE DEF r
<1>3. ~Working(r) /\ Apart(r)
  BY <1>2 DEF Working, Apart
<1>4. UpToDate(refunds, bulk, r)
  BY <1>3, IdleUpToDate
<1> QED
  BY <1>1, <1>2, <1>3, <1>4, TurnAlone

(* The jobs read all their sessions at once. *)
LEMMA BeginProcessPendingAlone ==
  ASSUME IInv, AloneInv, ~overlapped', NEW s \in Slots, BeginProcessPending(s)
  PROVE  AloneInv'
<1>1. PICK b \in Batch(RequestedSessions) :
        req' = [req EXCEPT ![s] = [Idle EXCEPT
                  !.pc = "pending-next", !.todo = {Session(p, refunds[p], <<>>) : p \in b}]]
  BY DEF BeginProcessPending
<1> DEFINE todo == {Session(p, refunds[p], <<>>) : p \in b}
           r == [Idle EXCEPT !.pc = "pending-next", !.todo = todo]
<1>2. Begin(s, "pending") /\ UNCHANGED <<refunds, bulk, made, told>> /\ b \subseteq RequestedSessions
  BY DEF BeginProcessPending, SchedulerBegins, Batch
<1>3. \A x \in todo : StillRequested(refunds, x)
  BY <1>2 DEF StillRequested, RequestedSessions, Session
<1>4. \A x, y \in todo : x.pid = y.pid => x = y
  BY DEF Session
<1> HIDE DEF todo
<1>5. r.pc = "pending-next" /\ r.todo = todo /\ r.done = {}
  BY DEF Idle
<1> HIDE DEF r
<1>6. UpToDate(refunds, bulk, r)
  BY <1>3, <1>4, <1>5 DEF UpToDate, CreatesOn, Creating, UpdatesOn, Apart, PendingOn, BulkOn
<1>7. req' = [req EXCEPT ![s] = r]
  BY <1>1 DEF r, todo
<1> QED
  BY <1>2, <1>5, <1>6, <1>7, BeginAlone

(* A session has one bulk refund at most, so that no other than a pending one
   is on those of the bulk job. *)
LEMMA BeginProcessBatchAlone ==
  ASSUME IInv, AloneInv, ~overlapped', NEW s \in Slots, BeginProcessBatch(s)
  PROVE  AloneInv'
<1> DEFINE todo == {Session(p, refunds[p], bulk[p]) : p \in PendingSessions}
           r == [Idle EXCEPT !.pc = "bulk-next", !.todo = todo]
<1>1. /\ Begin(s, "bulk") /\ UNCHANGED <<refunds, bulk, made, told>>
      /\ req' = [req EXCEPT ![s] = r]
  BY DEF BeginProcessBatch, SchedulerBegins
<1>2. ASSUME NEW p \in PendingSessions, NEW k \in DOMAIN bulk[p]
      PROVE  bulk[p][k].status = "refund-pending"
  <2>1. p \in Payments /\ bulk[p] \in Seq(BulkRefund) /\ Len(bulk[p]) <= 1
    BY DEF PendingSessions, IInv, TypeOK, CopiesTrue, BulkTrue
  <2>2. PICK j \in DOMAIN bulk[p] : bulk[p][j].status = "refund-pending"
    BY DEF PendingSessions, HasStatus
  <2>3. j = k
    BY <2>1
  <2> QED
    BY <2>2, <2>3
<1>3. \A x \in todo : StillPending(refunds, bulk, x)
  BY <1>2 DEF StillPending, Session
<1>4. \A x, y \in todo : x.pid = y.pid => x = y
  BY DEF Session
<1> HIDE DEF todo
<1>5. r.pc = "bulk-next" /\ r.todo = todo /\ r.done = {}
  BY DEF Idle
<1> HIDE DEF r
<1>6. UpToDate(refunds, bulk, r)
  BY <1>3, <1>4, <1>5 DEF UpToDate, CreatesOn, Creating, UpdatesOn, Apart, PendingOn, BulkOn
<1> QED
  BY <1>1, <1>5, <1>6, BeginAlone

-----------------------------------------------------------------------------
(* Steps of a request that works, none of which writes an array. *)

LEMMA StepAlone ==
  ASSUME IInv, AloneInv, ~overlapped, NEW s \in Slots,
         Working(req[s]), req[s].pc \notin {"create-patch", "bulk-patch"},
         NEW r, req' = [req EXCEPT ![s] = r], r.done \subseteq req[s].done,
         UNCHANGED <<refunds, bulk, made, told, faults>>, UpToDate(refunds, bulk, r)
  PROVE  AloneInv'
BY TurnAlone

(* The reference that was free when the request came is free in the copy. *)
LEMMA ReadSessionAlone ==
  ASSUME IInv, AloneInv, ~overlapped', NEW s \in Slots, ReadSession(s)
  PROVE  AloneInv'
<1> DEFINE p == req[s].sess.pid
           r == [req[s] EXCEPT !.pc = "create-summary", !.sess = Session(p, refunds[p], <<>>)]
<1>1. /\ req[s].pc = "create-session" /\ ~overlapped
      /\ UNCHANGED <<refunds, bulk, made, told, faults>>
  BY DEF ReadSession, outside
<1>2. /\ UpToDate(refunds, bulk, req[s]) /\ req[s] \in Request
  BY <1>1, AloneIs
<1>3. req' = [req EXCEPT ![s] = r]
  BY <1>2 DEF ReadSession, Request, IInv, TypeOK
<1>4. /\ r.pc = "create-summary" /\ r.sess.pid = p /\ r.sess.list = refunds[p]
      /\ r.ref = req[s].ref /\ r.todo = req[s].todo /\ r.done = req[s].done
  BY <1>2 DEF Request, Session
<1> HIDE DEF r
<1>5. UpToDate(refunds, bulk, r)
  BY <1>1, <1>2, <1>4
     DEF UpToDate, CreatesOn, Creating, UpdatesOn, Apart, PendingOn, BulkOn
<1> QED
  BY <1>1, <1>3, <1>4, <1>5, StepAlone DEF Working

LEMMA GetRefundSummaryAlone ==
  ASSUME IInv, AloneInv, ~overlapped', NEW s \in Slots, GetRefundSummary(s)
  PROVE  AloneInv'
<1> DEFINE available == left[req[s].sess.pid]
           r == [req[s] EXCEPT !.pc = "create-refund", !.avail = available]
<1>1. /\ req[s].pc = "create-summary" /\ ~overlapped
      /\ UNCHANGED <<refunds, bulk, made, told, faults>>
      /\ req' = [req EXCEPT ![s] = r] \/ req' = [req EXCEPT ![s] = Idle]
  BY DEF GetRefundSummary, outside
<1>2. /\ UpToDate(refunds, bulk, req[s]) /\ req[s] \in Request
  BY <1>1, AloneIs
<1>3. /\ r.pc = "create-refund" /\ r.sess = req[s].sess /\ r.ref = req[s].ref
      /\ r.todo = req[s].todo /\ r.done = req[s].done
  BY <1>2 DEF Request
<1> HIDE DEF r
<1>4. UpToDate(refunds, bulk, r)
  BY <1>1, <1>2, <1>3
     DEF UpToDate, CreatesOn, Creating, UpdatesOn, Apart, PendingOn, BulkOn
<1>5. CASE req' = [req EXCEPT ![s] = r]
  BY <1>1, <1>3, <1>4, <1>5, StepAlone DEF Working
<1>6. CASE req' = [req EXCEPT ![s] = Idle]
  BY <1>1, <1>6, EndAlone
<1> QED
  BY <1>1, <1>5, <1>6

(* GOV.UK Pay's word for one refund takes back no success: what is stored as
   one, or as a failure, is the end of that refund there. *)
LEMMA WithStatusKeeps ==
  ASSUME NEW m \in Seq(RefundMade), NEW listed \in SUBSET DOMAIN m, NEW list \in Seq(Refund), NEW p,
         ListTrue(m, listed, list, p), NEW id
  PROVE  Keeps(list, WithStatus(list, id, m[id].state))
<1> DEFINE f == WithStatus(list, id, m[id].state)
<1>1. ASSUME NEW k \in DOMAIN list
      PROVE  /\ f[k].id = list[k].id /\ f[k].ref = list[k].ref
             /\ f[k].status = IF list[k].id = id THEN m[id].state ELSE list[k].status
  <2>1. list[k] \in Refund
    OBVIOUS
  <2>2. f[k] = IF list[k].id = id THEN [list[k] EXCEPT !.status = m[id].state] ELSE list[k]
    BY DEF WithStatus
  <2> HIDE DEF f
  <2> QED
    BY <2>1, <2>2 DEF Refund
<1>2. DOMAIN f = DOMAIN list
  BY DEF WithStatus
<1> HIDE DEF f
<1>3. Keeps(list, f)
  BY <1>1, <1>2 DEF Keeps, ListTrue, StatusTrue
<1> QED
  BY <1>3 DEF f

LEMMA GetRefundStatusAlone ==
  ASSUME IInv, AloneInv, ~overlapped', NEW s \in Slots, GetRefundStatus(s)
  PROVE  AloneInv'
<1> DEFINE p == req[s].sess.pid
           id == req[s].id
           list == WithStatus(req[s].sess.list, id, made[id].state)
           r == [req[s] EXCEPT !.pc = "update-patch", !.sess.list = list]
<1>1. /\ req[s].pc = "update-status" /\ ~overlapped
      /\ UNCHANGED <<refunds, bulk, made, told, faults>>
  BY DEF GetRefundStatus, outside
<1>2. /\ UpToDate(refunds, bulk, req[s]) /\ req[s] \in Request /\ RequestOK(req[s])
  BY <1>1, AloneIs
<1>3. req' = [req EXCEPT ![s] = r]
  BY <1>2 DEF GetRefundStatus, Request, IInv, TypeOK
<1>4. p \in Payments /\ req[s].sess.list = refunds[p] /\ req[s].sess \in Sessions
  BY <1>1, <1>2 DEF RequestOK, UpToDate, UpdatesOn, Request
<1>5. Keeps(refunds[p], list)
  <2>1. PICK listed \in SUBSET DOMAIN made : ListTrue(made, listed, refunds[p], p)
    BY <1>4 DEF IInv, CopiesTrue
  <2>2. made \in Seq(RefundMade) /\ refunds[p] \in Seq(Refund)
    BY <1>4 DEF IInv, TypeOK
  <2> QED
    BY <1>4, <2>1, <2>2, WithStatusKeeps
<1> HIDE DEF list
<1>6. /\ r.pc = "update-patch" /\ r.sess.list = list /\ r.sess.pid = p
      /\ r.todo = req[s].todo /\ r.done = req[s].done
  BY <1>2, <1>4 DEF Request, Sessions
<1> HIDE DEF r
<1>7. UpToDate(refunds, bulk, r)
  BY <1>1, <1>2, <1>5, <1>6
     DEF UpToDate, CreatesOn, Creating, UpdatesOn, Apart, PendingOn, BulkOn
<1> QED
  BY <1>1, <1>3, <1>6, <1>7, StepAlone DEF Working

(* The jobs, from one session to the next. *)
LEMMA GetPendingStatusAlone ==
  ASSUME IInv, AloneInv, ~overlapped', NEW s \in Slots, GetPendingStatus(s)
  PROVE  AloneInv'
<1>1. /\ req[s].pc = "pending-next" /\ ~overlapped
      /\ UNCHANGED <<refunds, bulk, made, told, faults>>
  BY DEF GetPendingStatus, outside
<1>2. /\ UpToDate(refunds, bulk, req[s]) /\ req[s] \in Request
  BY <1>1, AloneIs
<1>3. PICK x \in req[s].todo :
        req' = [req EXCEPT ![s].pc = "pending-patch", ![s].sess = x, ![s].todo = @ \ {x},
                           ![s].good = made[FirstId(x.list)].state = "success"]
  BY DEF GetPendingStatus
<1> DEFINE r == [req[s] EXCEPT !.pc = "pending-patch", !.sess = x, !.todo = @ \ {x},
                               !.good = made[FirstId(x.list)].state = "success"]
<1>4. req' = [req EXCEPT ![s] = r]
  BY <1>2, <1>3 DEF Request, IInv, TypeOK
<1>5. /\ r.pc = "pending-patch" /\ r.sess = x /\ r.todo = req[s].todo \ {x}
      /\ r.done = req[s].done
  BY <1>2 DEF Request
<1> HIDE DEF r
<1>6. UpToDate(refunds, bulk, r)
  BY <1>1, <1>2, <1>5
     DEF UpToDate, CreatesOn, Creating, UpdatesOn, Apart, PendingOn, BulkOn
<1> QED
  BY <1>1, <1>4, <1>5, <1>6, StepAlone DEF Working

LEMMA OnwardUpToDate ==
  ASSUME NEW r \in Request, NEW d, NEW b,
         \A x \in r.todo : StillRequested(d, x), \A x, y \in r.todo : x.pid = y.pid => x = y
  PROVE  UpToDate(d, b, Onward(r)) /\ Onward(r).done \subseteq r.done
<1> DEFINE next == Onward(r)
<1>1. /\ next.pc \in {"idle", "pending-next", "pending-tell"}
      /\ next.todo \subseteq r.todo /\ next.done \subseteq r.done
  BY IdleTrue DEF Onward, Request
<1> HIDE DEF next
<1>2. UpToDate(d, b, next)
  BY <1>1 DEF UpToDate, CreatesOn, Creating, UpdatesOn, Apart, PendingOn, BulkOn
<1> QED
  BY <1>1, <1>2 DEF next

LEMMA NextBulkUpToDate ==
  ASSUME NEW r \in Request, NEW d, NEW b,
         \A x \in r.todo : StillPending(d, b, x), \A x, y \in r.todo : x.pid = y.pid => x = y
  PROVE  UpToDate(d, b, NextBulk(r)) /\ NextBulk(r).done = {}
<1> DEFINE next == NextBulk(r)
<1>1. /\ next.pc \in {"idle", "bulk-next"} /\ next.todo \subseteq r.todo /\ next.done = {}
  BY IdleTrue DEF NextBulk, Request
<1> HIDE DEF next
<1>2. UpToDate(d, b, next)
  BY <1>1 DEF UpToDate, CreatesOn, Creating, UpdatesOn, Apart, PendingOn, BulkOn
<1> QED
  BY <1>1, <1>2 DEF next

(* Faults: nothing is claimed any more of what is recorded. *)
LEMMA FaultCounts ==
  ASSUME IInv, faults' = faults + 1 PROVE faults' # 0
<1>1. faults \in 0 .. MaxFaults /\ MaxFaults \in Nat
  BY RefundAssumption DEF IInv, TypeOK
<1> QED
  BY <1>1

LEMMA PassOverAlone ==
  ASSUME IInv, AloneInv, ~overlapped', NEW s \in Slots, PassOver(s)
  PROVE  AloneInv'
<1>1. /\ req[s].pc \in {"pending-next", "pending-tell"} /\ ~overlapped
      /\ UNCHANGED <<refunds, bulk, made, told>> /\ faults' = faults + 1
  BY DEF PassOver
<1>2. /\ UpToDate(refunds, bulk, req[s]) /\ req[s] \in Request
  BY <1>1, AloneIs
<1>3. ASSUME NEW r \in Request, r.todo \subseteq req[s].todo, r.done \subseteq req[s].done,
             req' = [req EXCEPT ![s] = Onward(r)]
      PROVE  AloneInv'
  <2>1. /\ \A x \in r.todo : StillRequested(refunds, x)
        /\ \A x, y \in r.todo : x.pid = y.pid => x = y
    BY <1>1, <1>2, <1>3 DEF UpToDate, PendingOn, Apart
  <2>2. UpToDate(refunds, bulk, Onward(r)) /\ Onward(r).done \subseteq r.done
    BY <2>1, OnwardUpToDate
  <2>3. faults' # 0 /\ Working(req[s])
    BY <1>1, FaultCounts DEF Working
  <2> QED
    BY <1>1, <1>3, <2>2, <2>3, TurnAlone
<1>4. ASSUME NEW x PROVE /\ [req[s] EXCEPT !.todo = @ \ {x}] \in Request
                         /\ [req[s] EXCEPT !.todo = @ \ {x}].todo \subseteq req[s].todo
                         /\ [req[s] EXCEPT !.todo = @ \ {x}].done \subseteq req[s].done
                         /\ [req[s] EXCEPT !.done = @ \ {x}] \in Request
                         /\ [req[s] EXCEPT !.done = @ \ {x}].todo \subseteq req[s].todo
                         /\ [req[s] EXCEPT !.done = @ \ {x}].done \subseteq req[s].done
  BY <1>2 DEF Request
<1> QED
  BY <1>3, <1>4 DEF PassOver

LEMMA RequestDiesAlone ==
  ASSUME IInv, AloneInv, ~overlapped', NEW s \in Slots, RequestDies(s)
  PROVE  AloneInv'
<1>1. /\ ~overlapped /\ req' = [req EXCEPT ![s] = Idle]
      /\ UNCHANGED <<refunds, bulk, made, told>> /\ faults' # 0
  BY FaultCounts DEF RequestDies
<1> QED
  BY <1>1, EndAlone

(* What is left of the list of the bulk job is as up to date as before. *)
LEMMA NextBulkOn ==
  ASSUME IInv, AloneInv, ~overlapped, NEW s \in Slots,
         req[s].pc \in {"bulk-next", "bulk-refund", "bulk-patch"},
         NEW r \in Request, r.todo \subseteq req[s].todo
  PROVE  UpToDate(refunds, bulk, NextBulk(r)) /\ NextBulk(r).done = {}
<1>1. /\ \A x \in r.todo : StillPending(refunds, bulk, x)
      /\ \A x, y \in r.todo : x.pid = y.pid => x = y
  BY AloneIs DEF UpToDate, BulkOn, Apart
<1> QED
  BY <1>1, NextBulkUpToDate

LEMMA BulkFailsAlone ==
  ASSUME IInv, AloneInv, ~overlapped', NEW s \in Slots, BulkFails(s)
  PROVE  AloneInv'
<1>1. /\ req[s].pc \in {"bulk-next", "bulk-refund", "bulk-patch"} /\ ~overlapped
      /\ UNCHANGED <<refunds, bulk, made, told>> /\ faults' = faults + 1
  BY DEF BulkFails
<1>2. req[s] \in Request
  BY <1>1, AloneIs
<1>3. PICK r \in Request : r.todo \subseteq req[s].todo /\ req' = [req EXCEPT ![s] = NextBulk(r)]
  <2>1. CASE req' = [req EXCEPT ![s] = NextBulk(@)]
    BY <1>2, <2>1 DEF IInv, TypeOK
  <2>2. ASSUME NEW x, req' = [req EXCEPT ![s] = NextBulk([req[s] EXCEPT !.todo = @ \ {x}])]
        PROVE  \E r \in Request : r.todo \subseteq req[s].todo
                                  /\ req' = [req EXCEPT ![s] = NextBulk(r)]
    <3>1. /\ [req[s] EXCEPT !.todo = @ \ {x}] \in Request
          /\ [req[s] EXCEPT !.todo = @ \ {x}].todo \subseteq req[s].todo
      BY <1>2 DEF Request
    <3> QED
      BY <2>2, <3>1
  <2> QED
    BY <2>1, <2>2 DEF BulkFails
<1>4. UpToDate(refunds, bulk, NextBulk(r)) /\ NextBulk(r).done = {}
  BY <1>1, <1>3, NextBulkOn
<1>5. faults' # 0 /\ Working(req[s])
  BY <1>1, FaultCounts DEF Working
<1> QED
  BY <1>1, <1>3, <1>4, <1>5, TurnAlone

LEMMA CheckAvailableAlone ==
  ASSUME IInv, AloneInv, ~overlapped', NEW s \in Slots, CheckAvailable(s)
  PROVE  AloneInv'
<1>1. /\ req[s].pc = "bulk-next" /\ ~overlapped
      /\ UNCHANGED <<refunds, bulk, made, told, faults>>
  BY DEF CheckAvailable, outside
<1>2. /\ UpToDate(refunds, bulk, req[s]) /\ req[s] \in Request
  BY <1>1, AloneIs
<1>3. PICK x \in req[s].todo :
        LET rest == [req[s] EXCEPT !.todo = @ \ {x}] IN
        \/ req' = [req EXCEPT ![s] = [rest EXCEPT !.pc = "bulk-refund", !.sess = x]]
        \/ req' = [req EXCEPT ![s] = NextBulk(rest)]
  BY DEF CheckAvailable
<1> DEFINE rest == [req[s] EXCEPT !.todo = @ \ {x}]
           r == [rest EXCEPT !.pc = "bulk-refund", !.sess = x]
<1>4. /\ rest \in Request /\ rest.todo = req[s].todo \ {x}
      /\ r.pc = "bulk-refund" /\ r.sess = x /\ r.todo = req[s].todo \ {x} /\ r.done = req[s].done
  BY <1>2 DEF Request
<1>5. req' = [req EXCEPT ![s] = r] \/ req' = [req EXCEPT ![s] = NextBulk(rest)]
  BY <1>3
<1> HIDE DEF r, rest
<1>6. UpToDate(refunds, bulk, r)
  BY <1>1, <1>2, <1>4
     DEF UpToDate, CreatesOn, Creating, UpdatesOn, Apart, PendingOn, BulkOn
<1>7. UpToDate(refunds, bulk, NextBulk(rest)) /\ NextBulk(rest).done = {}
  BY <1>1, <1>4, NextBulkOn
<1>8. Working(req[s])
  BY <1>1 DEF Working
<1>9. CASE req' = [req EXCEPT ![s] = r]
  BY <1>1, <1>4, <1>6, <1>8, <1>9, StepAlone
<1>10. CASE req' = [req EXCEPT ![s] = NextBulk(rest)]
  BY <1>1, <1>7, <1>8, <1>10, StepAlone
<1> QED
  BY <1>5, <1>9, <1>10

(* A message is of a refund that the session goes on calling a success. *)
LEMMA SendRefundMessageAlone ==
  ASSUME IInv, AloneInv, ~overlapped', NEW s \in Slots, SendRefundMessage(s)
  PROVE  AloneInv'
<1>1. /\ req[s].pc = "pending-tell" /\ ~overlapped /\ UNCHANGED <<refunds, bulk, made, faults>>
  BY DEF SendRefundMessage, outside
<1>2. /\ UpToDate(refunds, bulk, req[s]) /\ req[s] \in Request
  BY <1>1, AloneIs
<1>3. PICK i \in req[s].done :
        /\ told' = told \cup {i}
        /\ req' = [req EXCEPT ![s] = Onward([req[s] EXCEPT !.done = @ \ {i}])]
  BY DEF SendRefundMessage
<1> DEFINE r == [req[s] EXCEPT !.done = @ \ {i}]
<1>4. /\ r \in Request /\ r.todo = req[s].todo /\ r.done \subseteq req[s].done
      /\ req' = [req EXCEPT ![s] = Onward(r)]
  BY <1>2, <1>3 DEF Request
<1> HIDE DEF r
<1>5. UpToDate(refunds, bulk, Onward(r)) /\ Onward(r).done \subseteq r.done
  <2>1. /\ \A x \in r.todo : StillRequested(refunds, x)
        /\ \A x, y \in r.todo : x.pid = y.pid => x = y
    BY <1>1, <1>2, <1>4 DEF UpToDate, PendingOn, Apart
  <2> QED
    BY <1>4, <2>1, OnwardUpToDate
<1>6. Goes(s, Onward(r))
  BY <1>1, <1>3, <1>4, <1>5 DEF Goes, Working
<1>7. Carried(s, Onward(r)) /\ Advances /\ Bystanders(s)
  BY <1>1, KeepsItself, OthersStay DEF Carried, Carries, Advances
<1> QED
  BY <1>1, <1>6, <1>7, AloneFrom

-----------------------------------------------------------------------------
(* Steps that have a refund made: the request carries it from then on. *)

LEMMA MadeIs ==
  ASSUME IInv, NEW p, NEW amount, NEW state, MakeRefund(p, amount, state)
  PROVE  /\ NewId \in Ids /\ DOMAIN made' = DOMAIN made \cup {NewId}
         /\ made'[NewId].pid = p /\ \A j \in DOMAIN made : made'[j] = made[j]
<1> DEFINE new == [pid |-> p, amount |-> amount, state |-> state]
<1>1. made' = Append(made, new) /\ Len(made) < MaxRefunds /\ MaxRefunds \in Nat
  BY RefundAssumption DEF MakeRefund
<1>2. new.pid = p
  OBVIOUS
<1> HIDE DEF new
<1>3. made \in Seq(RefundMade \cup {new})
  BY DEF IInv, TypeOK
<1>4. /\ DOMAIN made' = DOMAIN made \cup {Len(made) + 1} /\ made'[Len(made) + 1] = new
      /\ \A j \in DOMAIN made : made'[j] = made[j]
      /\ Len(made) + 1 \in 1 .. MaxRefunds
  BY <1>1, <1>3
<1> QED
  BY <1>2, <1>4 DEF NewId, Ids

LEMMA MakesAlone ==
  ASSUME IInv, AloneInv, ~overlapped, NEW s \in Slots, NEW p, NEW amount, NEW state,
         MakeRefund(p, amount, state), UNCHANGED <<refunds, bulk, told, faults>>,
         Working(req[s]), req[s].pc \notin {"create-patch", "bulk-patch"},
         NEW r, req' = [req EXCEPT ![s] = r], r.done \subseteq req[s].done,
         UpToDate(refunds, bulk, r), p \in Cards => Carries(r, p, NewId)
  PROVE  AloneInv'
<1>1. /\ DOMAIN made' = DOMAIN made \cup {NewId} /\ made'[NewId].pid = p
      /\ \A j \in DOMAIN made : made'[j] = made[j]
  BY MadeIs
<1>2. Goes(s, r)
  BY DEF Goes
<1>3. Carried(s, r)
  BY <1>1 DEF Carried, Carries
<1>4. Advances
  BY <1>1, KeepsItself DEF Advances
<1>5. Bystanders(s)
  BY OthersStay
<1> QED
  BY <1>2, <1>3, <1>4, <1>5, AloneFrom

LEMMA CreateRefundAlone ==
  ASSUME IInv, AloneInv, ~overlapped', NEW s \in Slots, CreateRefund(s)
  PROVE  AloneInv'
<1> DEFINE p == req[s].sess.pid
           state == IF Sandbox THEN "success" ELSE "submitted"
           new == [id |-> NewId, ref |-> req[s].ref, status |-> MapStatus("submitted")]
           r == [req[s] EXCEPT !.pc = "create-patch", !.sess.list = Append(@, new)]
<1>1. /\ req[s].pc = "create-refund" /\ ~overlapped /\ UNCHANGED <<refunds, bulk, told, faults>>
  BY DEF CreateRefund, outside
<1>2. /\ UpToDate(refunds, bulk, req[s]) /\ req[s] \in Request /\ RequestOK(req[s])
  BY <1>1, AloneIs
<1>3. CASE req' = [req EXCEPT ![s] = Idle] /\ UNCHANGED <<made, left>>
  BY <1>1, <1>3, EndAlone
<1>4. ASSUME MakeRefund(p, req[s].amount, state),
             req' = [req EXCEPT ![s].pc = "create-patch", ![s].sess.list = Append(@, new)]
      PROVE  AloneInv'
  <2>1. req' = [req EXCEPT ![s] = r]
    BY <1>2, <1>4 DEF Request, IInv, TypeOK
  <2>2. p \in Payments /\ refunds[p] \in Seq(Refund) /\ req[s].sess \in Sessions
    BY <1>1, <1>2 DEF RequestOK, Request, IInv, TypeOK
  <2>3. req[s].sess.list = refunds[p] /\ ReferenceIsFree(refunds[p], req[s].ref)
    BY <1>1, <1>2 DEF UpToDate, CreatesOn, Creating
  <2>4. new \in Refund /\ new.ref = req[s].ref /\ new.id = NewId
    <3>1. NewId \in Ids
      BY <1>4, MadeIs
    <3>2. req[s].ref \in References \cup {NoReference}
      BY <1>2 DEF Request
    <3>3. req[s].ref \in References
      <4>1. CreatingTrue(req[s])
        BY DEF IInv, CopiesTrue, RequestTrue
      <4> QED
        BY <1>1, <4>1 DEF CreatingTrue, Creating
    <3> QED
      BY <3>1, <3>3 DEF Refund, MapStatus, InternalStatuses
  <2> HIDE DEF new
  <2>5. /\ r.pc = "create-patch" /\ r.sess.pid = p /\ r.sess.list = Append(refunds[p], new)
        /\ r.todo = req[s].todo /\ r.done = req[s].done
    BY <1>2, <2>2, <2>3 DEF Request, Sessions
  <2> HIDE DEF r
  <2>6. Extends(refunds[p], r.sess.list)
    BY <2>3, <2>4, <2>5 DEF Extends
  <2>7. UpToDate(refunds, bulk, r)
    BY <1>1, <1>2, <2>5, <2>6
       DEF UpToDate, CreatesOn, Creating, UpdatesOn, Apart, PendingOn, BulkOn
  <2>8. Carries(r, p, NewId)
    <3>1. /\ DOMAIN r.sess.list = DOMAIN refunds[p] \cup {Len(refunds[p]) + 1}
          /\ r.sess.list[Len(refunds[p]) + 1] = new
      BY <2>2, <2>4, <2>5, ExtendsIs
    <3> QED
      BY <2>4, <2>5, <3>1 DEF Carries, IdsIn
  <2>9. Working(req[s])
    BY <1>1 DEF Working
  <2> HIDE DEF p, state
  <2> QED
    BY <1>1, <1>4, <2>1, <2>5, <2>7, <2>8, <2>9, MakesAlone
<1> QED
  BY <1>3, <1>4 DEF CreateRefund

(* The bulk job: its copy names the refund then. *)
LEMMA MadeAlone ==
  ASSUME IInv, AloneInv, ~overlapped, NEW s \in Slots, req[s].pc = "bulk-refund",
         NEW p, p = req[s].sess.pid, NEW due, NEW state, Made(s, p, due, state),
         UNCHANGED <<refunds, bulk, told, faults>>
  PROVE  AloneInv'
<1> DEFINE entries == Requested(req[s].sess.bulk, NewId)
           r == [req[s] EXCEPT !.pc = "bulk-patch", !.sess.bulk = entries]
<1>1. /\ UpToDate(refunds, bulk, req[s]) /\ req[s] \in Request /\ req[s].sess \in Sessions
  BY AloneIs DEF Request
<1>2. MakeRefund(p, due, state) /\ req' = [req EXCEPT ![s] = r]
  BY <1>1 DEF Made, Request, IInv, TypeOK
<1>3. NewId \in IdsIn(entries)
  <2>1. PICK listed : RequestTrue(made, listed, refunds, bulk, req[s])
    BY DEF IInv, CopiesTrue
  <2>2. /\ req[s].sess.bulk \in Seq(BulkRefund) /\ Len(req[s].sess.bulk) <= 1
        /\ req[s].sess.bulk # <<>>
    BY <1>1, <2>1 DEF Sessions, RequestTrue, CopyTrue, BulkTrue, BulkingTrue, Waiting
  <2>3. NewId \in Ids
    BY <1>2, MadeIs
  <2>4. DOMAIN entries = 1 .. 1 /\ entries[1].id = NewId
    BY <2>2, <2>3, RequestedIs
  <2> HIDE DEF entries
  <2> QED
    BY <2>4 DEF IdsIn
<1> HIDE DEF entries
<1>4. /\ r.pc = "bulk-patch" /\ r.sess.pid = p /\ r.sess.list = req[s].sess.list
      /\ r.sess.bulk = entries /\ r.todo = req[s].todo /\ r.done = req[s].done
  BY <1>1 DEF Request, Sessions
<1> HIDE DEF r
<1>5. UpToDate(refunds, bulk, r)
  BY <1>1, <1>4
     DEF UpToDate, CreatesOn, Creating, UpdatesOn, Apart, PendingOn, BulkOn, StillPending
<1>6. Carries(r, p, NewId)
  BY <1>3, <1>4 DEF Carries
<1>7. Working(req[s])
  BY DEF Working
<1> QED
  BY <1>2, <1>4, <1>5, <1>6, <1>7, MakesAlone

LEMMA RefusedAlone ==
  ASSUME IInv, AloneInv, ~overlapped, NEW s \in Slots, req[s].pc = "bulk-refund",
         NEW p, NEW due, Refused(s, p, due), UNCHANGED <<refunds, bulk, told, faults>>
  PROVE  AloneInv'
<1>1. req[s] \in Request
  BY AloneIs
<1>2. req' = [req EXCEPT ![s] = NextBulk(req[s])] /\ UNCHANGED made
  BY DEF Refused, IInv, TypeOK
<1>3. UpToDate(refunds, bulk, NextBulk(req[s])) /\ NextBulk(req[s]).done = {}
  BY <1>1, NextBulkOn
<1> QED
  BY <1>2, <1>3, StepAlone DEF Working

LEMMA CreateWholeRefundAlone ==
  ASSUME IInv, AloneInv, ~overlapped', NEW s \in Slots, CreateWholeRefund(s)
  PROVE  AloneInv'
<1>1. /\ req[s].pc = "bulk-refund" /\ ~overlapped /\ UNCHANGED <<refunds, bulk, told, faults>>
  BY DEF CreateWholeRefund, outside
<1> QED
  BY <1>1, MadeAlone, RefusedAlone DEF CreateWholeRefund

(* What PayPal makes and goes unrecorded is no card refund. *)
LEMMA RefundCaptureAlone ==
  ASSUME IInv, AloneInv, ~overlapped', NEW s \in Slots, RefundCapture(s)
  PROVE  AloneInv'
<1> DEFINE p == req[s].sess.pid
<1>1. /\ req[s].pc = "bulk-refund" /\ ~overlapped /\ UNCHANGED <<refunds, bulk, told, faults>>
      /\ p \notin Cards
  BY DEF RefundCapture, outside
<1>2. CASE MakeRefund(p, Amount, "submitted") /\ req' = [req EXCEPT ![s] = NextBulk(@)]
  <2>1. req[s] \in Request
    BY <1>1, AloneIs
  <2>2. req' = [req EXCEPT ![s] = NextBulk(req[s])]
    BY <1>2 DEF IInv, TypeOK
  <2>3. UpToDate(refunds, bulk, NextBulk(req[s])) /\ NextBulk(req[s]).done = {}
    BY <1>1, <2>1, NextBulkOn
  <2>4. Working(req[s])
    BY <1>1 DEF Working
  <2> QED
    BY <1>1, <1>2, <2>2, <2>3, <2>4, MakesAlone
<1> QED
  BY <1>1, <1>2, MadeAlone, RefusedAlone DEF RefundCapture

-----------------------------------------------------------------------------
(* Steps that write arrays. *)

(* What is written from a copy: it gains on what is stored, and an update has
   no empty array. *)
LEMMA PatchRefundsAlone ==
  ASSUME IInv, AloneInv, ~overlapped', NEW s \in Slots, PatchRefunds(s)
  PROVE  AloneInv' /\ Advances
<1> DEFINE x == req[s].sess
           p == x.pid
<1>1. /\ req[s].pc \in {"create-patch", "update-patch"} /\ ~overlapped
      /\ PatchPaymentResource(p, x.list, x.bulk) /\ req' = [req EXCEPT ![s] = Idle]
      /\ UNCHANGED <<made, told, faults>>
  BY DEF PatchRefunds, outside
<1>2. /\ UpToDate(refunds, bulk, req[s]) /\ req[s] \in Request /\ RequestOK(req[s])
  BY <1>1, AloneIs
<1>3. p \in Payments /\ refunds[p] \in Seq(Refund)
  BY <1>1, <1>2 DEF RequestOK, IInv, TypeOK
<1>4. x.bulk = <<>>
  <2>1. BulkingTrue(req[s])
    BY DEF IInv, CopiesTrue, RequestTrue
  <2> QED
    BY <1>1, <2>1 DEF BulkingTrue
<1>5. Gains(refunds[p], x.list) /\ (req[s].pc = "create-patch" => x.list # <<>>)
  BY <1>1, <1>2, <1>3, ExtendsIs DEF UpToDate, CreatesOn, UpdatesOn, Gains, Extends
<1> HIDE DEF x, p
<1>6. /\ bulk' = bulk
      /\ refunds'[p] = (IF x.list = <<>> THEN refunds[p] ELSE x.list)
      /\ \A q \in Payments : q # p => refunds'[q] = refunds[q]
  BY <1>1, <1>3, <1>4 DEF PatchPaymentResource, IInv, TypeOK
<1>7. Advances
  BY <1>1, <1>5, <1>6, KeepsItself DEF Advances
<1>8. Carried(s, Idle)
  BY <1>1, <1>5, <1>6 DEF Carried, Carries, x, p
<1>9. ~Working(Idle) /\ Apart(Idle) /\ Idle.done = {}
  BY IdleTrue DEF Working, Apart
<1>10. UpToDate(refunds', bulk', Idle)
  BY <1>9, IdleUpToDate
<1>11. Goes(s, Idle)
  BY <1>1, <1>9, <1>10 DEF Goes
<1>12. Bystanders(s)
  BY <1>1, OthersStay DEF Working
<1> QED
  BY <1>1, <1>7, <1>8, <1>11, <1>12, AloneFrom

(* The bulk job writes the array of refunds as it is, and in place of a bulk
   refund that is pending, and has no id, the one that was made. *)
LEMMA PatchBulkAlone ==
  ASSUME IInv, AloneInv, ~overlapped', NEW s \in Slots, PatchBulk(s)
  PROVE  AloneInv' /\ Advances
<1> DEFINE x == req[s].sess
           p == x.pid
           r == NextBulk(req[s])
<1>1. /\ req[s].pc = "bulk-patch" /\ ~overlapped
      /\ PatchPaymentResource(p, x.list, x.bulk) /\ req' = [req EXCEPT ![s] = r]
      /\ UNCHANGED <<made, told, faults>>
  BY DEF PatchBulk, outside
<1>2. /\ UpToDate(refunds, bulk, req[s]) /\ req[s] \in Request /\ RequestOK(req[s])
  BY <1>1, AloneIs
<1>3. p \in Payments
  BY <1>1, <1>2 DEF RequestOK
<1>4. /\ x.list = refunds[p] /\ \A k \in DOMAIN bulk[p] : bulk[p][k].status = "refund-pending"
      /\ \A y \in req[s].todo : StillPending(refunds, bulk, y) /\ y.pid # p
      /\ \A y, z \in req[s].todo : y.pid = z.pid => y = z
  BY <1>1, <1>2 DEF UpToDate, BulkOn, StillPending, Apart
<1>5. x.bulk # <<>>
  <2>1. BulkingTrue(req[s])
    BY DEF IInv, CopiesTrue, RequestTrue
  <2> QED
    BY <1>1, <2>1 DEF BulkingTrue
<1>6. \A k \in DOMAIN bulk[p] : bulk[p][k].id = 0
  <2>1. PICK listed : BulkTrue(made, listed, bulk[p], p)
    BY <1>3 DEF IInv, CopiesTrue
  <2> QED
    BY <1>4, <2>1 DEF BulkTrue, EntryTrue
<1>7. \A y \in req[s].todo : y.pid \in Payments
  BY <1>2 DEF RequestOK
<1> HIDE DEF x, p
<1>8. /\ refunds' = refunds /\ bulk'[p] = x.bulk
      /\ \A q \in Payments : q # p => bulk'[q] = bulk[q]
  BY <1>1, <1>3, <1>4, <1>5 DEF PatchPaymentResource, IInv, TypeOK
<1>9. Advances
  BY <1>1, <1>6, <1>8, KeepsItself DEF Advances, IdsIn
<1>10. Carried(s, r)
  BY <1>1, <1>8 DEF Carried, Carries, x, p
<1>11. UpToDate(refunds', bulk', r) /\ r.done = {}
  <2>1. \A y \in req[s].todo : StillPending(refunds', bulk', y)
    BY <1>4, <1>7, <1>8 DEF StillPending
  <2> QED
    BY <1>2, <1>4, <2>1, NextBulkUpToDate
<1> HIDE DEF r
<1>12. Goes(s, r)
  BY <1>1, <1>11 DEF Goes, Working
<1>13. Bystanders(s)
  BY <1>1, OthersStay DEF Working
<1> QED
  BY <1>1, <1>9, <1>10, <1>12, <1>13, AloneFrom

(* An upload adds a pending one to a session that has none: the copies of a
   bulk job at work are as good as before. *)
LEMMA CreateBulkRefundAlone ==
  ASSUME IInv, AloneInv, ~overlapped', NEW s \in Slots, CreateBulkRefund(s)
  PROVE  AloneInv'
<1>1. /\ req[s].pc = "upload" /\ ~overlapped /\ UNCHANGED <<refunds, made, told, faults>>
  BY DEF CreateBulkRefund, outside
<1>2. /\ UpToDate(refunds, bulk, req[s]) /\ req[s] \in Request
  BY <1>1, AloneIs
<1>3. PICK entry \in req[s].file :
        /\ req' = [req EXCEPT ![s] = IF req[s].file = {entry} THEN Idle
                                     ELSE [req[s] EXCEPT !.file = @ \ {entry}]]
        /\ bulk' = [bulk EXCEPT ![entry.order] =
                      IF HasStatus(@, "refund-pending") \/ HasStatus(@, "refund-requested") THEN @
                      ELSE Append(@, UpdateBatchRefund(entry))]
  BY DEF CreateBulkRefund, IInv, TypeOK
<1> DEFINE r == IF req[s].file = {entry} THEN Idle ELSE [req[s] EXCEPT !.file = @ \ {entry}]
<1>4. /\ ~Working(r) /\ Apart(r) /\ r.done \subseteq req[s].done
  <2>1. CASE r = Idle
    BY <2>1, IdleTrue DEF Working, Apart
  <2>2. CASE r = [req[s] EXCEPT !.file = @ \ {entry}]
    <3>1. r.pc = "upload" /\ r.todo = req[s].todo /\ r.done = req[s].done
      BY <1>1, <1>2, <2>2 DEF Request
    <3> QED
      BY <1>2, <3>1 DEF Working, UpToDate, Apart
  <2> QED
    BY <2>1, <2>2
<1>5. req' = [req EXCEPT ![s] = r]
  BY <1>3
<1> HIDE DEF r
<1>6. PICK p \in Payments : p = entry.order
  BY <1>1, PlacedIs
<1> DEFINE new == UpdateBatchRefund(entry)
<1>7. /\ new.status = "refund-pending"
      /\ \A q \in Payments : bulk'[q] = bulk[q] \/ (q = p /\ bulk[q] = <<>> /\ bulk'[q] = Append(bulk[q], new))
  <2>1. /\ HasStatus(bulk[p], "refund-pending") \/ HasStatus(bulk[p], "refund-requested")
             <=> bulk[p] # <<>>
        /\ new = [id |-> 0, status |-> "refund-pending", amount |-> Amount]
    BY <1>1, <1>6, PlacedIs
  <2>2. new.status = "refund-pending"
    BY <2>1
  <2> HIDE DEF new
  <2>3. bulk \in [Payments -> Seq(BulkRefund)]
    BY DEF IInv, TypeOK
  <2>4. bulk' = [bulk EXCEPT ![p] = IF bulk[p] # <<>> THEN @ ELSE Append(@, new)]
    BY <1>3, <1>6, <2>1, <2>3 DEF new
  <2> QED
    BY <2>2, <2>3, <2>4
<1> HIDE DEF new
<1>8. ASSUME NEW q \in Payments
      PROVE  /\ \A i \in IdsIn(bulk[q]) : i \in IdsIn(bulk'[q])
             /\ (\A k \in DOMAIN bulk[q] : bulk[q][k].status = "refund-pending") =>
                  \A k \in DOMAIN bulk'[q] : bulk'[q][k].status = "refund-pending"
  <2>1. CASE bulk'[q] = bulk[q]
    BY <2>1
  <2>2. CASE bulk[q] = <<>> /\ bulk'[q] = Append(bulk[q], new)
    <3>1. bulk'[q] = <<new>> /\ DOMAIN bulk'[q] = {1} /\ bulk'[q][1] = new
      BY <2>2
    <3>2. IdsIn(bulk[q]) = {}
      BY <2>2 DEF IdsIn
    <3> QED
      BY <1>7, <3>1, <3>2
  <2> QED
    BY <1>7, <2>1, <2>2
<1>9. Advances
  BY <1>1, <1>8, KeepsItself DEF Advances
<1>10. UpToDate(refunds', bulk', r)
  BY <1>4, IdleUpToDate
<1>11. Goes(s, r) /\ Carried(s, r)
  BY <1>1, <1>4, <1>5, <1>10 DEF Goes, Carried, Carries
<1>12. Bystanders(s)
  <2> SUFFICES ASSUME NEW t \in Slots PROVE UpToDate(refunds', bulk', req[t])
    BY DEF Bystanders
  <2>1. UpToDate(refunds, bulk, req[t]) /\ RequestOK(req[t])
    BY <1>1, AloneIs
  <2>2. ASSUME NEW x, x.pid \in Payments, StillPending(refunds, bulk, x)
        PROVE  StillPending(refunds', bulk', x)
    BY <1>1, <1>8, <2>2 DEF StillPending
  <2>3. BulkOn(refunds', bulk', req[t])
    BY <2>1, <2>2 DEF UpToDate, BulkOn, RequestOK
  <2> QED
    BY <1>1, <2>1, <2>3 DEF UpToDate
<1> QED
  BY <1>1, <1>9, <1>11, <1>12, AloneFrom

(* What the pending job stores is a success that was one already or that GOV.UK
   Pay completed: nothing that failed, and no other refund, is touched. *)
LEMMA PatchPendingIs ==
  ASSUME IInv, AloneInv, ~overlapped, NEW s \in Slots, PatchPending(s),
         NEW p \in Payments, p = req[s].sess.pid
  PROVE  /\ Keeps(refunds[p], refunds'[p])
         /\ \A q \in Payments : q # p => refunds'[q] = refunds[q]
         /\ req[s].sess.list = refunds[p] /\ 1 \in DOMAIN refunds[p]
         /\ \A k \in DOMAIN refunds[p] :
              refunds[p][k].id # FirstId(refunds[p]) => refunds'[p][k] = refunds[p][k]
<1> DEFINE old == refunds[p]
           id == FirstId(old)
           good == req[s].good
           after == PatchRefundStatus(old, id, good)
<1>1. /\ req[s].pc = "pending-patch"
      /\ refunds' = [refunds EXCEPT ![p] = PatchRefundStatus(@, FirstId(req[s].sess.list), good)]
  BY DEF PatchPending
<1>2. /\ UpToDate(refunds, bulk, req[s]) /\ req[s] \in Request /\ RequestOK(req[s])
  BY AloneIs
<1>3. p \in Payments /\ req[s].sess.list = old /\ old \in Seq(Refund)
  BY <1>1, <1>2 DEF RequestOK, UpToDate, PendingOn, StillRequested, IInv, TypeOK
<1>4. PICK listed \in SUBSET DOMAIN made :
        ListTrue(made, listed, old, p) /\ PendingTrue(made, refunds, req[s])
  BY <1>3 DEF IInv, CopiesTrue, RequestTrue
<1>5. old # <<>> /\ (good => made[id].state = "success")
  BY <1>1, <1>3, <1>4 DEF PendingTrue
<1>6. 1 \in DOMAIN old
  BY <1>3, <1>5, EmptySeq
<1>7. /\ refunds'[p] = after /\ \A q \in Payments : q # p => refunds'[q] = refunds[q]
  BY <1>1, <1>3 DEF IInv, TypeOK
<1> HIDE DEF id, good
<1>8. ASSUME NEW k \in DOMAIN old
      PROVE  /\ after[k].id = old[k].id /\ after[k].ref = old[k].ref
             /\ after[k].status = old[k].status \/ (good /\ old[k].id = id /\ after[k].status = "refund-success")
             /\ old[k].id # id => after[k] = old[k]
  <2>1. old[k] \in Refund
    BY <1>3
  <2>2. after[k] = IF good /\ old[k].id = id THEN [old[k] EXCEPT !.status = "refund-success"] ELSE old[k]
    BY DEF PatchRefundStatus
  <2> HIDE DEF after, old
  <2> QED
    BY <2>1, <2>2 DEF Refund
<1>9. DOMAIN after = DOMAIN old
  BY DEF PatchRefundStatus
<1> HIDE DEF after, old
<1>10. Keeps(old, after)
  <2>1. ASSUME NEW k \in DOMAIN old, good, old[k].id = id PROVE old[k].status # "error"
    BY <1>4, <1>5, <2>1 DEF ListTrue, StatusTrue
  <2> QED
    BY <1>8, <1>9, <2>1 DEF Keeps
<1> QED
  BY <1>3, <1>6, <1>7, <1>8, <1>10 DEF old, id

LEMMA PatchPendingAlone ==
  ASSUME IInv, AloneInv, ~overlapped', NEW s \in Slots, PatchPending(s)
  PROVE  /\ AloneInv' /\ Advances
         /\ \A i \in req'[s].done \ req[s].done :
              /\ i \in told => HasStatus(refunds'[made[i].pid], "refund-requested")
              /\ made' = made
         /\ \A t \in Slots : t # s => req'[t] = req[t]
<1>1. /\ req[s].pc = "pending-patch" /\ ~overlapped /\ UNCHANGED <<bulk, made, told, faults>>
  BY DEF PatchPending, outside
<1>2. /\ UpToDate(refunds, bulk, req[s]) /\ req[s] \in Request /\ RequestOK(req[s])
  BY <1>1, AloneIs
<1>3. PICK p \in Payments : p = req[s].sess.pid
  BY <1>1, <1>2 DEF RequestOK
<1> DEFINE after == refunds'[p]
           new == IF after[1].status = "refund-success" THEN {FirstId(after)} ELSE {}
           r == [req[s] EXCEPT !.done = @ \cup new]
<1>4. /\ Keeps(refunds[p], after) /\ \A q \in Payments : q # p => refunds'[q] = refunds[q]
      /\ req[s].sess.list = refunds[p] /\ 1 \in DOMAIN refunds[p]
      /\ \A k \in DOMAIN refunds[p] :
           refunds[p][k].id # FirstId(refunds[p]) => after[k] = refunds[p][k]
  BY <1>1, <1>3, PatchPendingIs
<1>5. req' = [req EXCEPT ![s] = Onward(r)]
  BY <1>1, <1>3 DEF PatchPending, IInv, TypeOK
<1>6. PICK listed \in SUBSET DOMAIN made : ListTrue(made, listed, refunds[p], p)
  BY DEF IInv, CopiesTrue
<1>7. /\ 1 \in DOMAIN after /\ after[1].id = refunds[p][1].id
      /\ FirstId(after) = refunds[p][1].id /\ made[FirstId(after)].pid = p
  BY <1>4, <1>6 DEF Keeps, FirstId, ListTrue
<1>8. \A i \in new : i = FirstId(after) /\ Announced(refunds', made', i)
  BY <1>1, <1>7 DEF Announced, Succeeded, FirstId
<1>9. \A i \in new : i \in told => HasStatus(after, "refund-requested")
  <2> SUFFICES ASSUME FirstId(after) \in told PROVE HasStatus(after, "refund-requested")
    BY <1>8
  <2>1. FirstId(after) \in Succeeded(refunds[p])
    BY <1>1, <1>7 DEF AloneInv, Announced
  <2>2. PICK k \in DOMAIN refunds[p] :
          /\ refunds[p][k].status \in {"refund-success", "success"}
          /\ refunds[p][k].id = FirstId(after)
    BY <2>1 DEF Succeeded
  <2>3. k = 1
    BY <1>4, <1>6, <1>7, <2>2 DEF ListTrue
  <2>4. PICK j \in DOMAIN refunds[p] : refunds[p][j].status = "refund-requested"
    BY <1>1, <1>2, <1>3, <1>4 DEF UpToDate, PendingOn, StillRequested, HasStatus
  <2>5. refunds[p][j].id # FirstId(refunds[p])
    BY <1>4, <1>6, <2>2, <2>3, <2>4 DEF ListTrue, FirstId
  <2>6. j \in DOMAIN after /\ after[j] = refunds[p][j]
    BY <1>4, <2>5 DEF Keeps
  <2> QED
    BY <2>4, <2>6 DEF HasStatus
<1> HIDE DEF new, after
<1>10. /\ r.todo = req[s].todo /\ r.done = req[s].done \cup new
  BY <1>2 DEF Request
<1>11. r \in Request
  <2>1. IInv'
    BY PatchPendingKeeps
  <2>2. FirstId(after) \in Ids
    <3>1. refunds[p] \in Seq(Refund)
      BY DEF IInv, TypeOK
    <3>2. refunds[p][1] \in Refund
      BY <1>4, <3>1
    <3> QED
      BY <1>7, <3>2 DEF Refund
  <2>3. new \subseteq Ids
    BY <1>8, <2>2
  <2> QED
    BY <1>2, <2>3 DEF Request
<1> HIDE DEF r
<1>12. UpToDate(refunds', bulk', Onward(r)) /\ Onward(r).done \subseteq r.done
  <2>1. ASSUME NEW x \in r.todo PROVE StillRequested(refunds', x)
    <3>1. x.pid \in Payments /\ x.pid # p /\ StillRequested(refunds, x)
      BY <1>1, <1>2, <1>3, <1>10 DEF RequestOK, UpToDate, PendingOn, Apart
    <3> QED
      BY <1>4, <3>1 DEF StillRequested
  <2>2. \A x, y \in r.todo : x.pid = y.pid => x = y
    BY <1>2, <1>10 DEF UpToDate, Apart
  <2> QED
    BY <1>11, <2>1, <2>2, OnwardUpToDate
<1>13. Goes(s, Onward(r))
  BY <1>1, <1>5, <1>8, <1>10, <1>12 DEF Goes, Working
<1>14. Carried(s, Onward(r))
  BY <1>1 DEF Carried, Carries
<1>15. Advances
  BY <1>1, <1>4, KeepsItself DEF Advances, Gains, after
<1>16. Bystanders(s)
  BY <1>1, OthersStay DEF Working
<1>17. AloneInv'
  BY <1>1, <1>13, <1>14, <1>15, <1>16, AloneFrom
<1>18. /\ req'[s].done \ req[s].done \subseteq new /\ \A t \in Slots : t # s => req'[t] = req[t]
  BY <1>5, <1>10, <1>12 DEF IInv, TypeOK
<1>19. \A i \in new : i \in told => HasStatus(refunds'[made[i].pid], "refund-requested")
  BY <1>7, <1>8, <1>9 DEF after
<1> QED
  BY <1>1, <1>15, <1>17, <1>18, <1>19

(* A refund that settles is the same refund still. *)
LEMMA RefundSettlesAlone ==
  ASSUME IInv, AloneInv, ~overlapped', NEW i \in Ids, RefundSettles(i)
  PROVE  AloneInv'
<1>1. UNCHANGED <<refunds, bulk, told, req, outside>> /\ ~overlapped /\ UNCHANGED faults
  BY DEF RefundSettles, outside
<1>2. DOMAIN made' = DOMAIN made /\ \A j \in DOMAIN made : made'[j].pid = made[j].pid
  BY SettledIs DEF Settled
<1>3. \A j \in told \cup UNION {req[s].done : s \in Slots} : Announced(refunds', made', j)
  <2>1. Advances
    BY <1>1, <1>2, KeepsItself DEF Advances
  <2> QED
    BY <1>1, <2>1, SaidIs, StaysAnnounced DEF AloneInv
<1>4. OneWorking'
  BY <1>1 DEF AloneInv, OneWorking
<1> QED
  BY <1>1, <1>2, <1>3, <1>4 DEF AloneInv, Recorded

-----------------------------------------------------------------------------
(* The invariant, and the properties of requests that do not overlap. *)

LEMMA InitAlone == Init => AloneInv
<1> SUFFICES ASSUME Init PROVE AloneInv
  OBVIOUS
<1>1. \A s \in Slots : req[s] = Idle
  BY DEF Init
<1>2. ~Working(Idle) /\ Apart(Idle) /\ Idle.done = {}
  BY IdleTrue DEF Working, Apart
<1>3. \A s \in Slots : UpToDate(refunds, bulk, req[s]) /\ req[s].done = {}
  BY <1>1, <1>2, IdleUpToDate
<1>4. OneWorking
  BY <1>1, <1>2 DEF OneWorking
<1>5. DOMAIN made = {} /\ told = {} /\ \A p \in Payments : DOMAIN refunds[p] = {}
  BY DEF Init
<1> QED
  BY <1>3, <1>4, <1>5 DEF AloneInv, ReferencesApart

LEMMA ArriveAlone ==
  ASSUME IInv, AloneInv, ~overlapped', NEW s \in Slots, Arrive(s)
  PROVE  AloneInv'
BY BeginCreateRefundAlone, BeginUpdateRefundAlone, handleRefundFileAlone,
   BeginProcessPendingAlone, BeginProcessBatchAlone DEF Arrive

LEMMA ProceedAlone ==
  ASSUME IInv, AloneInv, ~overlapped', NEW s \in Slots, Proceed(s)
  PROVE  AloneInv'
BY ReadSessionAlone, GetRefundSummaryAlone, CreateRefundAlone, GetRefundStatusAlone,
   PatchRefundsAlone, GetPendingStatusAlone, PatchPendingAlone, SendRefundMessageAlone,
   CheckAvailableAlone, CreateWholeRefundAlone, RefundCaptureAlone, PatchBulkAlone,
   CreateBulkRefundAlone DEF Proceed

LEMMA NextAlone == IInv /\ AloneInv /\ [Next]_vars => AloneInv'
<1> SUFFICES ASSUME IInv, AloneInv, [Next]_vars PROVE AloneInv'
  OBVIOUS
<1>1. CASE overlapped'
  BY <1>1 DEF AloneInv
<1>2. CASE ~overlapped'
  <2>1. CASE UNCHANGED vars
    BY <2>1 DEF vars, AloneInv, OneWorking
  <2> QED
    BY <1>2, <2>1, ArriveAlone, ProceedAlone, PassOverAlone, BulkFailsAlone, RequestDiesAlone,
       RefundSettlesAlone DEF Next
<1> QED
  BY <1>1, <1>2

(* While requests do not overlap, each works on what is stored: every state
   satisfies AloneInv, whatever the files, the faults and the settlements. *)
THEOREM RefundsAlone == Spec => []AloneInv
<1>1. IInv /\ AloneInv /\ [Next]_vars => AloneInv'
  BY NextAlone
<1> QED
  BY <1>1, InitAlone, RefundsSafe, PTL DEF Spec

(* A card refund that GOV.UK Pay made for CreateRefund, or for a bulk job, is
   on its session once the request is done: neither reads the arrays too early
   nor writes one over the other. *)
THEOREM CardRefundsStored == Spec => []CardRefundsAreStored
<1>1. IInv /\ AloneInv => CardRefundsAreStored
  <2> SUFFICES ASSUME IInv, AloneInv, AtRest, ~overlapped, faults = 0, NEW i \in DOMAIN made,
                      made[i].pid \in Cards
               PROVE  i \in IdsIn(refunds[made[i].pid]) \cup IdsIn(bulk[made[i].pid])
    BY DEF CardRefundsAreStored
  <2>1. Recorded(refunds, bulk, req, made[i].pid, i)
    BY DEF AloneInv
  <2> QED
    BY <2>1 DEF Recorded, Carries, AtRest
<1> QED
  BY <1>1, RefundsSafe, RefundsAlone, PTL

(* CreateRefund refuses a reference that a refund of the session has, unless
   that one failed: no two refunds that count ever share one. *)
THEOREM ReferencesUnique == Spec => []ReferencesAreUnique
<1>1. AloneInv => ReferencesAreUnique
  BY DEF AloneInv, ReferencesApart, ReferencesAreUnique
<1> QED
  BY <1>1, RefundsAlone, PTL

(* Of the steps of one request only three write an array of refunds. *)
LEMMA ArraysAdvance ==
  ASSUME IInv, AloneInv, [Next]_vars, ~overlapped', NEW p \in Payments
  PROVE  Succeeded(refunds[p]) \subseteq Succeeded(refunds'[p])
<1>1. CASE refunds' = refunds
  BY <1>1
<1>2. CASE Advances
  <2>1. refunds[p] \in Seq(Refund) /\ Gains(refunds[p], refunds'[p])
    BY <1>2 DEF Advances, IInv, TypeOK
  <2> QED
    BY <2>1, GainsIs
<1>3. ASSUME NEW s \in Slots, Proceed(s) PROVE Advances \/ refunds' = refunds
  <2>1. CASE PatchRefunds(s) \/ PatchPending(s) \/ PatchBulk(s)
    BY <2>1, PatchRefundsAlone, PatchPendingAlone, PatchBulkAlone
  <2>2. CASE ~(PatchRefunds(s) \/ PatchPending(s) \/ PatchBulk(s))
    BY <1>3, <2>2 DEF Proceed, ReadSession, GetRefundSummary, CreateRefund, GetRefundStatus,
       GetPendingStatus, SendRefundMessage, CheckAvailable, CreateWholeRefund, RefundCapture,
       CreateBulkRefund
  <2> QED
    BY <2>1, <2>2
<1>4. ASSUME NEW s \in Slots, Arrive(s) \/ PassOver(s) \/ BulkFails(s) \/ RequestDies(s)
      PROVE  refunds' = refunds
  BY <1>4 DEF Arrive, BeginCreateRefund, BeginUpdateRefund, handleRefundFile,
     BeginProcessPending, BeginProcessBatch, PassOver, BulkFails, RequestDies
<1>5. ASSUME NEW i \in Ids, RefundSettles(i) PROVE refunds' = refunds
  BY <1>5 DEF RefundSettles
<1> QED
  BY <1>1, <1>2, <1>3, <1>4, <1>5 DEF Next, vars

(* No later update, of the same refund or another, by a client or a job,
   takes back a refund that a session lists as a success. *)
THEOREM SuccessesStay == Spec => SuccessStays
<1>1. IInv /\ AloneInv /\ [Next]_vars =>
        [~overlapped' => \A p \in Payments : Succeeded(refunds[p]) \subseteq Succeeded(refunds'[p])]_vars
  BY ArraysAdvance
<1> QED
  BY <1>1, RefundsSafe, RefundsAlone, PTL DEF Spec, SuccessStays

(* Only PatchPending prepares a message: no other step adds one to a request. *)
NoneIsPrepared == \A t \in Slots : req'[t].done \subseteq req[t].done

LEMMA DoneShrinks ==
  ASSUME IInv, NEW s \in Slots, NEW r, req' = [req EXCEPT ![s] = r], r.done \subseteq req[s].done
  PROVE  NoneIsPrepared
<1>1. req \in [Slots -> Request]
  BY DEF IInv, TypeOK
<1> QED
  BY <1>1 DEF NoneIsPrepared

LEMMA GoesOnWith ==
  ASSUME NEW r \in Request
  PROVE  Onward(r).done \subseteq r.done /\ NextBulk(r).done = {}
BY IdleTrue DEF Onward, NextBulk, Request

LEMMA EndsUnprepared ==
  ASSUME IInv, NEW s \in Slots, req' = [req EXCEPT ![s] = Idle]
  PROVE  NoneIsPrepared
<1>1. Idle.done = {}
  BY IdleTrue
<1>2. req \in [Slots -> Request]
  BY DEF IInv, TypeOK
<1> QED
  BY <1>1, <1>2 DEF NoneIsPrepared

LEMMA ArrivesUnprepared ==
  ASSUME IInv, NEW s \in Slots, Arrive(s) \/ RequestDies(s)
  PROVE  NoneIsPrepared
<1>1. req \in [Slots -> Request]
  BY DEF IInv, TypeOK
<1>2. CASE RequestDies(s)
  BY <1>2, EndsUnprepared DEF RequestDies
<1>3. ASSUME NEW p, NEW amount, NEW ref, BeginCreateRefund(s, p, amount, ref)
      PROVE  NoneIsPrepared
  <2> DEFINE r == [Idle EXCEPT !.pc = "create-session", !.sess = Session(p, <<>>, <<>>),
                             !.amount = amount, !.ref = ref]
  <2>1. req' = [req EXCEPT ![s] = r]
    BY <1>3 DEF BeginCreateRefund
  <2>2. r.done = {}
    BY DEF Idle
  <2> HIDE DEF r
  <2> QED
    BY <1>1, <2>1, <2>2 DEF NoneIsPrepared
<1>4. ASSUME NEW p, NEW id, BeginUpdateRefund(s, p, id)
      PROVE  NoneIsPrepared
  <2> DEFINE r == [Idle EXCEPT !.pc = "update-status", !.id = id,
                             !.sess = Session(p, refunds[p], <<>>)]
  <2>1. req' = [req EXCEPT ![s] = r]
    BY <1>4 DEF BeginUpdateRefund
  <2>2. r.done = {}
    BY DEF Idle
  <2> HIDE DEF r
  <2> QED
    BY <1>1, <2>1, <2>2 DEF NoneIsPrepared
<1>5. ASSUME NEW by, NEW file, handleRefundFile(s, by, file)
      PROVE  NoneIsPrepared
  <2> DEFINE r == [Idle EXCEPT !.pc = "upload", !.file = file]
  <2>1. req' = [req EXCEPT ![s] = r]
    BY <1>5 DEF handleRefundFile
  <2>2. r.done = {}
    BY DEF Idle
  <2> HIDE DEF r
  <2> QED
    BY <1>1, <2>1, <2>2 DEF NoneIsPrepared
<1>6. ASSUME NEW todo, req' = [req EXCEPT ![s] = [Idle EXCEPT !.pc = "pending-next", !.todo = todo]]
      PROVE  NoneIsPrepared
  <2> DEFINE r == [Idle EXCEPT !.pc = "pending-next", !.todo = todo]
  <2>1. r.done = {}
    BY DEF Idle
  <2>2. req' = [req EXCEPT ![s] = r]
    BY <1>6
  <2> HIDE DEF r
  <2> QED
    BY <1>1, <2>1, <2>2 DEF NoneIsPrepared
<1>7. CASE BeginProcessPending(s)
  BY <1>6, <1>7 DEF BeginProcessPending
<1>8. ASSUME BeginProcessBatch(s)
      PROVE  NoneIsPrepared
  <2> DEFINE r == [Idle EXCEPT !.pc = "bulk-next",
                  !.todo = {Session(p, refunds[p], bulk[p]) : p \in PendingSessions}]
  <2>1. req' = [req EXCEPT ![s] = r]
    BY <1>8 DEF BeginProcessBatch
  <2>2. r.done = {}
    BY DEF Idle
  <2> HIDE DEF r
  <2> QED
    BY <1>1, <2>1, <2>2 DEF NoneIsPrepared
<1> QED
  BY <1>2, <1>3, <1>4, <1>5, <1>7, <1>8 DEF Arrive

(* Steps of the requests of clients, and of the pending job. *)
LEMMA StepsUnprepared ==
  ASSUME IInv, NEW s \in Slots,
         \/ ReadSession(s) \/ GetRefundSummary(s) \/ CreateRefund(s) \/ GetRefundStatus(s)
         \/ PatchRefunds(s) \/ GetPendingStatus(s) \/ SendRefundMessage(s)
  PROVE  NoneIsPrepared
<1>1. req \in [Slots -> Request] /\ req[s] \in Request
  BY DEF IInv, TypeOK
<1>2. CASE ReadSession(s)
  BY <1>1, <1>2 DEF ReadSession, Request, NoneIsPrepared
<1>3. CASE GetRefundSummary(s)
  <2> DEFINE available == left[req[s].sess.pid]
             r == [req[s] EXCEPT !.pc = "create-refund", !.avail = available]
  <2>1. r.done = req[s].done
    BY <1>1 DEF Request
  <2>2. req' = [req EXCEPT ![s] = r] \/ req' = [req EXCEPT ![s] = Idle]
    BY <1>1, <1>3 DEF GetRefundSummary
  <2> HIDE DEF r
  <2>3. CASE req' = [req EXCEPT ![s] = r]
    BY <1>1, <2>1, <2>3 DEF NoneIsPrepared
  <2> QED
    BY <2>2, <2>3, EndsUnprepared
<1>4. CASE CreateRefund(s)
  <2> DEFINE new == [id |-> NewId, ref |-> req[s].ref, status |-> MapStatus("submitted")]
             r == [req[s] EXCEPT !.pc = "create-patch", !.sess.list = Append(@, new)]
  <2>1. r.done = req[s].done
    BY <1>1 DEF Request
  <2>2. \/ req' = [req EXCEPT ![s].pc = "create-patch", ![s].sess.list = Append(@, new)]
        \/ req' = [req EXCEPT ![s] = Idle]
    BY <1>4 DEF CreateRefund
  <2>3. CASE req' = [req EXCEPT ![s].pc = "create-patch", ![s].sess.list = Append(@, new)]
    <3>1. req' = [req EXCEPT ![s] = r]
      BY <1>1, <2>3
    <3> HIDE DEF r
    <3> QED
      BY <1>1, <2>1, <3>1 DEF NoneIsPrepared
  <2> QED
    BY <2>2, <2>3, EndsUnprepared
<1>5. CASE GetRefundStatus(s)
  BY <1>1, <1>5 DEF GetRefundStatus, Request, NoneIsPrepared
<1>6. CASE PatchRefunds(s)
  BY <1>6, EndsUnprepared DEF PatchRefunds
<1>7. CASE GetPendingStatus(s)
  <2>1. PICK x \in req[s].todo :
          req' = [req EXCEPT ![s].pc = "pending-patch", ![s].sess = x, ![s].todo = @ \ {x},
                             ![s].good = made[FirstId(x.list)].state = "success"]
    BY <1>7 DEF GetPendingStatus
  <2> DEFINE r == [req[s] EXCEPT !.pc = "pending-patch", !.sess = x, !.todo = @ \ {x},
                                 !.good = made[FirstId(x.list)].state = "success"]
  <2>2. req' = [req EXCEPT ![s] = r] /\ r.done = req[s].done
    BY <1>1, <2>1 DEF Request
  <2> HIDE DEF r
  <2> QED
    BY <1>1, <2>2 DEF NoneIsPrepared
<1>8. CASE SendRefundMessage(s)
  <2>1. PICK i \in req[s].done : req' = [req EXCEPT ![s] = Onward([req[s] EXCEPT !.done = @ \ {i}])]
    BY <1>8 DEF SendRefundMessage
  <2> DEFINE r == [req[s] EXCEPT !.done = @ \ {i}]
  <2>2. r \in Request /\ r.done \subseteq req[s].done
    BY <1>1 DEF Request
  <2>3. req' = [req EXCEPT ![s] = Onward(r)]
    BY <2>1
  <2> HIDE DEF r
  <2> QED
    BY <2>2, <2>3, GoesOnWith, DoneShrinks
<1> QED
  BY <1>2, <1>3, <1>4, <1>5, <1>6, <1>7, <1>8

(* Steps of the bulk job, and of an upload. *)
LEMMA BulkUnprepared ==
  ASSUME IInv, NEW s \in Slots,
         \/ CheckAvailable(s) \/ CreateWholeRefund(s) \/ RefundCapture(s) \/ PatchBulk(s)
         \/ CreateBulkRefund(s) \/ PassOver(s) \/ BulkFails(s)
  PROVE  NoneIsPrepared
<1>1. req \in [Slots -> Request] /\ req[s] \in Request
  BY DEF IInv, TypeOK
<1>2. ASSUME NEW x
      PROVE  /\ [req[s] EXCEPT !.todo = @ \ {x}] \in Request
             /\ [req[s] EXCEPT !.todo = @ \ {x}].done = req[s].done
             /\ [req[s] EXCEPT !.done = @ \ {x}] \in Request
             /\ [req[s] EXCEPT !.done = @ \ {x}].done \subseteq req[s].done
  BY <1>1 DEF Request
<1>3. CASE CheckAvailable(s)
  <2>1. PICK x \in req[s].todo :
          LET rest == [req[s] EXCEPT !.todo = @ \ {x}] IN
          \/ req' = [req EXCEPT ![s] = [rest EXCEPT !.pc = "bulk-refund", !.sess = x]]
          \/ req' = [req EXCEPT ![s] = NextBulk(rest)]
    BY <1>3 DEF CheckAvailable
  <2> DEFINE rest == [req[s] EXCEPT !.todo = @ \ {x}]
             r == [rest EXCEPT !.pc = "bulk-refund", !.sess = x]
  <2>2. rest \in Request /\ r.done = req[s].done
    BY <1>1, <1>2 DEF Request
  <2>3. req' = [req EXCEPT ![s] = r] \/ req' = [req EXCEPT ![s] = NextBulk(rest)]
    BY <2>1
  <2> HIDE DEF rest, r
  <2> QED
    BY <2>2, <2>3, GoesOnWith, DoneShrinks
<1>4. ASSUME NEW p, NEW due, NEW state, Made(s, p, due, state) \/ Refused(s, p, due)
      PROVE  NoneIsPrepared
  <2>1. CASE Made(s, p, due, state)
    BY <1>1, <2>1 DEF Made, Request, NoneIsPrepared
  <2>2. CASE Refused(s, p, due)
    BY <1>1, <2>2, GoesOnWith DEF Refused, NoneIsPrepared
  <2> QED
    BY <1>4, <2>1, <2>2
<1>5. CASE CreateWholeRefund(s)
  BY <1>4, <1>5 DEF CreateWholeRefund
<1>6. CASE RefundCapture(s)
  <2>1. CASE req' = [req EXCEPT ![s] = NextBulk(@)]
    BY <1>1, <2>1, GoesOnWith DEF NoneIsPrepared
  <2> QED
    BY <1>4, <1>6, <2>1 DEF RefundCapture
<1>7. CASE PatchBulk(s)
  BY <1>1, <1>7, GoesOnWith DEF PatchBulk, NoneIsPrepared
<1>8. CASE CreateBulkRefund(s)
  <2>1. PICK entry \in req[s].file :
          req' = [req EXCEPT ![s] = IF @.file = {entry} THEN Idle
                                    ELSE [req[s] EXCEPT !.file = @ \ {entry}]]
    BY <1>8 DEF CreateBulkRefund
  <2> QED
    BY <1>1, <2>1, IdleTrue DEF Request, NoneIsPrepared
<1>9. CASE PassOver(s)
  <2>1. \E x : \/ req' = [req EXCEPT ![s] = Onward([req[s] EXCEPT !.todo = @ \ {x}])]
               \/ req' = [req EXCEPT ![s] = Onward([req[s] EXCEPT !.done = @ \ {x}])]
    BY <1>9 DEF PassOver
  <2>2. ASSUME NEW r \in Request, r.done \subseteq req[s].done, req' = [req EXCEPT ![s] = Onward(r)]
        PROVE  NoneIsPrepared
    BY <2>2, GoesOnWith, DoneShrinks
  <2> QED
    BY <1>2, <2>1, <2>2
<1>10. CASE BulkFails(s)
  <2>1. \/ req' = [req EXCEPT ![s] = NextBulk(@)]
        \/ \E x : req' = [req EXCEPT ![s] = NextBulk([req[s] EXCEPT !.todo = @ \ {x}])]
    BY <1>10 DEF BulkFails
  <2>2. CASE req' = [req EXCEPT ![s] = NextBulk(@)]
    BY <1>1, <2>2, GoesOnWith DEF NoneIsPrepared
  <2>3. ASSUME NEW r \in Request, req' = [req EXCEPT ![s] = NextBulk(r)] PROVE NoneIsPrepared
    BY <2>3, GoesOnWith, DoneShrinks
  <2> QED
    BY <1>2, <2>1, <2>2, <2>3
<1> QED
  BY <1>3, <1>5, <1>6, <1>7, <1>8, <1>9, <1>10

LEMMA PreparedAlone ==
  ASSUME IInv, AloneInv, [Next]_vars, ~overlapped', NEW s \in Slots,
         NEW i \in (req'[s].done \ req[s].done) \cap told
  PROVE  HasStatus(refunds'[made[i].pid], "refund-requested")
<1>1. ASSUME NoneIsPrepared PROVE FALSE
  BY <1>1 DEF NoneIsPrepared
<1>2. CASE UNCHANGED vars
  BY <1>2 DEF vars
<1>3. CASE \E j \in Ids : RefundSettles(j)
  BY <1>3 DEF RefundSettles
<1>4. ASSUME NEW t \in Slots, PatchPending(t)
      PROVE  HasStatus(refunds'[made[i].pid], "refund-requested")
  BY <1>4, PatchPendingAlone
<1>5. ASSUME NEW t \in Slots,
             Arrive(t) \/ Proceed(t) \/ PassOver(t) \/ BulkFails(t) \/ RequestDies(t)
      PROVE  HasStatus(refunds'[made[i].pid], "refund-requested")
  BY <1>1, <1>4, <1>5, ArrivesUnprepared, StepsUnprepared, BulkUnprepared DEF Proceed
<1> QED
  BY <1>2, <1>3, <1>5 DEF Next

(* The pending job goes by what a session lists first.  It prepares a message
   that was sent before only because a later refund has the session found
   again: once all have an outcome, no run tells the same twice. *)
THEOREM Retold == Spec => RetoldWhileOthersWait
<1>1. IInv /\ AloneInv /\ [Next]_vars =>
        [~overlapped' =>
           \A s \in Slots : \A i \in (req'[s].done \ req[s].done) \cap told :
             HasStatus(refunds'[made[i].pid], "refund-requested")]_vars
  BY PreparedAlone
<1> QED
  BY <1>1, RefundsSafe, RefundsAlone, PTL DEF Spec, RetoldWhileOthersWait
=============================================================================
