------------------------- MODULE RefundsInvariants -------------------------
(***************************************************************************)
(* The inductive invariant of refunds: the safety properties of Refunds,   *)
(* and what they need to know of the copies that requests hold.  A copy of *)
(* a session may be stale; what makes it safe to write back is that it is  *)
(* as true as what is stored.                                              *)
(*                                                                         *)
(* m is what the providers made, d and b the two arrays of every session,  *)
(* and listed the ids of refunds that came in one by one: those that stand *)
(* in an array of refunds somewhere, and in no array of bulk refunds.      *)
(***************************************************************************)
EXTENDS Refunds

(* What an array of refunds of p says is true. *)
StatusTrue(status, state) ==
  /\ status \in {"refund-success", "success"} => state = "success"
  /\ status \in {"refund-error", "error"} => state = "error"

ListTrue(m, listed, list, p) ==
  /\ \A j, k \in DOMAIN list : list[j].id = list[k].id => j = k
  /\ \A k \in DOMAIN list :
       /\ list[k].id \in listed /\ m[list[k].id].pid = p
       /\ StatusTrue(list[k].status, m[list[k].id].state)

(* And one of bulk refunds, which holds at most one. *)
EntryTrue(m, listed, entry, p) ==
  /\ entry.amount = Amount
  /\ IF entry.status = "refund-pending" THEN entry.id = 0
     ELSE /\ entry.id \in DOMAIN m \ listed
          /\ m[entry.id].pid = p /\ m[entry.id].amount = Amount

BulkTrue(m, listed, entries, p) ==
  Len(entries) <= 1 /\ \A k \in DOMAIN entries : EntryTrue(m, listed, entries[k], p)

(* A copy of a session is true, and no bulk refund is in a copy alone. *)
CopyTrue(m, listed, b, x) ==
  /\ ListTrue(m, listed, x.list, x.pid)
  /\ BulkTrue(m, listed, x.bulk, x.pid)
  /\ x.bulk # <<>> => x.pid \in Payments /\ b[x.pid] # <<>>

FinalIn(m) == {i \in DOMAIN m : m[i].state = "success"}

(* What is known of a request where it has got to. *)
Creating == {"create-session", "create-summary", "create-refund"}

CreatingTrue(r) ==
  /\ r.pc \in Creating => r.amount \in Amounts /\ r.ref \in References
  /\ r.pc = "create-refund" => r.avail >= r.amount

UpdatingTrue(r) == r.pc = "update-status" => r.id \in IdsIn(r.sess.list)

(* The sessions of the pending job have refunds, and go on having them. *)
PendingTrue(m, d, r) ==
  /\ r.pc \in {"pending-next", "pending-patch", "pending-tell"} =>
       \A x \in r.todo : x.list # <<>> /\ d[x.pid] # <<>>
  /\ r.pc = "pending-patch" =>
       /\ r.sess.list # <<>> /\ d[r.sess.pid] # <<>>
       /\ r.good => m[FirstId(r.sess.list)].state = "success"

(* Those of the bulk job have a bulk refund: still pending until it is made. *)
Waiting(x) == x.bulk # <<>> /\ \A k \in DOMAIN x.bulk : x.bulk[k].status = "refund-pending"

BulkingTrue(r) ==
  /\ r.pc \in {"bulk-next", "bulk-refund", "bulk-patch"} => \A x \in r.todo : Waiting(x)
  /\ r.pc = "bulk-refund" => Waiting(r.sess)
  /\ r.pc = "bulk-patch" =>
       r.sess.bulk # <<>> /\ \A k \in DOMAIN r.sess.bulk : r.sess.bulk[k].status = "refund-requested"
  /\ r.pc \in Creating \cup {"create-patch", "update-status", "update-patch"} => r.sess.bulk = <<>>

UploadTrue(r) == \A entry \in r.file : entry.order \in Payments /\ entry.amount = Amount

RequestTrue(m, listed, d, b, r) ==
  /\ \A x \in r.todo \cup {r.sess} : CopyTrue(m, listed, b, x)
  /\ r.done \subseteq FinalIn(m)
  /\ CreatingTrue(r) /\ UpdatingTrue(r) /\ PendingTrue(m, d, r) /\ BulkingTrue(r) /\ UploadTrue(r)

(* What the providers gave back, and would still give back, is the payment. *)
HeldOf(m, p) == {i \in DOMAIN m : m[i].pid = p /\ m[i].state # "error"}

MoneyTrue(m, l) ==
  /\ \A i \in DOMAIN m : m[i].amount \in 1 .. Amount
  /\ \A p \in Payments :
       l[p] >= 0 /\ l[p] + MapThenSumSet(LAMBDA i : m[i].amount, HeldOf(m, p)) = Amount

CopiesTrue(m, listed, d, b, q) ==
  /\ listed \subseteq DOMAIN m
  /\ \A p \in Payments : ListTrue(m, listed, d[p], p) /\ BulkTrue(m, listed, b[p], p)
  /\ \A s \in Slots : RequestTrue(m, listed, d, b, q[s])

IInv ==
  /\ TypeOK
  /\ told \subseteq FinalIn(made)
  /\ MoneyTrue(made, left)
  /\ \E listed \in SUBSET DOMAIN made : CopiesTrue(made, listed, refunds, bulk, req)

-----------------------------------------------------------------------------
(* While requests do not overlap, a copy is not stale: it is what is stored,
   or what is stored and the change the request is about to write. *)
Working(r) == r.pc \notin {"idle", "upload"}
OneWorking == \A s, t \in Slots : Working(req[s]) /\ Working(req[t]) => s = t

(* An array that keeps what another says: its refunds, those that succeeded
   as successes and those that failed as failures. *)
Keeps(old, new) ==
  /\ DOMAIN new = DOMAIN old
  /\ \A k \in DOMAIN old :
       /\ new[k].id = old[k].id /\ new[k].ref = old[k].ref
       /\ old[k].status \in {"refund-success", "success"} =>
            new[k].status \in {"refund-success", "success"}
       /\ old[k].status = "error" => new[k].status = "error"

Extends(old, new) ==
  \E refund \in Refund : new = Append(old, refund) /\ ReferenceIsFree(old, refund.ref)

CreatesOn(d, r) ==
  /\ r.pc \in Creating => ReferenceIsFree(d[r.sess.pid], r.ref)
  /\ r.pc \in {"create-summary", "create-refund"} => r.sess.list = d[r.sess.pid]
  /\ r.pc = "create-patch" => Extends(d[r.sess.pid], r.sess.list)

UpdatesOn(d, r) ==
  /\ r.pc = "update-status" => r.sess.list = d[r.sess.pid]
  /\ r.pc = "update-patch" => Keeps(d[r.sess.pid], r.sess.list)

(* The sessions still on a list are others than the one at hand, and no two
   of them are the same. *)
Apart(r) ==
  /\ \A x, y \in r.todo : x.pid = y.pid => x = y
  /\ r.pc \in {"pending-patch", "bulk-refund", "bulk-patch"} => \A x \in r.todo : x.pid # r.sess.pid

StillRequested(d, x) == x.list = d[x.pid] /\ HasStatus(x.list, "refund-requested")

PendingOn(d, r) ==
  /\ r.pc \in {"pending-next", "pending-patch", "pending-tell"} =>
       \A x \in r.todo : StillRequested(d, x)
  /\ r.pc = "pending-patch" => StillRequested(d, r.sess)

StillPending(d, b, x) ==
  x.list = d[x.pid] /\ \A k \in DOMAIN b[x.pid] : b[x.pid][k].status = "refund-pending"

BulkOn(d, b, r) ==
  /\ r.pc \in {"bulk-next", "bulk-refund", "bulk-patch"} => \A x \in r.todo : StillPending(d, b, x)
  /\ r.pc \in {"bulk-refund", "bulk-patch"} => StillPending(d, b, r.sess)

UpToDate(d, b, r) ==
  CreatesOn(d, r) /\ UpdatesOn(d, r) /\ Apart(r) /\ PendingOn(d, r) /\ BulkOn(d, b, r)

(* No two refunds of a list that has not failed share a reference. *)
ReferencesApart(list) ==
  \A j, k \in DOMAIN list :
    j # k /\ list[j].ref = list[k].ref => "error" \in {list[j].status, list[k].status}

(* What consumers were told, or will be, stays a success of its session. *)
Announced(d, m, i) == i \in Succeeded(d[m[i].pid])

(* A refund the provider made is on its session, or in the copy of the
   request that had it made and is about to write it. *)
Carries(r, p, i) ==
  /\ r.sess.pid = p
  /\ \/ r.pc = "create-patch" /\ i \in IdsIn(r.sess.list)
     \/ r.pc = "bulk-patch" /\ i \in IdsIn(r.sess.bulk)

Recorded(d, b, q, p, i) ==
  i \in IdsIn(d[p]) \cup IdsIn(b[p]) \/ \E s \in Slots : Carries(q[s], p, i)

AloneInv ==
  ~overlapped =>
    /\ OneWorking
    /\ \A s \in Slots : UpToDate(refunds, bulk, req[s])
    /\ \A p \in Payments : ReferencesApart(refunds[p])
    /\ \A i \in told \cup UNION {req[s].done : s \in Slots} : Announced(refunds, made, i)
    /\ faults = 0 => \A i \in DOMAIN made :
                       made[i].pid \in Cards => Recorded(refunds, bulk, req, made[i].pid, i)
=============================================================================
