------------------------------- MODULE Access -------------------------------
(***************************************************************************)
(* Who may do what.  A gateway in front of the service names the caller in *)
(* headers; the interceptors of a route, run in order, turn the request    *)
(* away or pass it on with what they found in its context; the handler     *)
(* reads that context.  There are no variables here.                       *)
(***************************************************************************)
EXTENDS Integers, Sequences

CONSTANTS
  Users,  \* identities the gateway has authenticated
  NoUser  \* the empty identity

ASSUME UsersAssumption == NoUser \notin Users

(* The headers.  user is the OAuth2 user's description: absent, with an
   e-mail address, or without one (it has four parts or a blank first one). *)
Identity ==
  [type: {"oauth2", "key", "none"}, id: Users \cup {NoUser},
   user: {"absent", "email", "other"},
   roles: SUBSET {"payment-lookup", "bulk-refund"},
   privileges: SUBSET {"elevated", "payment"}]

HasPrivilege(w, some) == w.privileges \cap some # {}

-----------------------------------------------------------------------------
(* The interceptors: what each asks of the caller w. *)
UserPaymentAuthentication(w) ==
  /\ w.type \in {"oauth2", "key"}
  /\ w.id # NoUser
  /\ w.type = "oauth2" => w.user # "absent"

InternalOrPaymentPrivileges(w) ==
  w.type = "key" /\ HasPrivilege(w, {"elevated", "payment"})

Oauth2OrPaymentPrivileges(w) ==
  \/ w.type = "oauth2"
  \/ w.type = "key" /\ HasPrivilege(w, {"payment"})

ElevatedPrivileges(w) == w.type = "key" /\ HasPrivilege(w, {"elevated"})

(* Mutant: the lookup role opens every method. *)
LookupRoleForAll(w, method, owner, lookup) ==
  /\ w.type \in {"oauth2", "key"}
  /\ w.id # NoUser
  /\ lookup = "Success"
  /\ \/ w.id = owner
     \/ "payment-lookup" \in w.roles
     \/ w.type = "key" /\ HasPrivilege(w, {"elevated", "payment"})

(* The session is read (see Charges), and its owner compared. *)
PaymentAuthentication(w, method, owner, lookup) ==
  /\ w.type \in {"oauth2", "key"}
  /\ w.id # NoUser
  /\ lookup = "Success"
  /\ \/ w.id = owner
     \/ "payment-lookup" \in w.roles /\ method = "GET"
     \/ w.type = "key" /\ HasPrivilege(w, {"elevated", "payment"})

PaymentAdminAuthentication(w) ==
  /\ w.type = "oauth2"
  /\ w.user = "email"
  /\ "bulk-refund" \in w.roles

-----------------------------------------------------------------------------
(* What an interceptor finds in the context, and what it puts there. *)
Reads(i) == IF i \in {"payment", "admin"} THEN {"user-details"} ELSE {}

Adds(i) ==
  CASE i = "user"    -> {"user-details"}
    [] i = "payment" -> {"payment-session"}
    [] i = "admin"   -> {"user-id"}
    [] OTHER         -> {}

Passes(i, w, method, owner, lookup) ==
  CASE i = "user"     -> UserPaymentAuthentication(w)
    [] i = "internal" -> InternalOrPaymentPrivileges(w)
    [] i = "oauth2"   -> Oauth2OrPaymentPrivileges(w)
    [] i = "elevated" -> ElevatedPrivileges(w)
    [] i = "payment"  -> PaymentAuthentication(w, method, owner, lookup)
    [] i = "admin"    -> PaymentAdminAuthentication(w)

(* A route: its method, its interceptors in order, and what its handler
   finds in the context. *)
Route(method, chain, needs) == [method |-> method, chain |-> chain, needs |-> needs]

RouteNames ==
  {"create-payment", "get-payment", "get-payment-details", "check-payment-status",
   "create-refund", "get-refunds", "update-refund", "process-pending-refunds",
   "patch-payment", "create-external-payment-journey", "get-refund-statuses",
   "bulk-refund-govpay", "bulk-refund-paypal", "process-bulk-refund",
   "handle-govpay-callback", "handle-paypal-callback"}

(* Mutant: the two interceptors of the journey change places. *)
RoutesInOtherOrder ==
  [r \in RouteNames |->
     IF r = "create-external-payment-journey"
     THEN Route("POST", <<"payment", "user">>, {"payment-session"})
     ELSE Route("GET", <<>>, {})]

Routes ==
  [r \in RouteNames |->
     CASE r = "create-payment"      -> Route("POST", <<"oauth2", "user">>, {"user-details"})
       [] r = "get-payment"         -> Route("GET", <<"user", "payment">>, {"payment-session"})
       [] r = "get-payment-details" -> Route("GET", <<"user", "internal", "payment">>, {"payment-session"})
       [] r \in {"check-payment-status", "process-pending-refunds"}
                                    -> Route("POST", <<"internal">>, {})
       [] r = "create-refund"       -> Route("POST", <<"elevated">>, {})
       [] r = "update-refund"       -> Route("PATCH", <<"elevated">>, {})
       [] r = "patch-payment"       -> Route("PATCH", <<"user", "payment">>, {"payment-session"})
       [] r = "create-external-payment-journey"
                                    -> Route("POST", <<"user", "payment">>, {"payment-session"})
       [] r \in {"bulk-refund-govpay", "bulk-refund-paypal"}
                                    -> Route("POST", <<"user", "admin">>, {"user-id"})
       [] r = "process-bulk-refund" -> Route("POST", <<"user", "admin">>, {})
       [] r = "get-refund-statuses" -> Route("GET", <<"user", "admin">>, {})
       [] OTHER                     -> Route("GET", <<>>, {})]

-----------------------------------------------------------------------------
(* The request comes as far as place k of the chain: every interceptor
   before it passed, with the context it reads. *)
Context(r, k) == UNION {Adds(Routes[r].chain[i]) : i \in 1 .. k - 1}

Needed(r, k) ==
  IF k <= Len(Routes[r].chain) THEN Reads(Routes[r].chain[k]) ELSE Routes[r].needs

Reaches(r, k, w, owner, lookup) ==
  \A i \in 1 .. k - 1 :
    /\ Needed(r, i) \subseteq Context(r, i)
    /\ Passes(Routes[r].chain[i], w, Routes[r].method, owner, lookup)

(* The handler runs with all it reads. *)
Admitted(r, w, owner, lookup) ==
  LET k == Len(Routes[r].chain) + 1 IN
  Reaches(r, k, w, owner, lookup) /\ Needed(r, k) \subseteq Context(r, k)

(* Somewhere on the way the context is not what is read from it: a 500. *)
Loses(r, w, owner, lookup) ==
  \E k \in 1 .. Len(Routes[r].chain) + 1 :
    Reaches(r, k, w, owner, lookup) /\ ~(Needed(r, k) \subseteq Context(r, k))
=============================================================================
