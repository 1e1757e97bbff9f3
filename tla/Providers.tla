----------------------------- MODULE Providers -----------------------------
(***************************************************************************)
(* The two payment providers, as far as the service can tell their         *)
(* payments apart, and what the service concludes from their answers.      *)
(***************************************************************************)
EXTENDS PaymentStore

(***************************************************************************)
(* Every payment a provider holds goes through "reserved" first: it exists *)
(* but its address has not been given to the payer.  "started" stands for  *)
(* the unfinished states of a GOV.UK Pay payment after "created".          *)
(***************************************************************************)
GovPayFailures == {"rejected", "lapsed", "cancelled", "withdrawn", "broken"}
GovPayStates   == {"reserved", "created", "started", "success"} \cup GovPayFailures

(* "captured", "declined" and "held" are the answers to a capture:
   COMPLETED, DECLINED and anything else. *)
CaptureStates == {"captured", "declined", "held"}
PayPalStates  == {"reserved", "created", "approved"} \cup CaptureStates

ProviderPayment ==
  [pid: Payments, by: {"govpay"}, state: GovPayStates]
    \cup [pid: Payments, by: {"paypal"}, state: PayPalStates]
    \cup {[pid |-> NoPayment, by |-> "none", state |-> "none"]}

NotMade == [pid |-> NoPayment, by |-> "none", state |-> "none"]

(* The payer's money is with the provider. *)
MoneyTaken(x) == x.state \in {"success", "captured"}

(***************************************************************************)
(* GOV.UK Pay's answer to GET on the stored address.  An address that is   *)
(* not one of its payments (a PayPal order) gets an error document, which  *)
(* callGovPay decodes into a response with every field empty: it does not  *)
(* look at the HTTP status.                                                *)
(***************************************************************************)
Answer(finished, status, code) == [finished |-> finished, status |-> status, code |-> code]

callGovPay(x) ==
  CASE x.by # "govpay"                   -> Answer(FALSE, "", "")
    [] x.by = "govpay" /\ x.state \in {"reserved", "created"}
                                         -> Answer(FALSE, "created", "")
    [] x.by = "govpay" /\ x.state = "started"   -> Answer(FALSE, "started", "")
    [] x.by = "govpay" /\ x.state = "success"   -> Answer(TRUE, "success", "")
    [] x.by = "govpay" /\ x.state = "rejected"  -> Answer(TRUE, "failed", "P0010")
    [] x.by = "govpay" /\ x.state = "lapsed"    -> Answer(TRUE, "failed", "P0020")
    [] x.by = "govpay" /\ x.state = "cancelled" -> Answer(TRUE, "failed", "P0030")
    [] x.by = "govpay" /\ x.state = "withdrawn" -> Answer(TRUE, "cancelled", "P0040")
    [] OTHER                                    -> Answer(TRUE, "error", "P0050")

(* The callback's reading of an answer: the status to store, the response
   type, and whether the provider's id comes with it. *)
Verdict(status, type, named) == [status |-> status, type |-> type, named |-> named]

(* Mutants: every finished payment counts as paid; the answer to "created"
   is marked successful. *)
CheckFinishedOnly(a) ==
  CASE a.finished                          -> Verdict("paid", "Success", TRUE)
    [] ~a.finished /\ a.status = "created" -> Verdict("paid", "Created", TRUE)
    [] OTHER                               -> Verdict("failed", "Error", FALSE)

CheckTrustsCreated(a) ==
  CASE a.finished /\ a.status = "success"  -> Verdict("paid", "Success", TRUE)
    [] a.finished /\ a.code = "P0030"      -> Verdict("cancelled", "Success", FALSE)
    [] ~a.finished /\ a.status = "created" -> Verdict("paid", "Success", TRUE)
    [] OTHER                               -> Verdict("failed", "Error", FALSE)

CheckPaymentProviderStatus(a) ==
  CASE a.finished /\ a.status = "success"  -> Verdict("paid", "Success", TRUE)
    [] a.finished /\ a.code = "P0030"      -> Verdict("cancelled", "Success", FALSE)
    [] ~a.finished /\ a.status = "created" -> Verdict("paid", "Created", TRUE)
    [] OTHER                               -> Verdict("failed", "Error", FALSE)

(* Mutant: the provider's own word is stored. *)
RawPaymentStatus(a) == a.status

(* The status check's reading of a finished answer.  (What GOV.UK Pay codes
   P0040 and P0050 it calls cancelled and error, not failed, so that the words
   the code has for a failure with these are never used.) *)
GetPaymentStatus(a) ==
  CASE a.status = "success" -> "paid"
    [] a.status = "failed" /\ a.code = "P0010" -> "failed_payment-method-rejected"
    [] a.status = "failed" /\ a.code = "P0020" -> "failed_payment-expired"
    [] a.status = "failed" /\ a.code = "P0030" -> "failed_payment-cancelled-by-user"
    [] a.status = "cancelled" -> "cancelled"
    [] OTHER -> "error"

(* The status an answer to a capture stands for in HandlePayPalCallback. *)
CaptureStatus(state) ==
  CASE state = "captured" -> "paid"
    [] state = "declined" -> "no-funds"
    [] OTHER -> "failed"
=============================================================================
