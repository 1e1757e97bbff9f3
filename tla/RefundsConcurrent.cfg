\* Clients, jobs and uploads at once, on a card payment and a PayPal payment.
SPECIFICATION Spec
CONSTANTS
  Payments = {card, paypal}
  NoPayment = NoPayment
  Cards = {card}
  References = {a, b}
  NoReference = NoReference
  Amount = 2
  Amounts = {0, 1, 2}
  Sandbox = FALSE
  RefundBatchSize = 2
  Outcomes = {"success", "error"}
  Slots = {s1, s2}
  Ops = {"create", "update", "pending", "upload", "bulk"}
  Files <- SingleFiles
  MaxRefunds = 2
  MaxRequests = 4
  MaxFaults = 1
SYMMETRY Symmetry
CHECK_DEADLOCK FALSE
INVARIANTS TypeOK RefundsAreOwn SuccessIsTrue NeverTooMuch BulkIsGrounded
INVARIANTS CardRefundsAreStored ReferencesAreUnique IInv AloneInv
PROPERTIES KeepsPromise SuccessStays RetoldWhileOthersWait
