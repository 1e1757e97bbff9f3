\* One payment with two refunds: the job and the refund it never asks about.
SPECIFICATION FairSpec
CONSTANTS
  Payments = {c1}
  NoPayment = NoPayment
  Cards = {c1}
  References = {a, b}
  NoReference = NoReference
  Amount = 2
  Amounts = {1}
  Sandbox = FALSE
  RefundBatchSize = 2
  Outcomes = {"success", "error"}
  Slots = {s1}
  Ops = {"create", "pending"}
  Files <- NoFiles
  MaxRefunds = 2
  MaxRequests = 2
  MaxFaults = 0
CHECK_DEADLOCK FALSE
PROPERTY EachPendingIsChecked
