\* An update of a refund that GOV.UK Pay has not settled.
SPECIFICATION Spec
CONSTANTS
  Payments = {c1}
  NoPayment = NoPayment
  Cards = {c1}
  References = {a}
  NoReference = NoReference
  Amount = 2
  Amounts = {1}
  Sandbox = FALSE
  RefundBatchSize = 2
  Outcomes = {"success", "error"}
  Slots = {s1}
  Ops = {"create", "update"}
  Files <- NoFiles
  MaxRefunds = 2
  MaxRequests = 2
  MaxFaults = 0
CHECK_DEADLOCK FALSE
PROPERTY OnlySuccessIsSaved
