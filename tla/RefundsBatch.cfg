\* The job with less room in its batch than there are sessions, one request at a time.
SPECIFICATION FairSpec
CONSTANTS
  Payments = {c1, c2, c3}
  NoPayment = NoPayment
  Cards = {c1, c2, c3}
  References = {a}
  NoReference = NoReference
  Amount = 2
  Amounts = {1}
  Sandbox = FALSE
  RefundBatchSize = 2
  Outcomes = {"success", "error"}
  Slots = {s1}
  Ops = {"create", "update", "pending"}
  Files <- NoFiles
  MaxRefunds = 3
  MaxRequests = 4
  MaxFaults = 1
CHECK_DEADLOCK FALSE
PROPERTIES RefundIsRecorded RefundIsAnnounced
