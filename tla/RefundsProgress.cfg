\* The job runs again and again beside clients, two requests at once, a batch of one
\* for two card payments.
SPECIFICATION FairSpec
CONSTANTS
  Payments = {c1, c2}
  NoPayment = NoPayment
  Cards = {c1, c2}
  References = {a, b}
  NoReference = NoReference
  Amount = 2
  Amounts = {1}
  Sandbox = FALSE
  RefundBatchSize = 1
  Outcomes = {"success"}
  Slots = {s1, s2}
  Ops = {"create", "update", "pending"}
  Files <- NoFiles
  MaxRefunds = 2
  MaxRequests = 3
  MaxFaults = 1
CHECK_DEADLOCK FALSE
PROPERTIES RefundIsRecorded RefundIsAnnounced
