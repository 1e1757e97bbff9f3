\* Files of several payments, sent again and again, and the job that works them off.
SPECIFICATION BulkFairSpec
CONSTANTS
  Payments = {c1, c2, paypal}
  NoPayment = NoPayment
  Cards = {c1, c2}
  References = {a}
  NoReference = NoReference
  Amount = 2
  Amounts = {1}
  Sandbox = TRUE
  RefundBatchSize = 2
  Outcomes = {"success", "error"}
  Slots = {s1, s2}
  Ops = {"create", "upload", "bulk"}
  Files <- BatchFiles
  MaxRefunds = 4
  MaxRequests = 3
  MaxFaults = 1
CHECK_DEADLOCK FALSE
INVARIANT BulkIsGrounded
 
