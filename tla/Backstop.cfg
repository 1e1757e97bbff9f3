\* The payers never come back: the status check alone closes their payments.
SPECIFICATION FairSpec
CONSTANTS
  Payments = {p1, p2}
  NoPayment = NoPayment
  Refs = {j1, j2}
  NoRef = NoRef
  Slots = {s1}
  Ops = {"patch", "journey", "status-check"}
  OfferedMethods = {"credit-card", "PayPal"}
  ReturnStates = {}
  GovPayOutcomes = {"success", "rejected"}
  ExpiryTime = 0
  GovPayExpiryTime = 0
  MaxCheckingAge = 2
  MaxAge = 1
  MaxRequests = 5
  MaxFaults = 2
CHECK_DEADLOCK FALSE
PROPERTY SuccessIsAnnounced
