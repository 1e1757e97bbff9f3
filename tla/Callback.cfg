\* The payer returns once GOV.UK Pay has finished; requests overlap and fail.
SPECIFICATION FairSpec
CONSTANTS
  Payments = {p1}
  NoPayment = NoPayment
  Refs = {j1}
  NoRef = NoRef
  Slots = {s1, s2}
  Ops = {"patch", "journey", "govpay", "status-check"}
  OfferedMethods = {"credit-card", "PayPal"}
  ReturnStates = {"success", "rejected", "cancelled"}
  GovPayOutcomes = {"success", "rejected", "cancelled"}
  ExpiryTime = 0
  GovPayExpiryTime = 0
  MaxCheckingAge = 2
  MaxAge = 1
  MaxRequests = 5
  MaxFaults = 2
CHECK_DEADLOCK FALSE
PROPERTY SuccessIsRecorded
