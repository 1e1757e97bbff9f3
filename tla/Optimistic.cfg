\* The payer returns while GOV.UK Pay still says "created", and then it succeeds.
SPECIFICATION FairSpec
CONSTANTS
  Payments = {p1}
  NoPayment = NoPayment
  Refs = {j1}
  NoRef = NoRef
  Slots = {s1}
  Ops = {"patch", "journey", "govpay", "status-check"}
  OfferedMethods = {"credit-card"}
  ReturnStates = {"created"}
  GovPayOutcomes = {"success"}
  ExpiryTime = 0
  GovPayExpiryTime = 0
  MaxCheckingAge = 2
  MaxAge = 1
  MaxRequests = 3
  MaxFaults = 0
CHECK_DEADLOCK FALSE
PROPERTY CreatedIsProcessedLater
