\* One request at a time: what can still go wrong without overlaps.
SPECIFICATION Spec
CONSTANTS
  Payments = {p1}
  NoPayment = NoPayment
  Refs = {j1, j2}
  NoRef = NoRef
  Slots = {s1}
  Ops = {"patch", "journey", "govpay", "paypal", "status-check"}
  OfferedMethods = {"credit-card", "PayPal", "paypal"}
  ReturnStates = {"created", "started", "success", "rejected", "lapsed", "cancelled", "withdrawn", "broken", "approved", "captured", "declined", "held"}
  GovPayOutcomes = {"success", "rejected", "lapsed", "cancelled", "withdrawn", "broken"}
  ExpiryTime = 0
  GovPayExpiryTime = 0
  MaxCheckingAge = 2
  MaxAge = 2
  MaxRequests = 7
  MaxFaults = 2
CHECK_DEADLOCK FALSE
SYMMETRY Symmetry
INVARIANTS
  CaptureIsRecorded
  NewsAgrees
  AloneInv
PROPERTY PaidIsFinal
