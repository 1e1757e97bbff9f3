\* One session, two requests at a time, every endpoint, two journeys.
SPECIFICATION Spec
CONSTANTS
  Payments = {p1}
  NoPayment = NoPayment
  Refs = {j1, j2}
  NoRef = NoRef
  Slots = {s1, s2}
  Ops = {"patch", "journey", "govpay", "paypal", "status-check"}
  OfferedMethods = {"credit-card", "PayPal"}
  ReturnStates = {"created", "started", "success", "rejected", "cancelled", "approved", "captured", "declined"}
  GovPayOutcomes = {"success", "rejected", "cancelled"}
  ExpiryTime = 0
  GovPayExpiryTime = 0
  MaxCheckingAge = 2
  MaxAge = 2
  MaxRequests = 5
  MaxFaults = 1
SYMMETRY Symmetry
CHECK_DEADLOCK FALSE
INVARIANTS
  TypeOK
  PendingIsUntouched
  NamesAreOwn
  PaidHasGrounds
  AnnouncedHasGrounds
  IInv
PROPERTY KeepsPromise
