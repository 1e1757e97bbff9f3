\* One payment, one request at a time; its costs may change between any two steps.
SPECIFICATION FairSpec
CONSTANTS
  Payments = {p1}
  NoPayment = NoPayment
  Slots = {s1}
  Users <- MCUsers
  NoUser = NoUser
  Callers <- MCCallers
  OtherClasses <- MCOtherClasses
  RepeatsFirstByte <- MCRepeatsFirstByte
  Offers <- MCOffers
  MaxRequests = 4
  MaxCharges = 2
  MaxChanges = 2
CHECK_DEADLOCK FALSE
INVARIANTS
  TypeOK
  ChargedAsAgreed
  ChargeCoversItsCosts
  EachCostInItsAccount
  PaidInFull
  OnlyOwnersPay
  ContextIsThere
  UnrecordedCaptureMeansDrift
PROPERTY DriftOnlyDelays
