SPECIFICATION Spec

CONSTANTS
  c1 = c1
  c2 = c2
  server = server
  k1 = k1
  none = none
  Clients = {c1, c2}
  Server = server
  Coupons = {k1}
  NoCoupon = none
  Users = {1}
  Totals = {2}
  TopUps = {2}
  Kind <- AmountKind
  Value <- OneOff
  MinOrder <- Minimum2
  MaxUses <- OneUse
  ApiAmounts = {}
  CouponsChange = TRUE
  StatementsFail = TRUE
  ProcessesCrash = TRUE
  MaxOrders = 3
  MaxLedger = 2

SYMMETRY TwoClients

INVARIANTS
  NoOverdraft
  CouponWithinLimit
  PaidOrderIsWhole
  OnePaymentPerOrder
  AckedOrderIsGood
  UsesAreBacked

CHECK_DEADLOCK FALSE
