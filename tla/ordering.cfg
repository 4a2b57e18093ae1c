SPECIFICATION FairSpec

CONSTANTS
  c1 = c1
  c2 = c2
  server = server
  k1 = k1
  none = none
  Clients = {c1}
  Server = server
  Coupons = {k1}
  NoCoupon = none
  Users = {1}
  Totals = {1, 3}
  TopUps = {2}
  Kind <- AmountKind
  Value <- TwoOff
  MinOrder <- NoMinimum
  MaxUses <- OneUse
  ApiAmounts = {1}
  CouponsChange = FALSE
  StatementsFail = FALSE
  ProcessesCrash = FALSE
  MaxOrders = 3
  MaxLedger = 2

INVARIANTS
  LedgerExplainsBalance
  WalletOrdersSettled
  CouponOveruseBounded

PROPERTIES
  WalletOrderSettles

CHECK_DEADLOCK FALSE
