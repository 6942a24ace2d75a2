SPECIFICATION Spec
INVARIANTS TypeOK BooksBalance OnlySettlementsFallShort StrictStaysOnSubscription DebtOnlyAfterAdmission
CONSTANTS
  s1 = s1  s2 = s2
  Session = {s1, s2}
  Preferences = {"wallet_first", "subscription_first"}
  TokenQuotaUses = {TRUE}
  WalletInit = 3
  TokenInit = 3
  SubTotal = 2
  TokenUnlimited = FALSE
  Overflow = {"strict", "overflow"}
  TrustQuota = 2
  MaxQuota = 2
  RefundAttempts = 2
  MaxFaults = 1
  MaxResets = 1
SYMMETRY SessionSymmetry
CHECK_DEADLOCK FALSE
