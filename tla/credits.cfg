SPECIFICATION CreditsSpec
CONSTANTS
  u1 = u1
  u2 = u2
  c1 = c1
  c2 = c2
  b1 = b1
  Users = {u1, u2}
  Tasks = {}
  Codes = {c1, c2}
  Batches = {b1}
  BatchOf <- OneBatch
  Amount <- TwoCredits
  RedeemKeys = {k1, k2}
  Adjustments = {a1}
  Deltas <- UpAndDown
  Bonuses = {0, 1, 2}
  Nobody = Nobody
SYMMETRY Symmetric
INVARIANTS
  LedgerProjection
  CodesRedeemedOnce
  BonusOnlyAtOpening
