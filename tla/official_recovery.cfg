SPECIFICATION FairSpec
CONSTANTS
  u1 = u1
  t1 = t1
  t2 = t2
  w1 = w1
  w2 = w2
  a1 = a1
  Users = {u1}
  Tasks = {t1, t2}
  Codes = {}
  Batches = {}
  BatchOf <- NoBatch
  Amount <- NoBatch
  RedeemKeys = {}
  Adjustments = {a1}
  Deltas <- OneGrant
  Bonuses = {0}
  Nobody = Nobody
  Owner <- OneOwner
  Prices = {1}
  Workers = {w1}
  Capacity = 2
  DrainLimit = 1
  NoTask = NoTask
  MayCrash = TRUE
  MayLoseCommit = FALSE
INVARIANTS
  CapturedHasResult
PROPERTIES
  ClaimedSettles
  QueuedIsTaken
  RecoveryReleases
