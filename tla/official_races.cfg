SPECIFICATION Spec
CONSTANTS
  u1 = u1
  t1 = t1
  t2 = t2
  w1 = w1
  w2 = w2
  a1 = a1
  Users = {u1}
  Tasks = {t1, t2}
  Codes = {}
  Batches = {}
  BatchOf <- NoBatch
  Amount <- NoBatch
  RedeemKeys = {}
  Adjustments = {a1}
  Deltas <- OneGrant
  Bonuses = {0}
  Nobody = Nobody
  Owner <- OneOwner
  Prices = {2}
  Workers = {w1, w2}
  Capacity = 1
  DrainLimit = 1
  NoTask = NoTask
  MayCrash = TRUE
  MayLoseCommit = TRUE
SYMMETRY Symmetric
INVARIANTS
  TypeOK
  ReservedIsHeld
  SettledOnce
  StatusMatchesBilling
  ExclusiveExecution
  ResultIsPaid
PROPERTIES
  SettlementIsFinal
  ImplementsHolds
