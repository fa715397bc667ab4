SPECIFICATION Spec
CONSTANTS
  Runs = {r1}
  Uploaded = {}
  Workers = {w1, w2}
  MaxAttempts = 3
  Nobody = Nobody
  Sync = Sync
  Units = {u1, u2}
  Group <- OneGroup
  Budget <- MCBudget
  crash = 2
  stop = 0
  db = 0
  stall = 0
  cancel = 0
INVARIANTS OneExecutor  EmittedIsStored
PROPERTIES OutcomeIsOwned
SYMMETRY Symmetry
