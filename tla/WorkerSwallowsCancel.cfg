SPECIFICATION Spec
CONSTANTS
  Runs = {r1}
  Uploaded = {}
  Workers = {w1, w2}
  MaxAttempts = 2
  Nobody = Nobody
  Sync = Sync
  Units = {u1}
  Group <- OneGroup
  Budget <- MCBudget
  crash = 0
  stop = 0
  db = 0
  stall = 0
  cancel = 1
INVARIANT ObservedCancelPreventsSuccess
SYMMETRY Symmetry
