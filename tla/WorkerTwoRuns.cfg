SPECIFICATION FairSpec
CONSTANTS
  Runs = {r1, r2}
  Uploaded = {r2}
  Workers = {w1, w2}
  MaxAttempts = 2
  Nobody = Nobody
  Sync = Sync
  Units = {u1}
  Group <- OneGroup
  Budget <- MCBudget
  crash = 0
  stop = 0
  db = 1
  stall = 0
  cancel = 0
INVARIANT OneExecutionPerWorker
 
