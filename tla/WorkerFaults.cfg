SPECIFICATION Spec
CONSTANTS
  Runs = {r1}
  Uploaded = {}
  Workers = {w1, w2}
  MaxAttempts = 2
  Nobody = Nobody
  Sync = Sync
  Units = {u1}
  Group <- OneGroup
  Budget <- MCBudget
  crash = 1
  stop = 1
  db = 1
  stall = 1
  cancel = 1
INVARIANT TypeOK
INVARIANT LeaseHolderIsNewest
INVARIANT SuccessAnnounced
INVARIANT ClaimInv
PROPERTY NoAttemptAfterCancel
PROPERTY FinishedStaysFinished
PROPERTY ImplementsLifecycle
SYMMETRY Symmetry
