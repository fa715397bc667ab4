CONSTANTS
  Parts = {"migrator", "evaluators", "stream", "sinks", "watch", "paging", "sdk", "server", "memory", "sessions"}
  p1 = p1
  p2 = p2
  Procs = {p1, p2}
  Latest = 3
  Downs = {1, 2, 3}
  Ops = {"up", "down", "force", "status"}
  MaxCalls = 3
  MaxCrashes = 1
  None = None
  e1 = e1
  e2 = e2
  ra = ra
  rb = rb
  Evals = {e1, e2}
  Refs = {ra, rb}
  MaxPublished = 2
  MaxCancels = 1
  MaxDeaths = 1
  Nobody = Nobody
  g1 = g1
  g2 = g2
  Groups = {g1, g2}
  Metrics = {"m1", "m2"}
  MaxTraces = 1
  MaxEvals = 2
  MaxRaises = 1
  Webhooks = {"hook"}
  Writers = {"file"}
  Partials = 1
  MaxPosts = 2
  MaxLate = 1
  r1 = r1
  r2 = r2
  ResultIds = {r1, r2}
  MaxWrites = 2
  MaxAttempts = 2
  ListIds = {1, 2, 3}
  MaxStamp = 3
  PageSize = 1
  Sessions = {1, 2}
  Contexts = {1, 2}
  Endpoints = {1, 2}
  TraceIds = {1, 2}
  SpanIds = {1, 2}
  TraceMapSize = 1
  NoSession = NoSession
  Backends = {"memory", "postgres", "other"}
  Timeouts = {0, 1}
  DefaultBudget = 3
  MaxDelay = 2
  MaxOutages = 1
  RunIds = {1, 2}
  RecordedIds = {2}
  Specs = {1, 2}
  Loops = {1, 2}
  MaxTries = 2
  Bases <- MCBases
  LiveTraces = {1, 2}
  MaxLive = 2
  MaxContent = 1
  MaxBorn = 3
  EvalSlots = 1
  MaxBundle = 2
  MaxPrepares = 2
SPECIFICATION ServicesSpec
INVARIANTS
  ServicesTypeOK
  
  
  
  ReadersMissNothing
  SessionsAreComplete

  
CHECK_DEADLOCK FALSE
