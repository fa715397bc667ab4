SPECIFICATION FairSpec
CONSTANTS
  Ids = {s1, s2}
  t1 = t1
  t2 = t2
  Changes1 = 2
  Changes2 = 0
  Traces <- MCTraces
  MaxVersion <- MCMaxVersion
  Watchers = {w1}
  None = None
  Gone = Gone
  MaxWatchers = 1
  MaxLives = 1
  MaxGens = 2
  Threads = 2
INVARIANTS TypeOK WatchersConverge
PROPERTIES ReadersCatchUp
