SPECIFICATION Spec
CONSTANTS
  Ids = {s1}
  t1 = t1
  t2 = t2
  Changes1 = 2
  Changes2 = 1
  Traces <- MCTraces
  MaxVersion <- MCMaxVersion
  Watchers = {w1}
  None = None
  Gone = Gone
  MaxWatchers = 1
  MaxLives = 1
  MaxGens = 2
  Threads = 2
INVARIANTS SettledViewsAreCurrent
 
