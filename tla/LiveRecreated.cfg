SPECIFICATION Spec
CONSTANTS
  Ids = {s1, s2}
  t1 = t1
  t2 = t2
  Changes1 = 1
  Changes2 = 0
  Traces <- MCTraces
  MaxVersion <- MCMaxVersion
  Watchers = {w1}
  None = None
  Gone = Gone
  MaxWatchers = 1
  MaxLives = 2
  MaxGens = 2
  Threads = 2
INVARIANT SettledViewsAreCurrent
