SPECIFICATION FairSpec
CONSTANTS
  t1 = t1
  t2 = t2
  t3 = t3
  Traces <- MCTraces
  Spans <- MCSpans
  Logs <- MCLogs
  Attr <- MCAttr
  Deployments = {"owners"}
  Finishing = {"owners"}
  Limits <- MCLimits
  SpanUnits <- MCSpanUnits
  LogUnits <- MCLogUnits
  Bundles <- MCBundles
  Keys <- MCKeys
  Name <- MCName
  Strength <- MCStrength
  Splitting <- MCSplitting
  SessionIds <- MCSessionIds
  NoKey = NoKey
  NoSession = NoSession
  None = None
PROPERTIES SessionsFinish
