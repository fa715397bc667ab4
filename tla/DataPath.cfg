CONSTANTS
  Parts = {"conversations", "receiver", "files", "scoring", "bridge", "credentials"}
  Scenarios <- AllScenarios
  Exports <- MCExportsSet
  MaxDepth = 1
  MaxRequest = 3
  MaxCompressed = 2
  MaxDecompressed = 2
  MaxMembers = 2
  MaxSends = 2
  Files <- MCFiles
  Formats = {"", "otlp-json", "jaeger-json"}
  MaxSaves = 2
  Jobs <- MCJobsSet
  Recordings <- MCRecordings
  CredentialCases <- MCCredentialCases
SPECIFICATION DataPathSpec
INVARIANTS
  ArrivalIsForgotten
  EveryCallOnce
  ResultsAnswerTheirCalls
  
  
  
PROPERTIES
  LateLogsOnlyFill
CHECK_DEADLOCK FALSE
