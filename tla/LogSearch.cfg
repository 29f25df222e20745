CONSTANTS
  null = null
  anyWord = anyWord
  Settings <- MCSettings
  Servers <- MCServers
  NewValues <- MCNewValues
  NewIds <- MCNewIds
  Calls <- MCCalls
  Levels <- MCLevels
  LevelInt <- MCLevelInt
  Thresholds = {4, 8}
  Host <- MCHost
  Pid <- MCPid
  Base <- MCBase
  Logger <- MCLogger
  Uniqid <- MCUniqid
  Ambient <- MCAmbient
  Null = null
  MaxCalls = 2
  MaxRounds = 4
  Alphabet <- MCAlphabet
  Queries <- MCQueries
  AnyWord = anyWord
SPECIFICATION SearchSpec
INVARIANTS TypeOK LineIsExpanded KilledOnlyByBraces ArrayStops LevelFound PagesWhole
