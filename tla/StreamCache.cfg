CONSTANTS
  Workers = {w1, w2}
  aaa = aaa
  aaaBBB = aaaBBB
  pathA = pathA
  pathB = pathB
  Paths = {pathA, pathB}
  Loggers = {aaa, aaaBBB}
  LoggerOf <- MCLoggerOf
  Mentions <- MCMentions
  Appenders = {"file", "remote"}
  Retry = 1
  MaxLogs = 3
  MaxFiles = 2
SPECIFICATION FairSpec
INVARIANTS TypeOK ResultIsTrue NoForeignFile StaleOnlyIfRecreated ForgottenAreGone
PROPERTY CallReturns
