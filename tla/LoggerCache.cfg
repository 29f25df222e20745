CONSTANTS
  plain = plain
  module = module
  app1 = app1
  Bases = {b1, b2}
  DefaultBase = b1
  Loggers <- MCLoggers
  DefaultLogger <- Plain
  Disting = {TRUE, FALSE}
SPECIFICATION Spec
INVARIANTS TypeOK RightLogger BaseOfFirstUse PathReady NoAccessOnlyIfRefused
