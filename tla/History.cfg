SPECIFICATION Spec
CONSTANTS
  i1 = i1
  i2 = i2
  r1 = r1
  s1 = s1
  s2 = s2
  payments = payments
  unit = unit
  lint = lint
  NoCheck = NoCheck
  NoOwner = NoOwner
  NoFile = NoFile
  NotAMapping = NotAMapping
  Unset = Unset
  Mistyped = Mistyped
  NoConfig = NoConfig
  NoAnswer = NoAnswer
  Unassigned = payments
  Installations <- MCInstallations
  Repos <- MCRepos
  Shas <- MCShas
  Names <- MCNames
  Teams <- MCNames
  Checks <- MCChecks
  DayLength = 2
  Arrivals <- MCArrivals
  Configs <- MCConfigs
  MaxTime = 4
  MaxWrites = 4
INVARIANTS TypeOK MemoryAgrees
PROPERTIES AnswerAddsUp DaysInWindow
