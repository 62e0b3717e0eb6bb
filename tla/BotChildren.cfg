SPECIFICATION FairSpec
CONSTANTS
  i1 = i1
  r1 = r1
  r2 = r2
  r3 = r3
  r4 = r4
  s1 = s1
  payments = payments
  search = search
  unit = unit
  f1 = f1
  w1 = w1
  w2 = w2
  DayLength = 1
  NoCheck = NoCheck
  NoOwner = NoOwner
  NoTime = NoTime
  NoEvent = NoEvent
  Malformed = Malformed
  NoFile = NoFile
  NotAMapping = NotAMapping
  Unset = Unset
  Mistyped = Mistyped
  NoConfig = NoConfig
  NoTask = NoTask
  Unassigned = search
  Installations <- MCInstallations
  Repos <- MCRepos
  Shas <- MCShas
  Names <- MCNames
  Teams <- MCTeams
  Checks <- MCChecks
  Branches <- MCBranches
  Files <- MCFiles
  CodeownersOf <- MCCodeownersOf
  Workers = {w1, w2}
  Pulls <- OnePull
  Heads <- OneFile
  Activity <- Strict
  ConfigOf <- MCConfigOf
  MaxTriggers = 3
  MaxRaises = 1
  MaxTime = 1
INVARIANTS TypeOK CommentsBounded CommentFresh QuotesOwnRepo
PROPERTIES TightIsTold
\* No webhook is left to arrive: the system rests.
CHECK_DEADLOCK FALSE
