SPECIFICATION FairSpec
CONSTANTS
  i1 = i1
  r1 = r1
  s1 = s1
  s2 = s2
  s3 = s3
  payments = payments
  search = search
  unassigned = unassigned
  alice = alice
  unit = unit
  lint = lint
  f1 = f1
  f2 = f2
  w1 = w1
  w2 = w2
  DayLength = 24
  NoCheck = NoCheck
  NoOwner = NoOwner
  NoTime = NoTime
  NoEvent = NoEvent
  Malformed = Malformed
  NoFile = NoFile
  NotAMapping = NotAMapping
  Unset = Unset
  Mistyped = Mistyped
  NoConfig = NoConfig
  Unassigned = unassigned
  Installations <- MCInstallations
  Repos <- MCRepos
  Shas <- MCShas
  Names <- MCNames
  Teams <- MCTeams
  Checks <- MCChecks
  Branches <- MCBranches
  Files <- MCFiles
  CommitFiles <- MCCommitFiles
  CorrelationWindow = 24
  Workers = {w1, w2}
  Payloads <- TwoChecks
  SentAfter <- AtAnyTime
  CodeownersVersions <- TeamsOnly
  ConfigFiles <- NoFileOnly
  MaxDeliveries = 2
  MaxRaises = 1
INVARIANTS RowsJustified KeptCharges ExcusedFailures
PROPERTIES ImplementsLedger RedeliveryRepairs
\* GitHub has nothing more to deliver: the system rests.
CHECK_DEADLOCK FALSE
