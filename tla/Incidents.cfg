SPECIFICATION FairSpec
CONSTANTS
  i1 = i1
  i2 = i2
  r1 = r1
  s1 = s1
  s2 = s2
  s3 = s3
  payments = payments
  search = search
  unassigned = unassigned
  alice = alice
  f1 = f1
  f2 = f2
  w1 = w1
  w2 = w2
  DayLength = 24
  NoCheck = NoCheck
  NoOwner = NoOwner
  NoTime = NoTime
  NoEvent = NoEvent
  Malformed = Malformed
  NoFile = NoFile
  NotAMapping = NotAMapping
  Unset = Unset
  Mistyped = Mistyped
  NoConfig = NoConfig
  NoTenant = NoTenant
  NoTask = NoTask
  Unassigned = unassigned
  Installations <- MCInstallations
  Repos <- MCRepos
  Shas <- MCShas
  Names <- MCNames
  Teams <- MCTeams
  Checks = {unit}
  Branches = {main}
  Files <- MCFiles
  Lifecycle <- MCLifecycle
  CommitsBetween <- MCCommitsBetween
  CommitFiles <- MCCommitFiles
  CodeownersVersions <- TeamsOrNobody
  ConfigFiles <- SearchOrMistyped
  Reports <- MCReports
  Moments = {20}
  Workers = {w1, w2}
  MaxHooks = 2
  MaxRestarts = 1
  MaxReports = 2
  MaxRaises = 1
INVARIANTS TypeOK OwnTokenOnly StatusFollows IncidentRowsJustified WholeRangeCharged
PROPERTIES TokenStable ReportRepairs
\* Nobody has anything more to report: the system rests.
CHECK_DEADLOCK FALSE
