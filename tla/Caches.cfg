SPECIFICATION FairSpec
CONSTANTS
  i1 = i1
  r1 = r1
  v1 = v1
  v2 = v2
  NoToken = NoToken
  NoInstallation = NoInstallation
  Absent = Absent
  NotRead = NotRead
  NoRules = NoRules
  NoCall = NoCall
  Installations <- MCInstallations
  Repos <- MCRepos
  InstallationOf <- MCInstallationOf
  Contents <- MCContents
  Layouts <- EditedOrMoved
  Callers = {c1, c2}
  Lifetimes = {2}
  Skew = 1
  TTL = 2
  MaxTime = 3
  MaxPushes = 1
INVARIANTS TypeOK OneFetch StaleNoLongerThanTTL
PROPERTIES FetchOnlyWhenStale CachedTokensLast CallsReturn
