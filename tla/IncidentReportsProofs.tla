------------------------- MODULE IncidentReportsProofs -------------------------
(***************************************************************************)
(* Theorems about modules Tenants and IncidentReports.  The tenants keep   *)
(* an invariant of their own, TenantInv; the task keeps IncidentInv, which *)
(* says of each child what it has still to do of its range and that the    *)
(* rest is charged.                                                        *)
(***************************************************************************)
EXTENDS IncidentReports, EventStoreProofs, MergencyConfigProofs

-------------------------------------------------------------------------------
\* Tenants.

\* A tenant's token was made for it, and what was followed of a lifecycle is of it.
TokensMatch ==
    \A i \in Installations : tenants[i] # NoTenant =>
        /\ tenants[i].api_token \in DOMAIN issued
        /\ issued[tenants[i].api_token] = i

FollowedExists ==
    \A i \in Installations : followed[i] > 0 => followed[i] \in DOMAIN Lifecycle[i]

TenantInv == TenantsTypeOK /\ TokensMatch /\ OwnTokenOnly /\ FollowedExists /\ StatusFollows

\* A tenant is not mistaken for none, and keeps its token under another status.
LEMMA TenantUpdate ==
    ASSUME NEW tenant \in Tenant, NEW s \in Status
    PROVE  /\ tenant # NoTenant
           /\ [tenant EXCEPT !.status = s] \in Tenant
           /\ [tenant EXCEPT !.status = s] # NoTenant
           /\ [tenant EXCEPT !.status = s].api_token = tenant.api_token
           /\ [tenant EXCEPT !.status = s].status = s
  BY TenantAssumption DEF Tenant

\* What a status webhook says last is the status.
Telling == {"created", "suspend", "unsuspend", "deleted"}
ToldStatus(action) == IF action = "created" THEN "active" ELSE StatusOf(action)

LEMMA StatusAfterTold ==
    ASSUME NEW i \in Installations, NEW k \in DOMAIN Lifecycle[i]
    PROVE  /\ Lifecycle[i][k] \in Telling => StatusAfter(i, k) = ToldStatus(Lifecycle[i][k])
           /\ Lifecycle[i][k] \notin Telling => StatusAfter(i, k) = StatusAfter(i, k - 1)
<1> DEFINE status == [created |-> "active", suspend |-> "suspended",
                      unsuspend |-> "active", deleted |-> "deleted"]
           told(n) == {l \in 1..n : Lifecycle[i][l] \in DOMAIN status}
           last(n) == CHOOSE l \in told(n) : \A m \in told(n) : m <= l
<1>1. \A n : StatusAfter(i, n) = status[Lifecycle[i][last(n)]]
  BY DEF StatusAfter
<1>2. DOMAIN status = Telling
  BY DEF Telling
<1>3. k \in Nat /\ k >= 1
  BY TenantAssumption
<1>4. CASE Lifecycle[i][k] \in Telling
  <2>1. k \in told(k) /\ \A m \in told(k) : m <= k
    BY <1>2, <1>3, <1>4
  <2>2. \A l \in told(k) : (\A m \in told(k) : m <= l) => l = k
    BY <1>3, <2>1
  <2>3. last(k) \in told(k) /\ \A m \in told(k) : m <= last(k)
    <3> HIDE DEF told
    <3> QED
      BY <2>1
  <2>4. last(k) = k
    BY <2>2, <2>3
  <2>5. status[Lifecycle[i][k]] = ToldStatus(Lifecycle[i][k])
    BY <1>4 DEF Telling, ToldStatus, StatusOf
  <2> QED
    BY <1>1, <1>4, <2>4, <2>5
<1>5. CASE Lifecycle[i][k] \notin Telling
  <2>1. told(k) = told(k - 1)
    BY <1>2, <1>3, <1>5
  <2> HIDE DEF told, status
  <2>2. last(k) = last(k - 1)
    BY <2>1
  <2> QED
    BY <1>1, <1>5, <2>2
<1> QED
  BY <1>4, <1>5

\* The first webhook of an installation says it was created.
LEMMA FirstCreated ==
    ASSUME NEW i \in Installations
    PROVE  1 \in DOMAIN Lifecycle[i] /\ Lifecycle[i][1] = "created"
  BY TenantAssumption

\* What a webhook does to its installation: it is created or keeps its token, and its
\* status is what the webhook says, if it says anything.
LEMMA HandleEffect ==
    ASSUME TenantsTypeOK, NEW i \in Installations, NEW action \in Actions, handle(i, action)
    PROVE  /\ \A j \in Installations \ {i} : tenants'[j] = tenants[j]
           /\ tenants' \in [Installations -> Tenant \cup {NoTenant}]
           /\ \/ issued' = issued
              \/ issued' = Append(issued, i)
           /\ tenants[i] # NoTenant =>
                /\ issued' = issued
                /\ tenants'[i] # NoTenant
                /\ tenants'[i].api_token = tenants[i].api_token
                /\ action \notin Telling => tenants'[i] = tenants[i]
           /\ tenants[i] = NoTenant /\ tenants'[i] # NoTenant =>
                /\ action = "created"
                /\ issued' = Append(issued, i)
                /\ tenants'[i].api_token = Len(issued) + 1
           /\ tenants'[i] # NoTenant /\ action \in Telling => tenants'[i].status = ToldStatus(action)
<1> USE DEF TenantsTypeOK
<1>1. CASE action = "created" /\ tenants[i] = NoTenant
  <2> DEFINE new == [status |-> "active", api_token |-> Len(issued) + 1]
  <2>1. issued' = Append(issued, i) /\ tenants' = [tenants EXCEPT ![i] = new]
    BY <1>1 DEF handle, create_or_update
  <2>2. new \in Tenant
    BY DEF Tenant, Status
  <2> QED
    BY <1>1, <2>1, <2>2 DEF Telling, ToldStatus
<1>2. CASE action = "created" /\ tenants[i] # NoTenant
  <2>1. issued' = issued /\ tenants' = [tenants EXCEPT ![i].status = "active"]
    BY <1>2 DEF handle, create_or_update
  <2>2. tenants[i] \in Tenant /\ "active" \in Status
    BY <1>2 DEF Status
  <2>3. tenants'[i] = [tenants[i] EXCEPT !.status = "active"]
    BY <2>1
  <2>4. /\ tenants'[i] \in Tenant
        /\ tenants'[i] # NoTenant
        /\ tenants'[i].api_token = tenants[i].api_token
        /\ tenants'[i].status = "active"
    BY <2>2, <2>3, TenantUpdate
  <2> QED
    BY <1>2, <2>1, <2>4 DEF Telling, ToldStatus
<1>3. CASE action \in Transitions
  <2>1. action # "created" /\ action \in Telling /\ StatusOf(action) \in Status
    BY <1>3 DEF Transitions, Telling, StatusOf, Status
  <2>2. /\ issued' = issued
        /\ tenants' = IF tenants[i] = NoTenant THEN tenants
                      ELSE [tenants EXCEPT ![i].status = StatusOf(action)]
    BY <1>3, <2>1 DEF handle, transition
  <2>3. CASE tenants[i] = NoTenant
    BY <2>1, <2>2, <2>3
  <2>4. CASE tenants[i] # NoTenant
    <3>1. tenants[i] \in Tenant
      BY <2>4
    <3>2. tenants'[i] = [tenants[i] EXCEPT !.status = StatusOf(action)]
      BY <2>2, <2>4
    <3>3. /\ tenants'[i] \in Tenant
          /\ tenants'[i] # NoTenant
          /\ tenants'[i].api_token = tenants[i].api_token
          /\ tenants'[i].status = StatusOf(action)
      BY <2>1, <3>1, <3>2, TenantUpdate
    <3> QED
      BY <2>1, <2>2, <2>4, <3>3 DEF ToldStatus
  <2> QED
    BY <2>3, <2>4
<1>4. CASE action \notin Transitions \cup {"created"}
  <2>1. action \notin Telling
    BY <1>4 DEF Transitions, Telling
  <2>2. UNCHANGED <<tenants, issued>>
    BY <1>4 DEF handle
  <2> QED
    BY <2>1, <2>2
<1> QED
  BY <1>1, <1>2, <1>3, <1>4

-------------------------------------------------------------------------------
\* What a tenant keeps.

LEMMA TenantInitEstablishes ==
    TenantInit => TenantInv
  BY TenantAssumption
     DEF TenantInit, TenantInv, TenantsTypeOK, TokensMatch, OwnTokenOnly, FollowedExists,
         StatusFollows

\* Tokens that were made stay made for whom they were, and nobody is un-admitted.
LEMMA HistoriesGrow ==
    ASSUME TenantsTypeOK, [TenantNext]_tenantVars
    PROVE  /\ issued' \in Seq(Installations)
           /\ \A t \in DOMAIN issued : t \in DOMAIN issued' /\ issued'[t] = issued[t]
           /\ admitted \subseteq admitted'
<1>1. ASSUME NEW i \in Installations
      PROVE  LET longer == Append(issued, i)
             IN  /\ longer \in Seq(Installations)
                 /\ \A t \in DOMAIN issued : t \in DOMAIN longer /\ longer[t] = issued[t]
  BY DEF TenantsTypeOK
<1>2. ASSUME NEW i \in Installations, NEW k \in DOMAIN Lifecycle[i], InstallationHook(i, k)
      PROVE  issued' = issued \/ \E j \in Installations : issued' = Append(issued, j)
  <2>1. Lifecycle[i][k] \in Actions
    BY TenantAssumption
  <2> QED
    BY <1>2, <2>1, HandleEffect DEF InstallationHook
<1>3. \/ issued' = issued
      \/ \E j \in Installations : issued' = Append(issued, j)
  BY <1>2 DEF TenantNext, Restart, Admit, tenantVars
<1>4. admitted \subseteq admitted'
  BY DEF TenantNext, InstallationHook, Restart, Admit, tenantVars
<1> QED
  BY <1>1, <1>3, <1>4 DEF TenantsTypeOK

LEMMA TenantStepHook ==
    ASSUME TenantInv, NEW i \in Installations, NEW k \in DOMAIN Lifecycle[i],
           InstallationHook(i, k)
    PROVE  TenantInv'
<1> DEFINE action == Lifecycle[i][k]
<1>1. action \in Actions /\ k \in Nat \ {0}
  BY TenantAssumption
<1>2. TenantsTypeOK /\ handle(i, action)
  BY DEF TenantInv, InstallationHook
<1>3. /\ \A j \in Installations \ {i} : tenants'[j] = tenants[j]
      /\ tenants' \in [Installations -> Tenant \cup {NoTenant}]
      /\ issued' = issued \/ issued' = Append(issued, i)
      /\ tenants[i] # NoTenant =>
           /\ issued' = issued
           /\ tenants'[i] # NoTenant
           /\ tenants'[i].api_token = tenants[i].api_token
           /\ action \notin Telling => tenants'[i] = tenants[i]
      /\ tenants[i] = NoTenant /\ tenants'[i] # NoTenant =>
           /\ action = "created"
           /\ issued' = Append(issued, i)
           /\ tenants'[i].api_token = Len(issued) + 1
      /\ tenants'[i] # NoTenant /\ action \in Telling => tenants'[i].status = ToldStatus(action)
  BY <1>1, <1>2, HandleEffect
<1>4. /\ issued' \in Seq(Installations)
      /\ \A t \in DOMAIN issued : t \in DOMAIN issued' /\ issued'[t] = issued[t]
  <2>1. TenantNext
    BY DEF TenantNext
  <2> QED
    BY <1>2, <2>1, HistoriesGrow
<1>5. followed' = [followed EXCEPT ![i] = IF k \in {@, @ + 1} THEN k ELSE 0]
  BY DEF InstallationHook
<1>6. TenantsTypeOK'
  <2>1. followed' \in [Installations -> Nat]
    BY <1>1, <1>2, <1>5 DEF TenantsTypeOK
  <2>2. hooks' \in 0..MaxHooks
    BY <1>2, TenantAssumption DEF InstallationHook, TenantsTypeOK
  <2>3. UNCHANGED <<restarts, admitted>>
    BY DEF InstallationHook
  <2> QED
    BY <1>2, <1>3, <1>4, <2>1, <2>2, <2>3 DEF TenantsTypeOK
<1>7. TokensMatch'
  <2>1. ASSUME NEW j \in Installations, tenants'[j] # NoTenant
        PROVE  /\ tenants'[j].api_token \in DOMAIN issued'
               /\ issued'[tenants'[j].api_token] = j
    <3>1. CASE tenants[j] # NoTenant /\ tenants'[j].api_token = tenants[j].api_token
      BY <1>4, <3>1 DEF TenantInv, TokensMatch
    <3>2. CASE j = i /\ tenants[i] = NoTenant
      <4>1. issued' = Append(issued, i) /\ tenants'[i].api_token = Len(issued) + 1
        BY <1>3, <2>1, <3>2
      <4> QED
        BY <1>2, <3>2, <4>1 DEF TenantsTypeOK
    <3>3. j # i => tenants'[j] = tenants[j]
      BY <1>3
    <3>4. j = i /\ tenants[i] # NoTenant => tenants'[j].api_token = tenants[j].api_token
      BY <1>3
    <3> QED
      BY <2>1, <3>1, <3>2, <3>3, <3>4
  <2> QED
    BY <2>1 DEF TokensMatch
<1>8. OwnTokenOnly'
  <2>1. admitted' = admitted
    BY DEF InstallationHook
  <2> QED
    BY <1>4, <2>1 DEF TenantInv, OwnTokenOnly
<1>9. FollowedExists'
  BY <1>2, <1>5 DEF TenantInv, FollowedExists, TenantsTypeOK
<1>10. StatusFollows'
  <2> SUFFICES ASSUME NEW j \in Installations, followed'[j] > 0, tenants'[j] # NoTenant
               PROVE  tenants'[j].status = StatusAfter(j, followed'[j])
    BY DEF StatusFollows, StatusAfter
  <2>1. CASE j # i
    <3>1. followed'[j] = followed[j] /\ tenants'[j] = tenants[j]
      BY <1>2, <1>3, <1>5, <2>1 DEF TenantsTypeOK
    <3> QED
      BY <3>1 DEF TenantInv, StatusFollows
  <2>2. CASE j = i
    <3>1. followed'[i] = k /\ (followed[i] = k \/ followed[i] = k - 1) /\ followed[i] \in Nat
      BY <1>1, <1>2, <1>5, <2>2 DEF TenantsTypeOK
    <3>2. CASE action \in Telling
      BY <1>3, <2>2, <3>1, <3>2, StatusAfterTold
    <3>3. CASE action \notin Telling
      <4>1. StatusAfter(i, k) = StatusAfter(i, k - 1)
        BY <3>3, StatusAfterTold
      <4>2. action # "created"
        BY <3>3 DEF Telling
      <4>3. tenants'[i] = tenants[i] /\ tenants[i] # NoTenant
        BY <1>3, <2>2, <3>3, <4>2
      <4>4. k # 1
        BY <4>2, FirstCreated
      <4>5. followed[i] > 0
        BY <1>1, <3>1, <4>4
      <4>6. tenants[i].status = StatusAfter(i, followed[i])
        BY <4>3, <4>5 DEF TenantInv, StatusFollows
      <4> QED
        BY <2>2, <3>1, <4>1, <4>3, <4>6
    <3> QED
      BY <3>2, <3>3
  <2> QED
    BY <2>1, <2>2
<1> QED
  BY <1>6, <1>7, <1>8, <1>9, <1>10 DEF TenantInv

LEMMA TenantNextPreserves ==
    TenantInv /\ [TenantNext]_tenantVars => TenantInv'
<1> SUFFICES ASSUME TenantInv, [TenantNext]_tenantVars PROVE TenantInv'
  OBVIOUS
<1>1. CASE Restart
  BY <1>1, TenantAssumption
     DEF Restart, TenantInv, TenantsTypeOK, TokensMatch, OwnTokenOnly, FollowedExists, StatusFollows
<1>2. ASSUME NEW i \in Installations, NEW t \in DOMAIN issued, Admit(i, t)
      PROVE  TenantInv'
  <2>1. t \in Nat
    BY DEF TenantInv, TenantsTypeOK
  <2>2. issued[t] = i
    BY <1>2 DEF Admit, token_matches, TenantInv, TokensMatch
  <2>3. /\ UNCHANGED <<tenants, issued, hooks, restarts, followed>>
        /\ admitted' = admitted \cup {<<i, t>>}
    BY <1>2 DEF Admit
  <2>4. TenantsTypeOK'
    BY <2>1, <2>3 DEF TenantInv, TenantsTypeOK
  <2>5. OwnTokenOnly'
    BY <2>2, <2>3 DEF TenantInv, OwnTokenOnly
  <2>6. TokensMatch' /\ FollowedExists' /\ StatusFollows'
    BY <2>3 DEF TenantInv, TokensMatch, FollowedExists, StatusFollows, StatusAfter
  <2> QED
    BY <2>4, <2>5, <2>6 DEF TenantInv
<1>3. CASE UNCHANGED tenantVars
  BY <1>3 DEF tenantVars, TenantInv, TenantsTypeOK, TokensMatch, OwnTokenOnly, FollowedExists,
              StatusFollows, StatusAfter
<1> QED
  BY <1>1, <1>2, <1>3, TenantStepHook DEF TenantNext

\* No step of a tenant's takes its token from it, but for a restart.
LEMMA TokenKept ==
    ASSUME TenantInv, [TenantNext]_tenantVars,
           NEW i \in Installations, tenants[i] # NoTenant, restarts' = restarts
    PROVE  tenants'[i] # NoTenant /\ tenants'[i].api_token = tenants[i].api_token
<1>1. ASSUME NEW j \in Installations, NEW k \in DOMAIN Lifecycle[j], InstallationHook(j, k)
      PROVE  tenants'[i] # NoTenant /\ tenants'[i].api_token = tenants[i].api_token
  <2>1. Lifecycle[j][k] \in Actions /\ TenantsTypeOK /\ handle(j, Lifecycle[j][k])
    BY <1>1, TenantAssumption DEF TenantInv, InstallationHook
  <2>2. i # j => tenants'[i] = tenants[i]
    BY <2>1, HandleEffect
  <2>3. i = j => tenants'[i] # NoTenant /\ tenants'[i].api_token = tenants[i].api_token
    BY <2>1, HandleEffect
  <2> QED
    BY <2>2, <2>3
<1>2. CASE Restart
  BY <1>2 DEF Restart, TenantInv, TenantsTypeOK
<1>3. CASE UNCHANGED tenants
  BY <1>3
<1> QED
  BY <1>1, <1>2, <1>3 DEF TenantNext, Admit, tenantVars

-------------------------------------------------------------------------------
\* The task.

Accepted == {accepted[k] : k \in DOMAIN accepted}

\* Whoever had a report accepted was let in with a token of its own.
ReportersAdmitted ==
    \A task \in Accepted : \E t \in DOMAIN issued :
        /\ issued[t] = task.installation_id
        /\ <<task.installation_id, t>> \in admitted

\* Row r is one of an accepted report, and charged to a team.
IsRowOf(r, task) ==
    /\ r.event_type = "incident"
    /\ r.owner \in TeamsCharged
    /\ IsChargeOf(r, task)

RowsReported == \A r \in events : \E task \in Accepted : IsRowOf(r, task)

TasksReported == \A k \in DOMAIN queue : queue[k] \in Accepted

\* The rows of one commit of a task, for one reading of CODEOWNERS and a default.
RowsFor(task, sha, read, team) ==
    Charges(IncidentEvent(task, sha), resolve_owners(CommitFiles[sha], read, team))

Charged(table, task, sha) ==
    \E read \in [CommitFiles[sha] -> CodeownersVersions], team \in Teams :
        \A e \in RowsFor(task, sha, read, team) : HasKey(table, e)

\* Child w works on an accepted report.
JobReported(w) == pc[w] # "idle" => job[w] \in Accepted

\* What it has left is of the range, and the commits it has not left are charged.
RangeSplit(w) ==
    pc[w] \in {"config", "owners", "save"} =>
        /\ \A k \in DOMAIN shas[w] : shas[w][k] \in CommitsOf(job[w])
        /\ \A sha \in CommitsOf(job[w]) :
            \/ \E k \in DOMAIN shas[w] : shas[w][k] = sha
            \/ Charged(events, job[w], sha)
        /\ pc[w] # "config" => shas[w] # <<>>

\* The rows it has left are of its report, and the other ones of their commit are
\* in the table.
RowsSplit(w) ==
    pc[w] = "save" =>
        /\ \A e \in todo[w] : IsRowOf(e, job[w])
        /\ \E read \in [CommitFiles[Head(shas[w])] -> CodeownersVersions], team \in Teams :
            \A e \in RowsFor(job[w], Head(shas[w]), read, team) :
                e \in todo[w] \/ HasKey(events, e)

ChildInv == \A w \in Workers : JobReported(w) /\ RangeSplit(w) /\ RowsSplit(w)

RangesCharged == \A task \in finished : \A sha \in CommitsOf(task) : Charged(events, task, sha)

IncidentInv ==
    /\ TypeOK
    /\ TenantInv
    /\ ReportersAdmitted
    /\ RowsReported
    /\ TasksReported
    /\ ChildInv
    /\ RangesCharged

\* The invariant has the properties that the runs check.
LEMMA InvariantImplies ==
    IncidentInv => /\ OwnTokenOnly /\ StatusFollows
                   /\ IncidentRowsJustified /\ WholeRangeCharged
<1> SUFFICES ASSUME IncidentInv
             PROVE  /\ OwnTokenOnly /\ StatusFollows
                    /\ IncidentRowsJustified /\ WholeRangeCharged
  OBVIOUS
<1>1. ASSUME NEW r \in events
      PROVE  /\ r.event_type = "incident"
             /\ r.owner \in TeamsCharged
             /\ \E k \in DOMAIN accepted : IsChargeOf(r, accepted[k])
             /\ \E t \in DOMAIN issued : /\ issued[t] = r.installation_id
                                        /\ <<r.installation_id, t>> \in admitted
  <2>1. PICK task \in Accepted : IsRowOf(r, task)
    BY DEF IncidentInv, RowsReported
  <2>2. r.installation_id = task.installation_id
    BY <2>1 DEF IsRowOf, IsChargeOf
  <2>3. PICK k \in DOMAIN accepted : task = accepted[k]
    BY DEF Accepted
  <2>4. \E t \in DOMAIN issued : /\ issued[t] = task.installation_id
                                 /\ <<task.installation_id, t>> \in admitted
    BY DEF IncidentInv, ReportersAdmitted
  <2> QED
    BY <2>1, <2>2, <2>3, <2>4 DEF IsRowOf
<1>2. IncidentRowsJustified
  BY <1>1 DEF IncidentRowsJustified
<1>3. WholeRangeCharged
  BY DEF IncidentInv, RangesCharged, Charged, RowsFor, WholeRangeCharged
<1> QED
  BY <1>2, <1>3 DEF IncidentInv, TenantInv

-------------------------------------------------------------------------------

\* The rows of a commit of an accepted report are rows, and of that report.
LEMMA RowsOfTask ==
    ASSUME NEW task \in Task, NEW sha \in Shas, sha \in CommitsOf(task),
           NEW read \in [CommitFiles[sha] -> CodeownersVersions], NEW team \in Teams
    PROVE  /\ RowsFor(task, sha, read, team) \subseteq Row
           /\ \A e \in RowsFor(task, sha, read, team) : IsRowOf(e, task)
<1> DEFINE owners == resolve_owners(CommitFiles[sha], read, team)
           event == IncidentEvent(task, sha)
<1>1. CommitFiles[sha] \subseteq Files
  BY ReportAssumption
<1>2. owners \subseteq Names /\ owners \subseteq TeamsCharged
  BY <1>1, ReportAssumption DEF resolve_owners, TeamsCharged
<1>3. task.occurred_at \in Int
  BY DEF Task, Report
<1>4. event \in ActivityEvent
  BY <1>3 DEF IncidentEvent, ActivityEvent, ActivityEventType, Task, Report
<1>5. /\ event.installation_id = task.installation_id
      /\ event.repo = task.repo
      /\ event.sha = sha
      /\ event.event_type = "incident"
      /\ event.ts = task.occurred_at
  BY DEF IncidentEvent
<1> HIDE DEF owners, event
<1>6. \A e \in Charges(event, owners) :
        /\ e \in Row
        /\ e.owner \in owners
        /\ e.installation_id = event.installation_id
        /\ e.repo = event.repo
        /\ e.sha = event.sha
        /\ e.event_type = event.event_type
        /\ e.ts = event.ts
  BY <1>2, <1>4, NoOwnerAssumption DEF Charges, ActivityEvent, Row
<1>7. RowsFor(task, sha, read, team) = Charges(event, owners)
  BY DEF RowsFor, event, owners
<1> QED
  BY <1>2, <1>5, <1>6, <1>7 DEF IsRowOf, IsChargeOf

\* The commits that the task finds are those that the incident is about.
LEMMA RangeFound ==
    ASSUME NEW task \in Task
    PROVE  LET found == commits_between(task.base_sha, task.head_sha)
           IN  /\ found \in Seq(Shas)
               /\ \A k \in DOMAIN found : found[k] \in CommitsOf(task)
               /\ \A sha \in CommitsOf(task) : \E k \in DOMAIN found : found[k] = sha
               /\ CommitsOf(task) \subseteq Shas
<1>1. task.base_sha \in Shas /\ task.head_sha \in Shas
  BY DEF Task, Report
<1>2. CASE task.base_sha = task.head_sha
  BY <1>1, <1>2 DEF commits_between, CommitsOf
<1>3. CASE task.base_sha # task.head_sha
  <2>1. CommitsBetween[<<task.base_sha, task.head_sha>>] \in Seq(Shas)
    BY <1>1, ReportAssumption
  <2> QED
    BY <1>3, <2>1 DEF commits_between, CommitsOf
<1> QED
  BY <1>2, <1>3

\* A step of the system is one of the tenants, or leaves them alone.
LEMMA TenantsStep ==
    ASSUME [Next]_vars
    PROVE  [TenantNext]_tenantVars
<1>1. ASSUME NEW report \in Reports, NEW t \in DOMAIN issued, ReportIncident(report, t)
      PROVE  TenantNext
  <2>1. report.installation_id \in Installations
    BY ReportAssumption DEF Report
  <2> QED
    BY <1>1, <2>1 DEF ReportIncident, TenantNext
<1> QED
  BY <1>1 DEF Next, Step, Begin, FindCommits, ResolveConfig, ResolveOwners, SaveRow, Raise, vars

\* The table only grows, and what is charged stays charged.
LEMMA ChargedStays ==
    ASSUME NEW old, NEW new, old \subseteq new, NEW task, NEW sha, Charged(old, task, sha)
    PROVE  Charged(new, task, sha)
  BY DEF Charged, HasKey

LEMMA TableGrows ==
    ASSUME TypeOK, [Next]_vars
    PROVE  events \subseteq events'
<1>1. ASSUME NEW w \in Workers, SaveRow(w)
      PROVE  events \subseteq events'
  BY <1>1, SaveKeeps DEF SaveRow, TypeOK
<1>2. CASE events' = events
  BY <1>2
<1> QED
  BY <1>1, <1>2 DEF Next, TenantNext, ReportIncident, Step, Begin, FindCommits, ResolveConfig,
                    ResolveOwners, Raise, vars, tables

\* A child that a step does not touch is as before.
LEMMA ChildUntouched ==
    ASSUME NEW w \in Workers, JobReported(w), RangeSplit(w), RowsSplit(w),
           pc'[w] = pc[w], job'[w] = job[w], shas'[w] = shas[w], todo'[w] = todo[w],
           events \subseteq events', Accepted \subseteq Accepted'
    PROVE  JobReported(w)' /\ RangeSplit(w)' /\ RowsSplit(w)'
<1>1. JobReported(w)'
  BY DEF JobReported
<1>2. RangeSplit(w)'
  BY ChargedStays DEF RangeSplit
<1>3. RowsSplit(w)'
  <2>1. CASE pc[w] # "save"
    BY <2>1 DEF RowsSplit
  <2>2. CASE pc[w] = "save"
    <3>1. PICK read \in [CommitFiles[Head(shas[w])] -> CodeownersVersions], team \in Teams :
            \A e \in RowsFor(job[w], Head(shas[w]), read, team) :
                e \in todo[w] \/ HasKey(events, e)
      BY <2>2 DEF RowsSplit
    <3>2. \A e : HasKey(events, e) => HasKey(events', e)
      BY DEF HasKey
    <3> QED
      BY <2>2, <3>1, <3>2 DEF RowsSplit
  <2> QED
    BY <2>1, <2>2
<1> QED
  BY <1>1, <1>2, <1>3

\* A step of child w leaves the other children, the tenants and the reports alone.
LEMMA OneChildMoves ==
    ASSUME IncidentInv, NEW w \in Workers, Step(w) \/ Raise(w)
    PROVE  /\ UNCHANGED <<tenantVars, accepted>>
           /\ \A v \in Workers \ {w} : /\ pc'[v] = pc[v]
                                       /\ job'[v] = job[v]
                                       /\ shas'[v] = shas[v]
                                       /\ todo'[v] = todo[v]
<1> USE DEF IncidentInv, TypeOK
<1>1. CASE Begin(w)
  BY <1>1 DEF Begin
<1>2. CASE FindCommits(w)
  BY <1>2 DEF FindCommits
<1>3. CASE ResolveConfig(w)
  BY <1>3 DEF ResolveConfig, NextCommit
<1>4. CASE ResolveOwners(w)
  BY <1>4 DEF ResolveOwners
<1>5. CASE SaveRow(w)
  BY <1>5 DEF SaveRow, NextCommit
<1>6. CASE Raise(w)
  BY <1>6 DEF Raise
<1> QED
  BY <1>1, <1>2, <1>3, <1>4, <1>5, <1>6 DEF Step

\* So that of the invariant, w's own part and the shared tables remain to be shown.
LEMMA ChildStep ==
    ASSUME IncidentInv, NEW w \in Workers, Step(w) \/ Raise(w),
           TypeOK', RowsReported', TasksReported', RangesCharged',
           JobReported(w)', RangeSplit(w)', RowsSplit(w)'
    PROVE  IncidentInv'
<1>1. /\ UNCHANGED <<tenantVars, accepted>>
      /\ \A v \in Workers \ {w} : /\ pc'[v] = pc[v]
                                  /\ job'[v] = job[v]
                                  /\ shas'[v] = shas[v]
                                  /\ todo'[v] = todo[v]
  BY OneChildMoves
<1>2. [Next]_vars
  BY DEF Next
<1>3. TenantInv'
  BY <1>2, TenantsStep, TenantNextPreserves DEF IncidentInv
<1>4. Accepted' = Accepted
  BY <1>1 DEF Accepted
<1>5. ReportersAdmitted'
  BY <1>1, <1>4 DEF IncidentInv, ReportersAdmitted, tenantVars
<1>6. events \subseteq events'
  BY <1>2, TableGrows DEF IncidentInv
<1>7. ChildInv'
  <2>1. ASSUME NEW v \in Workers \ {w}
        PROVE  JobReported(v)' /\ RangeSplit(v)' /\ RowsSplit(v)'
    <3>1. JobReported(v) /\ RangeSplit(v) /\ RowsSplit(v)
      BY DEF IncidentInv, ChildInv
    <3>2. pc'[v] = pc[v] /\ job'[v] = job[v] /\ shas'[v] = shas[v] /\ todo'[v] = todo[v]
      BY <1>1
    <3> QED
      BY <1>4, <1>6, <3>1, <3>2, ChildUntouched
  <2> QED
    BY <2>1 DEF ChildInv
<1> QED
  BY <1>3, <1>5, <1>7 DEF IncidentInv

LEMMA StepBegin ==
    ASSUME IncidentInv, NEW w \in Workers, Begin(w)
    PROVE  IncidentInv'
<1> USE DEF IncidentInv
<1>1. /\ pc' = [pc EXCEPT ![w] = "range"]
      /\ job' = [job EXCEPT ![w] = Head(queue)]
      /\ queue' = Tail(queue)
      /\ queue # <<>>
      /\ UNCHANGED <<tenantVars, tables, default_team, shas, todo, accepted, raised, finished>>
  BY DEF Begin
<1>2. Head(queue) \in Task /\ Tail(queue) \in Seq(Task)
  BY <1>1 DEF TypeOK
<1>3. /\ Head(queue) = queue[1] /\ 1 \in DOMAIN queue
      /\ \A k \in DOMAIN Tail(queue) : Tail(queue)[k] = queue[k + 1] /\ k + 1 \in DOMAIN queue
  BY <1>1 DEF TypeOK
<1>4. Accepted' = Accepted
  BY <1>1 DEF Accepted
<1>5. TypeOK'
  BY <1>1, <1>2 DEF TypeOK, TenantsTypeOK, tenantVars, tables
<1>6. TasksReported'
  BY <1>1, <1>3, <1>4 DEF TasksReported
<1>7. JobReported(w)'
  BY <1>1, <1>3, <1>4 DEF JobReported, TasksReported, TypeOK
<1>8. RangeSplit(w)' /\ RowsSplit(w)'
  BY <1>1 DEF RangeSplit, RowsSplit, TypeOK
<1>9. RowsReported' /\ RangesCharged'
  BY <1>1, <1>4 DEF RowsReported, RangesCharged, tables
<1> QED
  BY <1>5, <1>6, <1>7, <1>8, <1>9, ChildStep DEF Step

LEMMA StepFindCommits ==
    ASSUME IncidentInv, NEW w \in Workers, FindCommits(w)
    PROVE  IncidentInv'
<1> USE DEF IncidentInv
<1> DEFINE found == commits_between(job[w].base_sha, job[w].head_sha)
<1>1. /\ pc[w] = "range"
      /\ pc' = [pc EXCEPT ![w] = "config"]
      /\ shas' = [shas EXCEPT ![w] = found]
      /\ UNCHANGED <<tenantVars, queue, tables, job, default_team, todo, accepted, raised, finished>>
  BY DEF FindCommits
<1>2. Accepted' = Accepted /\ Accepted \subseteq Task
  BY <1>1 DEF Accepted, TypeOK
<1>3. job[w] \in Accepted
  BY <1>1 DEF ChildInv, JobReported
<1>4. /\ found \in Seq(Shas)
      /\ \A k \in DOMAIN found : found[k] \in CommitsOf(job[w])
      /\ \A sha \in CommitsOf(job[w]) : \E k \in DOMAIN found : found[k] = sha
  BY <1>2, <1>3, RangeFound
<1> HIDE DEF found
<1>5. TypeOK'
  BY <1>1, <1>4 DEF TypeOK, TenantsTypeOK, tenantVars, tables
<1>6. JobReported(w)'
  BY <1>1, <1>2, <1>3 DEF JobReported
<1>7. shas'[w] = found /\ pc'[w] = "config" /\ job'[w] = job[w]
  BY <1>1 DEF TypeOK
<1>8. RangeSplit(w)' /\ RowsSplit(w)'
  BY <1>4, <1>7 DEF RangeSplit, RowsSplit
<1>9. RowsReported' /\ TasksReported' /\ RangesCharged'
  BY <1>1, <1>2 DEF RowsReported, TasksReported, RangesCharged, tables
<1> QED
  BY <1>5, <1>6, <1>8, <1>9, ChildStep DEF Step

LEMMA StepResolveConfig ==
    ASSUME IncidentInv, NEW w \in Workers, ResolveConfig(w)
    PROVE  IncidentInv'
<1> USE DEF IncidentInv
<1>1. PICK file \in ConfigFiles :
        /\ Storable(parse_config(file))
        /\ tenant_config' = [tenant_config EXCEPT ![job[w].installation_id] = parse_config(file)]
        /\ default_team' = [default_team EXCEPT ![w] = parse_config(file).default_team]
  BY DEF ResolveConfig
<1>2. /\ pc[w] = "config"
      /\ pc' = [pc EXCEPT ![w] = IF shas[w] = <<>> THEN "idle" ELSE "owners"]
      /\ finished' = IF shas[w] = <<>> THEN finished \cup {job[w]} ELSE finished
      /\ UNCHANGED <<tenantVars, queue, events, job, shas, todo, accepted, raised>>
  BY DEF ResolveConfig, NextCommit
<1>3. parse_config(file) \in TenantConfig
  BY <1>1, StorableConfig, ReportAssumption
<1>4. Accepted' = Accepted /\ Accepted \subseteq Task
  BY <1>2 DEF Accepted, TypeOK
<1>5. job[w] \in Accepted /\ RangeSplit(w)
  BY <1>2 DEF ChildInv, JobReported
<1>6. parse_config(file).default_team \in Teams
  BY <1>3 DEF TenantConfig
<1>7. pc'[w] = IF shas[w] = <<>> THEN "idle" ELSE "owners"
  BY <1>2 DEF TypeOK
<1>8. TypeOK'
  <2>1. finished' \subseteq Task
    BY <1>2, <1>4, <1>5 DEF TypeOK
  <2>2. tenant_config' \in [Installations -> TenantConfig \cup {NoConfig}]
    BY <1>1, <1>3 DEF TypeOK
  <2>3. default_team' \in [Workers -> Teams]
    BY <1>1, <1>6 DEF TypeOK
  <2> QED
    BY <1>2, <2>1, <2>2, <2>3 DEF TypeOK, TenantsTypeOK, tenantVars
<1>9. JobReported(w)' /\ RangeSplit(w)' /\ RowsSplit(w)'
  BY <1>2, <1>4, <1>5, <1>7 DEF JobReported, RangeSplit, RowsSplit
<1>10. RangesCharged'
  <2>1. ASSUME shas[w] = <<>>, NEW sha \in CommitsOf(job[w])
        PROVE  Charged(events, job[w], sha)
    BY <1>2, <1>5, <2>1 DEF RangeSplit
  <2> QED
    BY <1>2, <2>1 DEF RangesCharged
<1>11. RowsReported' /\ TasksReported'
  BY <1>2, <1>4 DEF RowsReported, TasksReported
<1> QED
  BY <1>8, <1>9, <1>10, <1>11, ChildStep DEF Step

LEMMA StepResolveOwners ==
    ASSUME IncidentInv, NEW w \in Workers, ResolveOwners(w)
    PROVE  IncidentInv'
<1> USE DEF IncidentInv
<1> DEFINE sha == Head(shas[w])
<1>1. PICK read \in [CommitFiles[sha] -> CodeownersVersions] :
        todo' = [todo EXCEPT ![w] = RowsFor(job[w], sha, read, default_team[w])]
  BY DEF ResolveOwners, RowsFor
<1>2. /\ pc[w] = "owners"
      /\ pc' = [pc EXCEPT ![w] = "save"]
      /\ UNCHANGED <<tenantVars, queue, tables, job, default_team, shas, accepted, raised, finished>>
  BY DEF ResolveOwners
<1>3. Accepted' = Accepted /\ Accepted \subseteq Task
  BY <1>2 DEF Accepted, TypeOK
<1>4. job[w] \in Accepted /\ RangeSplit(w)
  BY <1>2 DEF ChildInv, JobReported
<1>5. sha \in Shas /\ sha \in CommitsOf(job[w])
  BY <1>2, <1>4 DEF RangeSplit, TypeOK
<1>6. default_team[w] \in Teams
  BY DEF TypeOK
<1> HIDE DEF sha
<1>7. /\ RowsFor(job[w], sha, read, default_team[w]) \subseteq Row
      /\ \A e \in RowsFor(job[w], sha, read, default_team[w]) : IsRowOf(e, job[w])
  BY <1>3, <1>4, <1>5, <1>6, RowsOfTask
<1>8. TypeOK'
  BY <1>1, <1>2, <1>7 DEF TypeOK, TenantsTypeOK, tenantVars, tables
<1>9. /\ pc'[w] = "save" /\ job'[w] = job[w] /\ shas'[w] = shas[w] /\ events' = events
      /\ todo'[w] = RowsFor(job[w], sha, read, default_team[w])
  BY <1>1, <1>2 DEF TypeOK, tables
<1>10. JobReported(w)'
  BY <1>3, <1>4, <1>9 DEF JobReported
<1>11. RangeSplit(w)'
  BY <1>2, <1>4, <1>9 DEF RangeSplit
<1>12. RowsSplit(w)'
  <2>1. \A e \in RowsFor(job[w], sha, read, default_team[w]) : e \in todo'[w]
    BY <1>9
  <2> QED
    BY <1>6, <1>7, <1>9, <2>1 DEF RowsSplit, sha
<1>13. RowsReported' /\ TasksReported' /\ RangesCharged'
  BY <1>2, <1>3 DEF RowsReported, TasksReported, RangesCharged, tables
<1> QED
  BY <1>8, <1>10, <1>11, <1>12, <1>13, ChildStep DEF Step

LEMMA StepSaveRow ==
    ASSUME IncidentInv, NEW w \in Workers, SaveRow(w)
    PROVE  IncidentInv'
<1> USE DEF IncidentInv
<1> DEFINE sha == Head(shas[w])
           rest == Tail(shas[w])
<1>1. PICK e \in todo[w] :
        /\ events' = save_if_new(events, e)
        /\ todo' = [todo EXCEPT ![w] = @ \ {e}]
        /\ IF todo[w] = {e}
           THEN /\ shas' = [shas EXCEPT ![w] = Tail(@)]
                /\ NextCommit(w, rest)
           ELSE UNCHANGED <<pc, shas, finished>>
  BY DEF SaveRow
<1>2. /\ pc[w] = "save"
      /\ UNCHANGED <<tenantVars, queue, tenant_config, job, default_team, accepted, raised>>
  BY DEF SaveRow
<1>3. Accepted' = Accepted /\ Accepted \subseteq Task
  BY <1>2 DEF Accepted, TypeOK
<1>4. job[w] \in Accepted /\ RangeSplit(w) /\ RowsSplit(w)
  BY <1>2 DEF ChildInv, JobReported
<1>5. e \in Row /\ IsRowOf(e, job[w]) /\ events \in SUBSET Row
  BY <1>2, <1>4 DEF RowsSplit, TypeOK
<1>6. /\ events \subseteq events'
      /\ events' \subseteq events \cup {e}
      /\ HasKey(events', e)
  BY <1>1, <1>5, SaveKeeps
<1>7. /\ shas[w] \in Seq(Shas) /\ shas[w] # <<>>
      /\ \A k \in DOMAIN rest : rest[k] = shas[w][k + 1] /\ k + 1 \in DOMAIN shas[w]
      /\ \A k \in DOMAIN shas[w] : k # 1 => k - 1 \in DOMAIN rest /\ rest[k - 1] = shas[w][k]
      /\ rest \in Seq(Shas)
      /\ sha = shas[w][1]
  BY <1>2, <1>4 DEF RangeSplit, TypeOK
<1>8. PICK read \in [CommitFiles[sha] -> CodeownersVersions], team \in Teams :
        \A r \in RowsFor(job[w], sha, read, team) : r \in todo[w] \/ HasKey(events, r)
  BY <1>2, <1>4 DEF RowsSplit
<1>9. \A r : HasKey(events, r) => HasKey(events', r)
  BY <1>6 DEF HasKey
<1>10. todo'[w] = todo[w] \ {e}
  BY <1>1 DEF TypeOK
<1>11. \A r \in RowsFor(job[w], sha, read, team) : r \in todo'[w] \/ HasKey(events', r)
  BY <1>6, <1>8, <1>9, <1>10
<1>12. todo[w] = {e} => Charged(events', job[w], sha)
  BY <1>10, <1>11 DEF Charged
<1>13. todo[w] = {e} =>
        /\ \A k \in DOMAIN rest : rest[k] \in CommitsOf(job[w])
        /\ \A s \in CommitsOf(job[w]) :
            (\E k \in DOMAIN rest : rest[k] = s) \/ Charged(events', job[w], s)
  <2> SUFFICES ASSUME todo[w] = {e}
               PROVE  /\ \A k \in DOMAIN rest : rest[k] \in CommitsOf(job[w])
                      /\ \A s \in CommitsOf(job[w]) :
                          (\E k \in DOMAIN rest : rest[k] = s) \/ Charged(events', job[w], s)
    OBVIOUS
  <2>1. \A k \in DOMAIN rest : rest[k] \in CommitsOf(job[w])
    BY <1>2, <1>4, <1>7 DEF RangeSplit
  <2>2. ASSUME NEW s \in CommitsOf(job[w])
        PROVE  (\E k \in DOMAIN rest : rest[k] = s) \/ Charged(events', job[w], s)
    <3>1. CASE Charged(events, job[w], s)
      BY <1>6, <3>1, ChargedStays
    <3>2. ASSUME NEW k \in DOMAIN shas[w], shas[w][k] = s
          PROVE  (\E l \in DOMAIN rest : rest[l] = s) \/ Charged(events', job[w], s)
      <4>1. CASE k = 1
        BY <1>7, <1>12, <3>2, <4>1
      <4>2. CASE k # 1
        BY <1>7, <3>2, <4>2
      <4> QED
        BY <4>1, <4>2
    <3> QED
      BY <1>2, <1>4, <3>1, <3>2 DEF RangeSplit
  <2> QED
    BY <2>1, <2>2
<1> HIDE DEF sha, rest
<1>14. ASSUME todo[w] = {e}
      PROVE  /\ shas' \in [Workers -> Seq(Shas)]
             /\ pc' \in [Workers -> {"idle", "range", "config", "owners", "save"}]
             /\ finished' \subseteq Task
             /\ RangeSplit(w)' /\ RowsSplit(w)' /\ RangesCharged'
  <2>1. /\ shas' = [shas EXCEPT ![w] = rest]
        /\ pc' = [pc EXCEPT ![w] = IF rest = <<>> THEN "idle" ELSE "owners"]
        /\ finished' = IF rest = <<>> THEN finished \cup {job[w]} ELSE finished
    BY <1>1, <1>14 DEF NextCommit, rest
  <2>2. /\ shas'[w] = rest
        /\ pc'[w] = IF rest = <<>> THEN "idle" ELSE "owners"
        /\ job'[w] = job[w]
    BY <1>2, <2>1 DEF TypeOK
  <2>3. /\ shas' \in [Workers -> Seq(Shas)]
        /\ pc' \in [Workers -> {"idle", "range", "config", "owners", "save"}]
        /\ finished' \subseteq Task
    BY <1>3, <1>4, <1>7, <2>1 DEF TypeOK
  <2>4. RangeSplit(w)' /\ RowsSplit(w)'
    BY <1>13, <1>14, <2>2 DEF RangeSplit, RowsSplit
  <2>5. RangesCharged'
    <3>1. \A task \in finished : \A s \in CommitsOf(task) : Charged(events', task, s)
      BY <1>6, ChargedStays DEF RangesCharged
    <3>2. rest = <<>> => \A s \in CommitsOf(job[w]) : Charged(events', job[w], s)
      BY <1>13, <1>14
    <3> QED
      BY <2>1, <3>1, <3>2 DEF RangesCharged
  <2> QED
    BY <2>3, <2>4, <2>5
<1>15. ASSUME todo[w] # {e}
      PROVE  /\ shas' \in [Workers -> Seq(Shas)]
             /\ pc' \in [Workers -> {"idle", "range", "config", "owners", "save"}]
             /\ finished' \subseteq Task
             /\ RangeSplit(w)' /\ RowsSplit(w)' /\ RangesCharged'
  <2>1. UNCHANGED <<pc, shas, finished>>
    BY <1>1, <1>15
  <2>2. /\ shas' \in [Workers -> Seq(Shas)]
        /\ pc' \in [Workers -> {"idle", "range", "config", "owners", "save"}]
        /\ finished' \subseteq Task
    BY <2>1 DEF TypeOK
  <2>3. RangeSplit(w)'
    BY <1>2, <1>4, <1>6, <2>1, ChargedStays DEF RangeSplit
  <2>4. RowsSplit(w)'
    <3>1. \A r \in todo'[w] : IsRowOf(r, job[w])
      BY <1>2, <1>4, <1>10 DEF RowsSplit
    <3>2. pc'[w] = "save" /\ job'[w] = job[w] /\ Head(shas'[w]) = sha
      BY <1>2, <2>1 DEF sha
    <3> QED
      BY <1>11, <3>1, <3>2 DEF RowsSplit
  <2>5. RangesCharged'
    BY <1>6, <2>1, ChargedStays DEF RangesCharged
  <2> QED
    BY <2>2, <2>3, <2>4, <2>5
<1>16. TypeOK'
  <2>1. events' \subseteq Row
    BY <1>5, <1>6
  <2>2. todo' \in [Workers -> SUBSET Row]
    BY <1>1 DEF TypeOK
  <2>3. /\ shas' \in [Workers -> Seq(Shas)]
        /\ pc' \in [Workers -> {"idle", "range", "config", "owners", "save"}]
        /\ finished' \subseteq Task
    BY <1>14, <1>15
  <2> QED
    BY <1>2, <2>1, <2>2, <2>3 DEF TypeOK, TenantsTypeOK, tenantVars
<1>17. JobReported(w)' /\ TasksReported'
  BY <1>2, <1>3, <1>4 DEF JobReported, TasksReported
<1>18. RowsReported'
  BY <1>3, <1>4, <1>5, <1>6 DEF RowsReported
<1>19. RangeSplit(w)' /\ RowsSplit(w)' /\ RangesCharged'
  BY <1>14, <1>15
<1> QED
  BY <1>6, <1>16, <1>17, <1>18, <1>19, ChildStep DEF Step

LEMMA StepRaise ==
    ASSUME IncidentInv, NEW w \in Workers, Raise(w)
    PROVE  IncidentInv'
<1> USE DEF IncidentInv
<1>1. /\ pc' = [pc EXCEPT ![w] = "idle"]
      /\ raised' = raised + 1
      /\ UNCHANGED <<tenantVars, queue, tables, job, default_team, shas, todo, accepted, finished>>
  BY DEF Raise
<1>2. Accepted' = Accepted
  BY <1>1 DEF Accepted
<1>3. TypeOK'
  BY <1>1 DEF TypeOK, TenantsTypeOK, tenantVars, tables
<1>4. JobReported(w)' /\ RangeSplit(w)' /\ RowsSplit(w)'
  BY <1>1 DEF JobReported, RangeSplit, RowsSplit, TypeOK
<1>5. RowsReported' /\ TasksReported' /\ RangesCharged'
  BY <1>1, <1>2 DEF RowsReported, TasksReported, RangesCharged, tables
<1> QED
  BY <1>3, <1>4, <1>5, ChildStep

\* A step that only tenants, or nobody, takes.
LEMMA StepTenants ==
    ASSUME IncidentInv, [TenantNext]_tenantVars,
           UNCHANGED <<queue, tables, workerVars, accepted, raised, finished>>
    PROVE  IncidentInv'
<1> USE DEF IncidentInv
<1>1. TenantInv'
  BY TenantNextPreserves
<1>2. Accepted' = Accepted
  BY DEF Accepted
<1>3. TypeOK'
  BY <1>1 DEF TypeOK, TenantInv, tables, workerVars
<1>4. ReportersAdmitted'
  BY <1>2, HistoriesGrow DEF ReportersAdmitted, TenantInv
<1>5. ChildInv'
  BY <1>2, ChildUntouched DEF ChildInv, workerVars, tables
<1>6. RowsReported' /\ TasksReported' /\ RangesCharged'
  BY <1>2 DEF RowsReported, TasksReported, RangesCharged, tables
<1> QED
  BY <1>1, <1>3, <1>4, <1>5, <1>6

LEMMA StepReport ==
    ASSUME IncidentInv, NEW report \in Reports, NEW t \in DOMAIN issued,
           ReportIncident(report, t)
    PROVE  IncidentInv'
<1> USE DEF IncidentInv
<1>1. PICK moment \in Moments :
        /\ queue' = Append(queue, TaskOf(report, moment))
        /\ accepted' = Append(accepted, TaskOf(report, moment))
  BY DEF ReportIncident
<1> DEFINE task == TaskOf(report, moment)
<1>2. Admit(report.installation_id, t) /\ UNCHANGED <<tables, workerVars, raised, finished>>
  BY DEF ReportIncident
<1>3. /\ report \in Report /\ moment \in Int
      /\ report.installation_id \in Installations
  BY ReportAssumption DEF Report
<1>4. task \in Task /\ task.installation_id = report.installation_id
  BY <1>3, ClassifierAssumption DEF TaskOf, Task, Report
<1> HIDE DEF task
<1>5. /\ accepted' \in Seq(Task) /\ queue' \in Seq(Task)
      /\ Accepted' = Accepted \cup {task}
      /\ \A k \in DOMAIN queue' : queue'[k] = task \/ \E l \in DOMAIN queue : queue'[k] = queue[l]
  <2>1. accepted \in Seq(Task) /\ queue \in Seq(Task)
    BY DEF TypeOK
  <2>2. accepted' = Append(accepted, task) /\ queue' = Append(queue, task)
    BY <1>1 DEF task
  <2>3. Accepted' = {Append(accepted, task)[k] : k \in DOMAIN Append(accepted, task)}
    BY <2>2 DEF Accepted
  <2>4. {Append(accepted, task)[k] : k \in DOMAIN Append(accepted, task)} = Accepted \cup {task}
    <3>1. DOMAIN Append(accepted, task) = DOMAIN accepted \cup {Len(accepted) + 1}
      BY <2>1
    <3>2. /\ \A k \in DOMAIN accepted : Append(accepted, task)[k] = accepted[k]
          /\ Append(accepted, task)[Len(accepted) + 1] = task
      BY <2>1
    <3> QED
      BY <3>1, <3>2 DEF Accepted
  <2>5. /\ queue' \in Seq(Task) /\ accepted' \in Seq(Task)
        /\ DOMAIN queue' = DOMAIN queue \cup {Len(queue) + 1}
        /\ \A k \in DOMAIN queue : queue'[k] = queue[k]
        /\ queue'[Len(queue) + 1] = task
    BY <1>4, <2>1, <2>2
  <2> QED
    BY <2>3, <2>4, <2>5
<1>6. TenantNext
  BY <1>2, <1>3 DEF TenantNext
<1>7. TenantInv'
  BY <1>6, TenantNextPreserves
<1>8. TypeOK'
  BY <1>2, <1>5, <1>7 DEF TypeOK, TenantInv, tables, workerVars
<1>9. ReportersAdmitted'
  <2>1. /\ issued[t] = report.installation_id
        /\ issued' = issued
        /\ admitted' = admitted \cup {<<report.installation_id, t>>}
    BY <1>2, <1>3 DEF Admit, token_matches, TenantInv, TokensMatch
  <2> QED
    BY <1>4, <1>5, <2>1 DEF ReportersAdmitted
<1>10. TasksReported'
  BY <1>5 DEF TasksReported
<1>11. ChildInv'
  BY <1>2, <1>5, ChildUntouched DEF ChildInv, workerVars, tables
<1>12. RowsReported' /\ RangesCharged'
  BY <1>2, <1>5 DEF RowsReported, RangesCharged, tables
<1> QED
  BY <1>7, <1>8, <1>9, <1>10, <1>11, <1>12

-------------------------------------------------------------------------------

LEMMA IncidentInit ==
    Init => IncidentInv
<1> SUFFICES ASSUME Init PROVE IncidentInv
  OBVIOUS
<1>1. TenantInv
  BY TenantInitEstablishes DEF Init
<1>2. TypeOK
  BY <1>1, ConfigAssumption DEF Init, TypeOK, TenantInv
<1>3. Accepted = {}
  BY DEF Init, Accepted
<1>4. ChildInv
  BY DEF Init, ChildInv, JobReported, RangeSplit, RowsSplit
<1> QED
  BY <1>1, <1>2, <1>3, <1>4
     DEF Init, IncidentInv, ReportersAdmitted, RowsReported, TasksReported,
         RangesCharged

LEMMA IncidentNext ==
    IncidentInv /\ [Next]_vars => IncidentInv'
<1> SUFFICES ASSUME IncidentInv, [Next]_vars PROVE IncidentInv'
  OBVIOUS
<1>1. CASE TenantNext /\ UNCHANGED <<queue, tables, workerVars, accepted, raised, finished>>
  BY <1>1, StepTenants
<1>2. CASE UNCHANGED vars
  BY <1>2, StepTenants DEF vars
<1>3. CASE \E report \in Reports, t \in DOMAIN issued : ReportIncident(report, t)
  BY <1>3, StepReport
<1>4. CASE \E w \in Workers : Step(w) \/ Raise(w)
  BY <1>4, StepBegin, StepFindCommits, StepResolveConfig, StepResolveOwners, StepSaveRow, StepRaise
     DEF Step
<1> QED
  BY <1>1, <1>2, <1>3, <1>4 DEF Next

LEMMA IncidentInvariance ==
    Spec => []IncidentInv
  BY IncidentInit, IncidentNext, PTL DEF Spec

\* Tables, queue, children, reports and tenants are well typed.
THEOREM IncidentsTypeCorrect ==
    Spec => []TypeOK
<1>1. IncidentInv => TypeOK
  BY DEF IncidentInv
<1> QED
  BY <1>1, IncidentInvariance, PTL

\* Reports are one more thing that tenants do: whatever the API and the worker do,
\* the tenants behave as module Tenants says.
THEOREM IncidentsUseTenants ==
    Spec => TenantSpec
<1>1. Init => TenantInit
  BY DEF Init
<1>2. [Next]_vars => [TenantNext]_tenantVars
  BY TenantsStep
<1> QED
  BY <1>1, <1>2, PTL DEF Spec, TenantSpec

\* Nobody is let in with the token of another tenant.
THEOREM TokensAreOwn ==
    Spec => []OwnTokenOnly
  BY InvariantImplies, IncidentInvariance, PTL

\* No webhook takes a tenant's token from it.
THEOREM TokensAreStable ==
    Spec => TokenStable
<1>1. IncidentInv /\ [Next]_vars
        => [\A i \in Installations :
              tenants[i] # NoTenant /\ restarts' = restarts =>
                /\ tenants'[i] # NoTenant
                /\ tenants'[i].api_token = tenants[i].api_token]_tenantVars
  BY TenantsStep, TokenKept DEF IncidentInv
<1> QED
  BY <1>1, IncidentInvariance, PTL DEF Spec, TokenStable

\* Webhooks that come in order, however often each, give GitHub's status.
THEOREM StatusIsFollowed ==
    Spec => []StatusFollows
  BY InvariantImplies, IncidentInvariance, PTL

\* Every row is a team's charge of an incident that its tenant reported.
THEOREM IncidentsJustified ==
    Spec => []IncidentRowsJustified
  BY InvariantImplies, IncidentInvariance, PTL

\* A report that was worked off has charged its whole range.
THEOREM RangesAreCharged ==
    Spec => []WholeRangeCharged
  BY InvariantImplies, IncidentInvariance, PTL

===============================================================================
