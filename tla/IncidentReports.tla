---------------------------- MODULE IncidentReports ----------------------------
(***************************************************************************)
(* An incident, from the request of a tenant to the events table:          *)
(* api/incidents.py lets the request in and queues a report_incident task, *)
(* and a child of the worker (worker/report_incident.py) charges every     *)
(* commit between base and head to the owners of the files it changed.     *)
(* The API process is the one of module Tenants; the broker and the tables *)
(* survive its restarts.  One action is one call of a task.                *)
(***************************************************************************)
EXTENDS Tenants, EventClassifier, MergencyConfig

CONSTANTS
    Workers,        \* children of the Celery worker
    Reports,        \* what tenants may report
    Moments,        \* what the clock may say when a report comes in without a time
    CommitsBetween, \* CommitsBetween[<<base, head>>]: the commits GitHub compares
    CommitFiles,    \* CommitFiles[sha]: what GitHub says a commit changed
    CodeownersVersions,
    ConfigFiles,
    MaxReports,     \* bound: reports that are accepted
    MaxRaises,      \* bound: tasks that raise or die
    NoConfig,       \* no row of tenant_config
    NoTask

Report == [installation_id : Installations, repo : Repos, base_sha : Shas,
           head_sha : Shas, occurred_at : Int \cup {NoTime}]
Task == {r \in Report : r.occurred_at # NoTime}

ASSUME ReportAssumption ==
    /\ Reports \subseteq Report
    /\ Moments \subseteq Int
    /\ CommitsBetween \in [Shas \X Shas -> Seq(Shas)]
    /\ CommitFiles \in [Shas -> SUBSET Files]
    /\ CodeownersVersions \subseteq Codeowners
    /\ ConfigFiles \subseteq ConfigFile
    /\ {MaxReports, MaxRaises} \subseteq Nat
    /\ Teams \subseteq Names
    /\ NoConfig \notin TenantConfig
    /\ NoTask \notin Task

VARIABLES
    queue,          \* the broker's list of report_incident tasks
    events,         \* table `events`
    tenant_config,  \* table `tenant_config`
    pc,             \* pc[w]: where child w is in its task
    job,            \* job[w]: the task it runs, or ran last
    default_team,   \* default_team[w]: config.default_team of that task
    shas,           \* shas[w]: the commits the task has still to charge
    todo,           \* todo[w]: the rows of the first of them that are still to save
    accepted,       \* accepted: history, the tasks that were queued, in their order
    raised,         \* tasks that raised or died
    finished        \* history: tasks that ran to their end

workerVars == <<pc, job, default_team, shas, todo>>
tables == <<events, tenant_config>>
vars == <<tenantVars, queue, tables, workerVars, accepted, raised, finished>>

TypeOK ==
    /\ TenantsTypeOK
    /\ queue \in Seq(Task)
    /\ events \subseteq Row
    /\ tenant_config \in [Installations -> TenantConfig \cup {NoConfig}]
    /\ pc \in [Workers -> {"idle", "range", "config", "owners", "save"}]
    /\ job \in [Workers -> Task \cup {NoTask}]
    /\ default_team \in [Workers -> Teams]
    /\ shas \in [Workers -> Seq(Shas)]
    /\ todo \in [Workers -> SUBSET Row]
    /\ accepted \in Seq(Task)
    /\ raised \in Nat
    /\ finished \subseteq Task

Init ==
    /\ TenantInit
    /\ queue = <<>>
    /\ events = {}
    /\ tenant_config = [i \in Installations |-> NoConfig]
    /\ pc = [w \in Workers |-> "idle"]
    /\ job = [w \in Workers |-> NoTask]
    /\ default_team = [w \in Workers |-> Unassigned]
    /\ shas = [w \in Workers |-> <<>>]
    /\ todo = [w \in Workers |-> {}]
    /\ accepted = <<>>
    /\ raised = 0
    /\ finished = {}

-------------------------------------------------------------------------------
\* The endpoint.

\* `incident_report.occurred_at or datetime.now(timezone.utc)`
TaskOf(report, moment) ==
    IF report.occurred_at = NoTime THEN [report EXCEPT !.occurred_at = moment] ELSE report

MutQueueOnce(report, t) ==
    /\ Len(accepted) < MaxReports
    /\ Admit(report.installation_id, t)
    /\ \E moment \in Moments :
        LET task == TaskOf(report, moment)
        IN  /\ queue' = IF \E k \in DOMAIN accepted : accepted[k] = task
                       THEN queue ELSE Append(queue, task)
            /\ accepted' = Append(accepted, task)
    /\ UNCHANGED <<tables, workerVars, raised, finished>>

\* A request with token t reports an incident.  Bound: MaxReports.
ReportIncident(report, t) ==
    /\ Len(accepted) < MaxReports
    /\ Admit(report.installation_id, t)
    /\ \E moment \in Moments :
        /\ queue' = Append(queue, TaskOf(report, moment))
        /\ accepted' = Append(accepted, TaskOf(report, moment))
    /\ UNCHANGED <<tables, workerVars, raised, finished>>

-------------------------------------------------------------------------------
\* The task.

Begin(w) ==
    /\ pc[w] = "idle"
    /\ queue # <<>>
    /\ queue' = Tail(queue)
    /\ job' = [job EXCEPT ![w] = Head(queue)]
    /\ pc' = [pc EXCEPT ![w] = "range"]
    /\ UNCHANGED <<tenantVars, tables, default_team, shas, todo, accepted, raised, finished>>

MutIncludeBase(base, head) == <<base>> \o CommitsBetween[<<base, head>>]

\* GitHub's comparison leaves base out; a range of one commit is not compared.
commits_between(base, head) ==
    IF base = head THEN <<head>> ELSE CommitsBetween[<<base, head>>]

FindCommits(w) ==
    /\ pc[w] = "range"
    /\ shas' = [shas EXCEPT ![w] = commits_between(job[w].base_sha, job[w].head_sha)]
    /\ pc' = [pc EXCEPT ![w] = "config"]
    /\ UNCHANGED <<tenantVars, queue, tables, job, default_team, todo, accepted, raised, finished>>

\* The task goes on with the commits of `rest`, or ends.
NextCommit(w, rest) ==
    /\ pc' = [pc EXCEPT ![w] = IF rest = <<>> THEN "idle" ELSE "owners"]
    /\ finished' = IF rest = <<>> THEN finished \cup {job[w]} ELSE finished

\* As in the other tasks: parse mergency.yml and upsert what it says, which raises
\* on a value the columns refuse.
ResolveConfig(w) ==
    /\ pc[w] = "config"
    /\ \E file \in ConfigFiles :
        LET config == parse_config(file)
        IN  /\ Storable(config)
            /\ tenant_config' = [tenant_config EXCEPT ![job[w].installation_id] = config]
            /\ default_team' = [default_team EXCEPT ![w] = config.default_team]
    /\ NextCommit(w, shas[w])
    /\ UNCHANGED <<tenantVars, queue, events, job, shas, todo, accepted, raised>>

IncidentEvent(task, sha) ==
    [installation_id |-> task.installation_id,
     repo            |-> task.repo,
     sha             |-> sha,
     event_type      |-> "incident",
     owner           |-> NoOwner,
     ts              |-> task.occurred_at,
     check_name      |-> NoCheck]

\* files_changed_in_commit, and the owners of those files.
ResolveOwners(w) ==
    /\ pc[w] = "owners"
    /\ LET sha == Head(shas[w])
       IN  \E read \in [CommitFiles[sha] -> CodeownersVersions] :
            todo' = [todo EXCEPT ![w] =
                        Charges(IncidentEvent(job[w], sha),
                                resolve_owners(CommitFiles[sha], read, default_team[w]))]
    /\ pc' = [pc EXCEPT ![w] = "save"]
    /\ UNCHANGED <<tenantVars, queue, tables, job, default_team, shas, accepted, raised, finished>>

MutReturnAfterFirstCommit(w) ==
    /\ pc[w] = "save"
    /\ \E e \in todo[w] :
        /\ events' = save_if_new(events, e)
        /\ todo' = [todo EXCEPT ![w] = @ \ {e}]
        /\ IF todo[w] = {e}
           THEN shas' = [shas EXCEPT ![w] = <<>>] /\ NextCommit(w, <<>>)
           ELSE UNCHANGED <<pc, shas, finished>>
    /\ UNCHANGED <<tenantVars, queue, tenant_config, job, default_team, accepted, raised>>

\* One turn of the inner loop; after its last one the outer loop goes on.
SaveRow(w) ==
    /\ pc[w] = "save"
    /\ \E e \in todo[w] :
        /\ events' = save_if_new(events, e)
        /\ todo' = [todo EXCEPT ![w] = @ \ {e}]
        /\ IF todo[w] = {e}
           THEN /\ shas' = [shas EXCEPT ![w] = Tail(@)]
                /\ NextCommit(w, Tail(shas[w]))
           ELSE UNCHANGED <<pc, shas, finished>>
    /\ UNCHANGED <<tenantVars, queue, tenant_config, job, default_team, accepted, raised>>

\* GitHub, the token endpoint or the database fails the task, or the child is
\* killed; what it had left is lost.  Bound: MaxRaises.
Raise(w) ==
    /\ pc[w] # "idle"
    /\ raised < MaxRaises
    /\ raised' = raised + 1
    /\ pc' = [pc EXCEPT ![w] = "idle"]
    /\ UNCHANGED <<tenantVars, queue, tables, job, default_team, shas, todo, accepted, finished>>

Step(w) ==
    \/ Begin(w)
    \/ FindCommits(w)
    \/ ResolveConfig(w)
    \/ ResolveOwners(w)
    \/ SaveRow(w)

Next ==
    \/ /\ TenantNext
       /\ UNCHANGED <<queue, tables, workerVars, accepted, raised, finished>>
    \/ \E report \in Reports, t \in DOMAIN issued : ReportIncident(report, t)
    \/ \E w \in Workers : Step(w) \/ Raise(w)

Spec == Init /\ [][Next]_vars

\* A child that can go on does.  Nothing is assumed of tenants, of GitHub's
\* webhooks, of restarts or of failures.
FairSpec == Spec /\ \A w \in Workers : WF_vars(Step(w))

-------------------------------------------------------------------------------

\* The commits an incident is about: those that came after base, up to head, or the
\* one that is both.
CommitsOf(task) ==
    LET range == <<task.base_sha, task.head_sha>>
    IN  IF range[1] = range[2] THEN {task.head_sha}
        ELSE {CommitsBetween[range][k] : k \in DOMAIN CommitsBetween[range]}

TeamsCharged ==
    Teams \cup {n \in Names : \E v \in CodeownersVersions, f \in Files : <<"TEAM", n>> \in v[f]}

\* Row r is a charge of the incident that the task is about.
IsChargeOf(r, task) ==
    /\ r.installation_id = task.installation_id
    /\ r.repo = task.repo
    /\ r.sha \in CommitsOf(task)
    /\ r.ts = task.occurred_at

\* Every row is a charge, to a team, of an incident that the tenant itself reported:
\* with its own token, in its own repository, for a commit of the range.  Reports of
\* several tenants, overlapping ranges and half-done tasks never mix.
IncidentRowsJustified ==
    \A r \in events :
        /\ r.event_type = "incident"
        /\ r.owner \in TeamsCharged
        /\ \E k \in DOMAIN accepted : IsChargeOf(r, accepted[k])
        /\ \E t \in DOMAIN issued : /\ issued[t] = r.installation_id
                                   /\ <<r.installation_id, t>> \in admitted

\* A report that was worked off has charged every commit of its range to all owners
\* that some reading of CODEOWNERS gives it, or finds them charged by another one.
WholeRangeCharged ==
    \A task \in finished : \A sha \in CommitsOf(task) :
        \E read \in [CommitFiles[sha] -> CodeownersVersions], team \in Teams :
            \A e \in Charges(IncidentEvent(task, sha),
                             resolve_owners(CommitFiles[sha], read, team)) :
                HasKey(events, e)

Times(task) == Cardinality({k \in DOMAIN accepted : accepted[k] = task})

\* An incident reported more often than tasks can fail is charged in full: reporting
\* it again does what a task that died half-way left undone.
ReportRepairs ==
    \A task \in {TaskOf(report, moment) : report \in Reports, moment \in Moments} :
        (Times(task) > MaxRaises) ~> (task \in finished)

===============================================================================
