--------------------------- MODULE ActivityPipeline ---------------------------
(***************************************************************************)
(* From a webhook to the events table: webhooks.py puts a                  *)
(* classify_activity_event task on the broker, and the children of the     *)
(* Celery worker run the tasks one at a time each, side by side.  Inside a *)
(* task everything is sequential, and every call to GitHub or PostgreSQL   *)
(* is a point where another child can run; each database call commits on   *)
(* its own.  One action is one such piece of a task.                       *)
(*                                                                         *)
(* Tasks are acknowledged when they start (Celery's default, which         *)
(* celery_app.py keeps) and nothing retries them: a task that raises, or   *)
(* whose child dies, is gone with what it had left to do.                  *)
(***************************************************************************)
EXTENDS EventClassifier, MergencyConfig

CONSTANTS
    Workers,            \* children of the Celery worker
    Payloads,           \* the webhook payloads GitHub has to deliver
    SentAfter,          \* SentAfter[p]: payloads GitHub delivers before p
    MaxDeliveries,      \* bound: how often one payload is delivered
    MaxRaises,          \* bound: how many tasks raise or die
    CommitFiles,        \* CommitFiles[sha]: what GitHub says a commit changed
    CodeownersVersions, \* readings of CODEOWNERS while the system runs
    ConfigFiles,        \* states of mergency.yml while the system runs
    CorrelationWindow,  \* _CORRELATION_WINDOW
    NoConfig            \* no row of tenant_config

ASSUME PipelineAssumption ==
    /\ Payloads \subseteq Payload
    /\ SentAfter \in [Payloads -> SUBSET Payloads]
    /\ MaxDeliveries \in Nat
    /\ MaxRaises \in Nat
    /\ CommitFiles \in [Shas -> SUBSET Files]
    /\ CodeownersVersions \subseteq Codeowners
    /\ ConfigFiles \subseteq ConfigFile
    /\ CorrelationWindow \in Nat
    /\ Teams \subseteq Names
    /\ NoConfig \notin TenantConfig

VARIABLES
    queue,          \* the broker's list of classify_activity_event tasks
    events,         \* table `events`
    tenant_config,  \* table `tenant_config`
    pc,             \* pc[w]: where child w is in its task
    job,            \* job[w]: the payload of the task it runs, or ran last
    default_team,   \* default_team[w]: config.default_team of that task
    loop,           \* loop[w]: the rows its last loop goes, or went, over
    todo,           \* todo[w]: the rows that loop has not reached yet
    delivered,      \* delivered[p]: times payload p was delivered
    raised,         \* tasks that raised or died
    kept,           \* history: rows of the save loops that ran to their end
    excused         \* history: rows of the retype loops that ran to their end

vars == <<queue, events, tenant_config, pc, job, default_team, loop, todo,
          delivered, raised, kept, excused>>

locals == <<job, default_team, loop, todo>>
history == <<kept, excused>>

TypeOK ==
    /\ queue \in Seq(Payloads)
    /\ events \subseteq Row
    /\ tenant_config \in [Installations -> TenantConfig \cup {NoConfig}]
    /\ pc \in [Workers -> {"idle", "config", "owners", "save", "find", "retype"}]
    /\ job \in [Workers -> Payload]
    /\ default_team \in [Workers -> Teams]
    /\ loop \in [Workers -> SUBSET Row]
    /\ todo \in [Workers -> SUBSET Row]
    /\ delivered \in [Payloads -> Nat]
    /\ raised \in Nat
    /\ kept \subseteq Row
    /\ excused \subseteq Row

Init ==
    /\ queue = <<>>
    /\ events = {}
    /\ tenant_config = [i \in Installations |-> NoConfig]
    /\ pc = [w \in Workers |-> "idle"]
    /\ job = [w \in Workers |-> Malformed]
    /\ default_team = [w \in Workers |-> Unassigned]
    /\ loop = [w \in Workers |-> {}]
    /\ todo = [w \in Workers |-> {}]
    /\ delivered = [p \in Payloads |-> 0]
    /\ raised = 0
    /\ kept = {}
    /\ excused = {}

-------------------------------------------------------------------------------
\* The receiver.  A signed push or check_run webhook is queued and answered.
\* GitHub delivers a payload late or again; bound: MaxDeliveries of each.

MutDeliverOnce(p) ==
    /\ delivered[p] < MaxDeliveries
    /\ \A q \in SentAfter[p] : delivered[q] > 0
    /\ delivered' = [delivered EXCEPT ![p] = @ + 1]
    /\ queue' = IF delivered[p] = 0 THEN Append(queue, p) ELSE queue
    /\ UNCHANGED <<events, tenant_config, pc, locals, raised, history>>

Deliver(p) ==
    /\ delivered[p] < MaxDeliveries
    /\ \A q \in SentAfter[p] : delivered[q] > 0
    /\ delivered' = [delivered EXCEPT ![p] = @ + 1]
    /\ queue' = Append(queue, p)
    /\ UNCHANGED <<events, tenant_config, pc, locals, raised, history>>

-------------------------------------------------------------------------------
\* The task.

\* Where a task goes once its payload is parsed and classified: to the event's
\* fan-out, to the flaky test detector, or nowhere.
Route(p) ==
    IF p = Malformed THEN "idle"
    ELSE IF classify(p) # NoEvent THEN "config"
    ELSE IF is_flaky_candidate(p) THEN "find" ELSE "idle"

\* A child takes the oldest task, acknowledging it, and runs it to its first call.
Begin(w) ==
    /\ pc[w] = "idle"
    /\ queue # <<>>
    /\ queue' = Tail(queue)
    /\ job' = [job EXCEPT ![w] = Head(queue)]
    /\ pc' = [pc EXCEPT ![w] = Route(Head(queue))]
    /\ loop' = [loop EXCEPT ![w] = {}]
    /\ todo' = [todo EXCEPT ![w] = {}]
    /\ UNCHANGED <<events, tenant_config, default_team, delivered, raised, history>>

\* ConfigResolver.resolve: read mergency.yml, parse it, upsert it, return it.  On a
\* value the columns refuse the upsert raises, which is left to Raise.
ResolveConfig(w) ==
    /\ pc[w] = "config"
    /\ \E file \in ConfigFiles :
        LET config == parse_config(file)
        IN  /\ Storable(config)
            /\ tenant_config' = [tenant_config EXCEPT ![job[w].installation_id] = config]
            /\ default_team' = [default_team EXCEPT ![w] = config.default_team]
    /\ pc' = [pc EXCEPT ![w] = "owners"]
    /\ UNCHANGED <<queue, events, job, loop, todo, delivered, raised, history>>

\* _changed_files_for: a push lists its files, for a check run GitHub is asked, before
\* the configuration is resolved; what a commit changes is the same whenever one asks.
changed_files_for(p) ==
    IF p.kind = "push"
    THEN p.commits[First(RevertsIn(p))].files
    ELSE CommitFiles[p.sha]

\* OwnershipResolver.resolve_owners; the version of CODEOWNERS that each path is
\* looked up in is whatever the cache or GitHub gives at that moment.
ResolveOwners(w) ==
    /\ pc[w] = "owners"
    /\ \E read \in [changed_files_for(job[w]) -> CodeownersVersions] :
        LET owners == resolve_owners(changed_files_for(job[w]), read, default_team[w])
        IN  /\ loop' = [loop EXCEPT ![w] = Charges(classify(job[w]), owners)]
            /\ todo' = [todo EXCEPT ![w] = Charges(classify(job[w]), owners)]
    /\ pc' = [pc EXCEPT ![w] = "save"]
    /\ UNCHANGED <<queue, events, tenant_config, job, default_team, delivered, raised, history>>

\* The next turn of the loop: e is done, and the task ends after the last row.
Advance(w, e) ==
    /\ todo' = [todo EXCEPT ![w] = @ \ {e}]
    /\ pc' = [pc EXCEPT ![w] = IF todo[w] = {e} THEN "idle" ELSE @]

\* One turn of `for owner in owners: save_if_new(...)`.  The code goes through the
\* owners in the order of their names; names have no order here.
SaveRow(w) ==
    /\ pc[w] = "save"
    /\ \E e \in todo[w] :
        /\ events' = save_if_new(events, e)
        /\ Advance(w, e)
        /\ kept' = IF todo[w] = {e} THEN kept \cup loop[w] ELSE kept
    /\ UNCHANGED <<queue, tenant_config, job, default_team, loop, delivered, raised, excused>>

\* The build failures FlakyTestDetector looks up for the successful run p.
PriorFailures(p) ==
    find_recent(events, p.installation_id, p.repo, p.sha, p.check_name,
                "build_failure", p.completed_at - CorrelationWindow)

FindRecent(w) ==
    /\ pc[w] = "find"
    /\ loop' = [loop EXCEPT ![w] = PriorFailures(job[w])]
    /\ todo' = [todo EXCEPT ![w] = PriorFailures(job[w])]
    /\ pc' = [pc EXCEPT ![w] = IF PriorFailures(job[w]) = {} THEN "idle" ELSE "retype"]
    /\ UNCHANGED <<queue, events, tenant_config, job, default_team, delivered, raised, history>>

\* One turn of `for failure in prior_failures: retype(...)`, in any order: the
\* query has no ORDER BY.
RetypeRow(w) ==
    /\ pc[w] = "retype"
    /\ \E e \in todo[w] :
        /\ events' = retype(events, e, "flaky_test")
        /\ Advance(w, e)
        /\ excused' = IF todo[w] = {e} THEN excused \cup loop[w] ELSE excused
    /\ UNCHANGED <<queue, tenant_config, job, default_team, loop, delivered, raised, kept>>

\* A call of the task raises (GitHub, the token endpoint, the database) or the
\* child is killed.  What was committed stays, the rest never happens.
\* Bound: MaxRaises.
Raise(w) ==
    /\ pc[w] # "idle"
    /\ raised < MaxRaises
    /\ raised' = raised + 1
    /\ pc' = [pc EXCEPT ![w] = "idle"]
    /\ UNCHANGED <<queue, events, tenant_config, locals, delivered, history>>

-------------------------------------------------------------------------------

Step(w) ==
    \/ Begin(w)
    \/ ResolveConfig(w)
    \/ ResolveOwners(w)
    \/ SaveRow(w)
    \/ FindRecent(w)
    \/ RetypeRow(w)

Next ==
    \/ \E p \in Payloads : Deliver(p)
    \/ \E w \in Workers : Step(w) \/ Raise(w)

Spec == Init /\ [][Next]_vars

\* A child that can go on does: the calls of a task return or raise.  Nothing is
\* assumed of GitHub's deliveries or of failures.
FairSpec == Spec /\ \A w \in Workers : WF_vars(Step(w))

-------------------------------------------------------------------------------
\* What happened, said of the payloads themselves.

OnDefaultBranch(p) ==
    /\ p # Malformed
    /\ p.kind = "check_run"
    /\ p.action = "completed"
    /\ p.head_branch = p.default_branch
    /\ p.completed_at # NoTime

Failed(p) == OnDefaultBranch(p) /\ (p.conclusion = "failure" \/ p.conclusion = "timed_out")
Passed(p) == OnDefaultBranch(p) /\ p.conclusion = "success"

\* The check that failed as p says passed as q says, on the same commit, and the
\* failure is no older than the correlation window.  It may be newer than the success:
\* the detector sets no other limit.
Recovers(q, p) ==
    /\ Passed(q)
    /\ q.installation_id = p.installation_id
    /\ q.repo = p.repo
    /\ q.sha = p.sha
    /\ q.check_name = p.check_name
    /\ q.completed_at - CorrelationWindow <= p.completed_at

\* Where push p reverts something on the default branch.
Reverting(p) ==
    IF p = Malformed \/ p.kind # "push" \/ p.ref # <<"heads", p.default_branch>>
    THEN {}
    ELSE {i \in DOMAIN p.commits : p.commits[i].message # "plain"}

\* Row r stands for the failed run p, or for commit i of push p.
IsFailureRow(r, p) ==
    /\ r.installation_id = p.installation_id
    /\ r.repo = p.repo
    /\ r.sha = p.sha
    /\ r.check_name = p.check_name
    /\ r.ts = p.completed_at

IsRevertRow(r, p, i) ==
    /\ r.installation_id = p.installation_id
    /\ r.repo = p.repo
    /\ r.sha = p.commits[i].sha
    /\ r.check_name = NoCheck
    /\ r.ts = p.commits[i].timestamp

Seen == {p \in Payloads : delivered[p] > 0}

JustifiedFailure(r) == \E p \in Seen : Failed(p) /\ IsFailureRow(r, p)
JustifiedFlaky(r) ==
    \E p \in Seen : /\ Failed(p)
                    /\ IsFailureRow(r, p)
                    /\ \E q \in Seen : Recovers(q, p)
JustifiedRevert(r) == \E p \in Seen : \E i \in Reverting(p) : IsRevertRow(r, p, i)

\* An owner is a team of CODEOWNERS or a default team, never a person.
TeamsCharged ==
    Teams \cup {n \in Names : \E v \in CodeownersVersions, f \in Files : <<"TEAM", n>> \in v[f]}

\* Every row of `events` records something that was delivered, and only a failure
\* whose own check passed on the same commit, inside the window, is a flaky test.
\* `retype` finds its row by a key without check_name, after `find_recent` looked
\* it up with check_name in another transaction: by then the row under that key
\* may be that of another check.  People listed in CODEOWNERS are charged nothing.
RowsJustified ==
    \A r \in events :
        /\ r.owner \in TeamsCharged
        /\ r.event_type \in {"build_failure", "flaky_test", "revert"}
        /\ r.event_type = "build_failure" => JustifiedFailure(r)
        /\ r.event_type = "flaky_test" => JustifiedFlaky(r)
        /\ r.event_type = "revert" => JustifiedRevert(r)

\* A charge that a task finished recording stays recorded for each owner of its
\* fan-out, as what it was or as a flaky test: no later or concurrent insert or
\* retype loses it.
KeptCharges ==
    \A r \in kept : HasKey(events, r) \/ HasKey(events, Retyped(r, "flaky_test"))

\* Once a flaky test task has gone through the failures it found, each of them
\* stands in the table as a flaky test, whether this task or another one got
\* there first (retype returns False to one of them).
ExcusedFailures == \A r \in excused : HasKey(events, Retyped(r, "flaky_test"))

-------------------------------------------------------------------------------
\* Once everything delivered has been worked off.

Quiet == queue = <<>> /\ \A w \in Workers : pc[w] = "idle"
Undisturbed == Quiet /\ raised = 0

HasRowOf(installation_id, repo, sha, types) ==
    \E r \in events : /\ r.installation_id = installation_id
                      /\ r.repo = repo
                      /\ r.sha = sha
                      /\ r.event_type \in types

\* A delivered failure whose check never passed within the window counts against
\* somebody's budget: the success of something else does not excuse it.
GenuineFailuresCounted ==
    Undisturbed =>
        \A p \in Seen :
            Failed(p) /\ (\A q \in Seen : ~Recovers(q, p))
            => HasRowOf(p.installation_id, p.repo, p.sha, {"build_failure"})

\* A failure whose check then passed on the same commit, within the window, counts
\* against nobody's budget.
FlakyFailuresExcused ==
    Undisturbed =>
        \A p, q \in Seen :
            Failed(p) /\ Recovers(q, p) /\ q.completed_at >= p.completed_at
            => ~ \E r \in events : r.event_type = "build_failure" /\ IsFailureRow(r, p)

\* A failure is on the books once: no failed run counts against an owner who has
\* been excused for it.
CountedOrExcused ==
    \A r1, r2 \in events :
        ~ /\ r1.event_type = "build_failure"
          /\ r2 = Retyped(r1, "flaky_test")

\* The first revert commit of a push, whatever stands before and behind it, is
\* recorded in the end once the push was delivered more often than tasks can fail.
FirstRevertRecorded ==
    \A p \in {q \in Payloads : Reverting(q) # {}} :
        (delivered[p] > MaxRaises) ~>
            (\E i \in Reverting(p) :
                /\ \A j \in Reverting(p) : i <= j
                /\ HasRowOf(p.installation_id, p.repo, p.commits[i].sha, {"revert"}))

\* A failure delivered more often than tasks can fail gets all its owners charged:
\* a redelivery does what a task that died half-way left undone.
RedeliveryRepairs ==
    \A p \in {q \in Payloads : Failed(q)} :
        (delivered[p] > MaxRaises) ~> (\E r \in kept : IsFailureRow(r, p))

-------------------------------------------------------------------------------
\* The table, read as a ledger of charges, keeps the promise of EventLedger.

Account(r) == <<r.installation_id, r.repo, r.sha, r.owner>>
LedgerOf(table) == {<<Account(r), r.event_type>> : r \in table}

Ledger == INSTANCE EventLedger WITH
    ledger   <- LedgerOf(events),
    Accounts <- Installations \X Repos \X Shas \X Names

ImplementsLedger == Ledger!Spec

-------------------------------------------------------------------------------
\* The inductive invariant: RowsJustified and the history properties, with what
\* the running tasks hold.

\* What was queued, and is worked on, was delivered.
TasksSeen ==
    /\ \A i \in DOMAIN queue : queue[i] \in Seen
    /\ \A w \in Workers : pc[w] # "idle" => job[w] \in Seen /\ job[w] # Malformed

\* An event on its way to the table is one the classifier made.
EventsClassified ==
    \A w \in Workers : pc[w] \in {"config", "owners"} => classify(job[w]) # NoEvent

CandidatesFlaky ==
    \A w \in Workers : pc[w] \in {"find", "retype"} => is_flaky_candidate(job[w])

\* A row of the save loop may be inserted, and those behind the loop are on the
\* books.
SaveLoop(w) ==
    /\ todo[w] \subseteq loop[w]
    /\ \A e \in loop[w] :
        /\ e.owner \in TeamsCharged
        /\ \/ e.event_type = "build_failure" /\ JustifiedFailure(e)
           \/ e.event_type = "revert" /\ JustifiedRevert(e)
    /\ \A e \in loop[w] \ todo[w] : HasKey(events, e) \/ HasKey(events, Retyped(e, "flaky_test"))

\* A row of the retype loop failed the check that job[w] saw pass.  As long as it
\* has no flaky twin it is still in the table as it was found; the key it had may
\* be another row's only once the twin is there, and then retype changes nothing.
RetypeLoop(w) ==
    /\ todo[w] \subseteq loop[w]
    /\ \A e \in loop[w] :
        /\ e.event_type = "build_failure"
        /\ e.installation_id = job[w].installation_id
        /\ e.repo = job[w].repo
        /\ e.sha = job[w].sha
        /\ e.check_name = job[w].check_name
        /\ e.ts >= job[w].completed_at - CorrelationWindow
        /\ e \in events \/ HasKey(events, Retyped(e, "flaky_test"))
    /\ \A e \in loop[w] \ todo[w] : HasKey(events, Retyped(e, "flaky_test"))

Loops ==
    \A w \in Workers :
        /\ pc[w] = "save" => SaveLoop(w)
        /\ pc[w] = "retype" => RetypeLoop(w)

KindsRight ==
    /\ \A r \in kept : r.event_type \in {"build_failure", "revert"}
    /\ \A r \in excused : r.event_type = "build_failure"

\* The key constraint of the table, by which `retype` moves at most one row.
UniqueKey == UniqueKeys(events)

IInv ==
    /\ TypeOK
    /\ TasksSeen
    /\ EventsClassified
    /\ CandidatesFlaky
    /\ Loops
    /\ KindsRight
    /\ UniqueKey
    /\ RowsJustified
    /\ KeptCharges
    /\ ExcusedFailures

-------------------------------------------------------------------------------
\* Under what deliveries, and how many children, the books are right at the end.

SameCommit(p, q) ==
    /\ p.installation_id = q.installation_id
    /\ p.repo = q.repo
    /\ p.sha = q.sha

Failures == {p \in Payloads : Failed(p)}

\* q excuses some failure of the commit of p, if not p itself.
ExcusesCommitOf(q, p) == \E other \in Failures : SameCommit(other, p) /\ Recovers(q, other)

\* A success that excuses a failure of a commit excuses all of them, as it does
\* when only one check of a commit fails and it fails once.
ExcusedTogether ==
    \A p \in Failures, q \in Payloads : ExcusesCommitOf(q, p) => Recovers(q, p)

\* It is delivered after all of them.
ExcusedLast ==
    \A p \in Failures, q \in Payloads : ExcusesCommitOf(q, p) => p \in SentAfter[q]

\* One child runs the tasks, and nothing is delivered twice.
OneAtATime == \A v, w \in Workers : v = w
SentOnce == MaxDeliveries = 1

Ordered == OneAtATime /\ SentOnce /\ ExcusedLast

Queued(p) == \E i \in DOMAIN queue : queue[i] = p
InHand(p) == \E w \in Workers : pc[w] # "idle" /\ job[w] = p

-------------------------------------------------------------------------------
\* Why GenuineFailuresCounted holds when failures are excused together.

\* The rows left to a save loop are of the event it fans out, and some are left.
SavesItsEvent ==
    \A w \in Workers :
        pc[w] = "save" => /\ classify(job[w]) # NoEvent
                          /\ todo[w] # {}
                          /\ todo[w] \subseteq Charges(classify(job[w]), Names)

\* A failure that nothing excuses is in the queue, in a child's hands, or counted.
CountedInTheEnd ==
    raised = 0 =>
        \A p \in Seen :
            Failed(p) /\ (\A q \in Seen : ~Recovers(q, p))
            => \/ Queued(p)
               \/ InHand(p)
               \/ HasRowOf(p.installation_id, p.repo, p.sha, {"build_failure"})

CountInv == IInv /\ SavesItsEvent /\ CountedInTheEnd

-------------------------------------------------------------------------------
\* Why FlakyFailuresExcused and CountedOrExcused hold when successes come last,
\* once, to one child.

\* A payload is in one place of the queue or in one child's hands, not in both.
HandledOnce ==
    /\ \A p \in Payloads : delivered[p] <= 1
    /\ \A i, j \in DOMAIN queue : queue[i] = queue[j] => i = j
    /\ \A w \in Workers : pc[w] # "idle" => ~Queued(job[w])

ArrivedInOrder == \A q \in Seen : SentAfter[q] \subseteq Seen

\* A success waits behind the failures of the commit it excuses.
SuccessesWait ==
    \A p \in Failures, q \in Seen :
        ExcusesCommitOf(q, p) =>
            /\ \A i \in DOMAIN queue :
                    queue[i] = p => \E j \in DOMAIN queue : i < j /\ queue[j] = q
            /\ InHand(p) => Queued(q)

\* What was excused was excused by a success that is not in the queue any more.
ExcuserTaken ==
    \A r \in events :
        r.event_type = "flaky_test" =>
            \E p, q \in Seen : /\ Failed(p)
                              /\ IsFailureRow(r, p)
                              /\ Recovers(q, p)
                              /\ ~Queued(q)

\* A failure and a flaky test are never both on the books of one owner for one
\* commit: the key under which a failure is excused is free.
KindsApart ==
    \A r1, r2 \in events :
        r1.event_type = "build_failure" /\ r2.event_type = "flaky_test"
        => Account(r1) # Account(r2)

FailureRows(p) == {r \in events : r.event_type = "build_failure" /\ IsFailureRow(r, p)}

\* The failures that a success excuses are on its way, in its hands, or gone.
ExcusedInTheEnd ==
    raised = 0 =>
        \A p \in Failures, q \in Seen :
            Recovers(q, p) =>
                \/ Queued(q)
                \/ \E w \in Workers : job[w] = q /\ pc[w] = "find"
                \/ \E w \in Workers : /\ job[w] = q
                                      /\ pc[w] = "retype"
                                      /\ FailureRows(p) \subseteq todo[w]
                \/ FailureRows(p) = {}

OrderInv ==
    /\ IInv
    /\ SavesItsEvent
    /\ HandledOnce
    /\ ArrivedInOrder
    /\ SuccessesWait
    /\ ExcuserTaken
    /\ KindsApart
    /\ ExcusedInTheEnd

===============================================================================
