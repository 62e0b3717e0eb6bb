----------------------------- MODULE PrCommentBot -----------------------------
(***************************************************************************)
(* worker/evaluate_pr_budget.py: a pull request that touches an owner with *)
(* little budget left carries one comment that says so.  Evaluations wait  *)
(* in the same broker queue, and run in the same children, as the tasks    *)
(* that classify activity; those are reduced here to what an evaluation    *)
(* can notice: the upsert of their repository's configuration and the one  *)
(* row they insert or retype.  One action is one call of a task.           *)
(***************************************************************************)
EXTENDS Budget, EventClassifier

CONSTANTS
    Workers,        \* children of the Celery worker
    Pulls,          \* pull requests: installation_id, repo and number
    Heads,          \* Heads[p]: the sets of files pull request p may change
    Activity,       \* classify_activity_event tasks the broker may receive
    CodeownersOf,   \* CodeownersOf[repo]; a stale copy in the cache is not modelled here
    ConfigOf,       \* ConfigOf[repo]: that repository's mergency.yml, which stays as it is
    NoTask,
    MaxTriggers,    \* bound: webhooks of one pull request
    MaxRaises,      \* bound: tasks that raise or die
    MaxTime         \* bound: the clock, in days

PullTask == [kind : {"pull"}, subject : Pulls]
ActivityTask == [kind : {"charge", "excuse"}, subject : Row]

ASSUME BotAssumption ==
    /\ \A p \in Pulls : p.installation_id \in Installations /\ p.repo \in Repos
    /\ Heads \in [Pulls -> SUBSET SUBSET Files]
    /\ \A p \in Pulls : Heads[p] # {}
    /\ Activity \subseteq ActivityTask
    /\ CodeownersOf \in [Repos -> Codeowners]
    /\ ConfigOf \in [Repos -> ConfigFile]
    /\ NoTask \notin PullTask \cup ActivityTask
    /\ {MaxTriggers, MaxRaises, MaxTime} \subseteq Nat
    /\ Teams \subseteq Names
    /\ NoConfig \notin TenantConfig
    /\ IsFiniteSet(Workers)

VARIABLES
    queue,          \* the broker's list of tasks
    events,         \* table `events`
    tenant_config,  \* table `tenant_config`
    now,            \* the clock
    files,          \* files[p]: what pull request p changes, at GitHub
    comments,       \* comments[p]: its marked comments, oldest first
    pc,             \* pc[w]: where child w is in its task
    job,            \* job[w]: the task it runs, or ran last
    frame,          \* frame[w]: the local variables of that task
    triggered,      \* triggered[p]: webhooks sent for p
    queued,         \* activity tasks that were queued
    raised,         \* tasks that raised or died
    steady,         \* history: steady[p], the last evaluation of p to begin has had p
                    \* to itself, and nothing it reads has changed since it began
    spoilt,         \* history: pull requests of which an evaluation died or was
                    \* overwritten since their last webhook
    overwritten     \* history: those of which any evaluation ever was

\* An evaluation is overwritten when another repository's configuration replaces its
\* own in the row of the installation while it has still to read it back.
history == <<steady, spoilt, overwritten>>

vars == <<queue, events, tenant_config, now, files, comments, pc, job, frame,
          triggered, queued, raised, history>>

github == <<files, comments>>
counters == <<triggered, queued, raised>>

Body == [kind : {"shrinking"}, headline : {"warn", "breach"}, rows : SUBSET BudgetStatus]
            \cup [kind : {"recovered"}]

Frame ==
    [changed_files      : SUBSET Files,
     default_team       : Teams,
     warn_threshold_pct : Int,
     owners             : SUBSET Names,     \* those `evaluate` has not reached
     owner              : Names,            \* the one it is at
     terms              : [window_days : Int, limit : Int],
     shrinking          : SUBSET BudgetStatus,
     existing           : Nat]              \* the comment found; 0 for None

EmptyFrame ==
    [changed_files |-> {}, default_team |-> Unassigned, warn_threshold_pct |-> 0,
     owners |-> {}, owner |-> Unassigned, terms |-> FallbackConfig,
     shrinking |-> {}, existing |-> 0]

Stages == {"idle", "files", "config", "owners", "terms", "count", "find", "post",
           "charge", "excuse"}

TypeOK ==
    /\ queue \in Seq(PullTask \cup Activity)
    /\ events \subseteq Row /\ IsFiniteSet(events)
    /\ tenant_config \in [Installations -> TenantConfig \cup {NoConfig}]
    /\ now \in 0..MaxTime
    /\ files \in [Pulls -> SUBSET Files]
    /\ comments \in [Pulls -> Seq(Body)]
    /\ pc \in [Workers -> Stages]
    /\ job \in [Workers -> PullTask \cup Activity \cup {NoTask}]
    /\ frame \in [Workers -> Frame]
    /\ triggered \in [Pulls -> Nat]
    /\ queued \subseteq Activity
    /\ raised \in Nat
    /\ steady \in [Pulls -> BOOLEAN]
    /\ spoilt \subseteq Pulls
    /\ overwritten \subseteq Pulls

Init ==
    /\ queue = <<>>
    /\ events = {}
    /\ tenant_config = [i \in Installations |-> NoConfig]
    /\ now = 0
    /\ files \in {f \in [Pulls -> SUBSET Files] : \A p \in Pulls : f[p] \in Heads[p]}
    /\ comments = [p \in Pulls |-> <<>>]
    /\ pc = [w \in Workers |-> "idle"]
    /\ job = [w \in Workers |-> NoTask]
    /\ frame = [w \in Workers |-> EmptyFrame]
    /\ triggered = [p \in Pulls |-> 0]
    /\ queued = {}
    /\ raised = 0
    /\ steady = [p \in Pulls |-> FALSE]
    /\ spoilt = {}
    /\ overwritten = {}

-------------------------------------------------------------------------------
\* The world.

\* A webhook of pull request p: opened, reopened, or synchronize after a push that
\* may change what p touches.  Other actions are answered and queue nothing.
Trigger(p) ==
    /\ triggered[p] < MaxTriggers
    /\ triggered' = [triggered EXCEPT ![p] = @ + 1]
    /\ \E head \in Heads[p] : files' = [files EXCEPT ![p] = head]
    /\ queue' = Append(queue, [kind |-> "pull", subject |-> p])
    /\ steady' = [steady EXCEPT ![p] = FALSE]
    /\ spoilt' = spoilt \ {p}
    /\ UNCHANGED <<events, tenant_config, now, comments, pc, job, frame, queued, raised,
                   overwritten>>

\* An activity webhook.
QueueActivity(task) ==
    /\ task \notin queued
    /\ queued' = queued \cup {task}
    /\ queue' = Append(queue, task)
    /\ UNCHANGED <<events, tenant_config, now, github, pc, job, frame, triggered, raised,
                   history>>

\* Bound: MaxTime.
Tick ==
    /\ now < MaxTime
    /\ now' = now + 1
    /\ steady' = [p \in Pulls |-> FALSE]
    /\ UNCHANGED <<queue, events, tenant_config, github, pc, job, frame, counters, spoilt,
                   overwritten>>

-------------------------------------------------------------------------------
\* A task.

\* Its first call.
FirstStage(task) ==
    IF task.kind = "pull" THEN "files" ELSE IF task.kind = "charge" THEN "config" ELSE "excuse"

\* A child is in the middle of an evaluation of p.
Working(w, p) == pc[w] # "idle" /\ job[w] = [kind |-> "pull", subject |-> p]

\* A child takes the oldest task, acknowledging it.
Begin(w) ==
    /\ pc[w] = "idle"
    /\ queue # <<>>
    /\ queue' = Tail(queue)
    /\ job' = [job EXCEPT ![w] = Head(queue)]
    /\ pc' = [pc EXCEPT ![w] = FirstStage(Head(queue))]
    /\ frame' = [frame EXCEPT ![w] = EmptyFrame]
    /\ steady' = [p \in Pulls |-> IF Head(queue) = [kind |-> "pull", subject |-> p]
                                  THEN \A v \in Workers : ~Working(v, p) ELSE steady[p]]
    /\ UNCHANGED <<events, tenant_config, now, github, counters, spoilt, overwritten>>

\* The pull request's files as GitHub has them now, not as of the webhook.
FilesChanged(w) ==
    /\ pc[w] = "files"
    /\ frame' = [frame EXCEPT ![w].changed_files = files[job[w].subject]]
    /\ pc' = [pc EXCEPT ![w] = "config"]
    /\ UNCHANGED <<queue, events, tenant_config, now, github, job, counters, history>>

OwnConfig(subject) == parse_config(ConfigOf[subject.repo])

OwnTerms(subject) ==
    [window_days |-> OwnConfig(subject).rolling_window_days,
     limit       |-> OwnConfig(subject).max_events_per_window]

\* An evaluation that has written the row and has still to read it back.
ReadsAgain(w) ==
    \/ pc[w] \in {"owners", "terms"}
    \/ pc[w] = "count" /\ frame[w].owners # {}

\* The pull requests of which w's upsert overwrites an evaluation.
Overwrites(w) ==
    {p \in Pulls :
        /\ \E v \in Workers \ {w} : Working(v, p) /\ ReadsAgain(v)
        /\ p.installation_id = job[w].subject.installation_id
        /\ OwnTerms(p) # OwnTerms(job[w].subject)}

Spoil(pulls) ==
    /\ spoilt' = spoilt \cup pulls
    /\ steady' = [p \in Pulls |-> steady[p] /\ p \notin pulls]

MutInsertOnce(w) ==
    /\ pc[w] = "config"
    /\ LET config == OwnConfig(job[w].subject)
       IN  /\ Storable(config)
           /\ tenant_config' = [tenant_config EXCEPT
                ![job[w].subject.installation_id] = IF @ = NoConfig THEN config ELSE @]
           /\ frame' = [frame EXCEPT ![w].default_team = config.default_team,
                                     ![w].warn_threshold_pct = config.warn_threshold_pct]
    /\ pc' = [pc EXCEPT ![w] = IF job[w].kind = "pull" THEN "owners" ELSE "charge"]
    /\ Spoil(Overwrites(w))
    /\ overwritten' = overwritten \cup Overwrites(w)
    /\ UNCHANGED <<queue, events, now, github, job, counters>>

\* ConfigResolver.resolve: the repository's file becomes the row of the whole
\* installation, whichever repository the row was of, and is also returned.
ResolveConfig(w) ==
    /\ pc[w] = "config"
    /\ LET config == OwnConfig(job[w].subject)
       IN  /\ Storable(config)
           /\ tenant_config' = [tenant_config EXCEPT ![job[w].subject.installation_id] = config]
           /\ frame' = [frame EXCEPT ![w].default_team = config.default_team,
                                     ![w].warn_threshold_pct = config.warn_threshold_pct]
    /\ pc' = [pc EXCEPT ![w] = IF job[w].kind = "pull" THEN "owners" ELSE "charge"]
    /\ Spoil(Overwrites(w))
    /\ overwritten' = overwritten \cup Overwrites(w)
    /\ UNCHANGED <<queue, events, now, github, job, counters>>

\* PrBudgetEvaluator.evaluate, first call.
ResolveOwners(w) ==
    /\ pc[w] = "owners"
    /\ LET changed_files == frame[w].changed_files
           read == [f \in changed_files |-> CodeownersOf[job[w].subject.repo]]
       IN  frame' = [frame EXCEPT ![w].owners =
                        resolve_owners(changed_files, read, frame[w].default_team)]
    /\ pc' = [pc EXCEPT ![w] = "terms"]
    /\ UNCHANGED <<queue, events, tenant_config, now, github, job, counters, history>>

\* BudgetCalculator.status_for the next owner: the tenant's row is read again, as it
\* is now.  The code goes through the owners by name.
ReadTerms(w) ==
    /\ pc[w] = "terms"
    /\ \E owner \in frame[w].owners :
        frame' = [frame EXCEPT
            ![w].owner = owner,
            ![w].owners = @ \ {owner},
            ![w].terms = window_and_limit(tenant_config[job[w].subject.installation_id])]
    /\ pc' = [pc EXCEPT ![w] = "count"]
    /\ UNCHANGED <<queue, events, tenant_config, now, github, job, counters, history>>

\* Then the events are counted, and the status kept if it is at the threshold.
CountEvents(w) ==
    /\ pc[w] = "count"
    /\ LET consumed == count_since(events, job[w].subject.installation_id, frame[w].owner,
                                   COUNTED_EVENT_TYPES, now - frame[w].terms.window_days)
           status == status_for(frame[w].owner, frame[w].terms, consumed)
       IN  frame' = [frame EXCEPT ![w].shrinking =
                        IF remaining_at_most(status, frame[w].warn_threshold_pct)
                        THEN @ \cup {status} ELSE @]
    /\ pc' = [pc EXCEPT ![w] = IF frame[w].owners = {} THEN "find" ELSE "terms"]
    /\ UNCHANGED <<queue, events, tenant_config, now, github, job, counters, history>>

\* find_marked_comment: the oldest one.  With nothing to say, a pull request that
\* has no comment gets none.
FindComment(w) ==
    /\ pc[w] = "find"
    /\ LET existing == IF comments[job[w].subject] = <<>> THEN 0 ELSE 1
       IN  /\ frame' = [frame EXCEPT ![w].existing = existing]
           /\ pc' = [pc EXCEPT ![w] = IF frame[w].shrinking = {} /\ existing = 0
                                      THEN "idle" ELSE "post"]
    /\ UNCHANGED <<queue, events, tenant_config, now, github, job, counters, history>>

\* format_shrinking_budget_comment or format_recovered_comment; the picture is
\* left out.
BodyFor(shrinking) ==
    IF shrinking = {} THEN [kind |-> "recovered"]
    ELSE [kind |-> "shrinking", headline |-> worst_severity(shrinking), rows |-> shrinking]

MutPostAgain(w) ==
    /\ pc[w] = "post"
    /\ LET p == job[w].subject
       IN  comments' = [comments EXCEPT ![p] = Append(@, BodyFor(frame[w].shrinking))]
    /\ pc' = [pc EXCEPT ![w] = "idle"]
    /\ UNCHANGED <<queue, events, tenant_config, now, files, job, frame, counters, history>>

MutLeaveWarning(w) ==
    /\ pc[w] = "post"
    /\ LET p == job[w].subject
           body == BodyFor(frame[w].shrinking)
       IN  comments' = [comments EXCEPT ![p] =
                IF frame[w].existing = 0 THEN Append(@, body)
                ELSE IF frame[w].shrinking = {} THEN @
                ELSE [@ EXCEPT ![frame[w].existing] = body]]
    /\ pc' = [pc EXCEPT ![w] = "idle"]
    /\ UNCHANGED <<queue, events, tenant_config, now, files, job, frame, counters, history>>

\* create_comment, or update_comment of the one that was found.
PostComment(w) ==
    /\ pc[w] = "post"
    /\ LET p == job[w].subject
           body == BodyFor(frame[w].shrinking)
       IN  comments' = [comments EXCEPT ![p] =
                IF frame[w].existing = 0 THEN Append(@, body)
                ELSE [@ EXCEPT ![frame[w].existing] = body]]
    /\ pc' = [pc EXCEPT ![w] = "idle"]
    /\ UNCHANGED <<queue, events, tenant_config, now, files, job, frame, counters, history>>

\* The one write of an activity task; an evaluation that counted before is stale.
WriteEvent(w) ==
    /\ pc[w] \in {"charge", "excuse"}
    /\ events' = IF pc[w] = "charge" THEN save_if_new(events, job[w].subject)
                 ELSE retype(events, job[w].subject, "flaky_test")
    /\ steady' = [p \in Pulls |-> steady[p] /\ events' = events]
    /\ pc' = [pc EXCEPT ![w] = "idle"]
    /\ UNCHANGED <<queue, tenant_config, now, github, job, frame, counters, spoilt,
                   overwritten>>

\* A call of the task raises, or the child dies; the upsert of a configuration the
\* columns refuse always raises.  Bound of the others: MaxRaises.
Raise(w) ==
    /\ pc[w] # "idle"
    /\ \/ raised < MaxRaises
       \/ pc[w] = "config" /\ ~Storable(OwnConfig(job[w].subject))
    /\ raised' = raised + 1
    /\ pc' = [pc EXCEPT ![w] = "idle"]
    /\ Spoil({p \in Pulls : Working(w, p)})
    /\ UNCHANGED <<queue, events, tenant_config, now, github, job, frame, triggered, queued,
                   overwritten>>

-------------------------------------------------------------------------------

Step(w) ==
    \/ Begin(w)
    \/ FilesChanged(w)
    \/ ResolveConfig(w)
    \/ ResolveOwners(w)
    \/ ReadTerms(w)
    \/ CountEvents(w)
    \/ FindComment(w)
    \/ PostComment(w)
    \/ WriteEvent(w)

Next ==
    \/ \E p \in Pulls : Trigger(p)
    \/ \E task \in Activity : QueueActivity(task)
    \/ Tick
    \/ \E w \in Workers : Step(w) \/ Raise(w)

Spec == Init /\ [][Next]_vars

\* Children go on with what they can do; a call returns or raises.  Nothing is
\* assumed of webhooks, of the clock, or of failures.
FairSpec == Spec /\ \A w \in Workers : WF_vars(Step(w))

-------------------------------------------------------------------------------
\* What a pull request should be told, said of the tables and files themselves.

TeamsOf(p) ==
    LET named == {n \in Names : \E f \in files[p] : <<"TEAM", n>> \in CodeownersOf[p.repo][f]}
    IN  IF named = {} THEN {OwnConfig(p).default_team} ELSE named

Counted(r, p, team) ==
    /\ r.installation_id = p.installation_id
    /\ r.owner = team
    /\ r.event_type # "flaky_test"
    /\ r.ts + OwnConfig(p).rolling_window_days >= now

Consumed(p, team) == Cardinality({r \in events : Counted(r, p, team)})

Shrinks(p, team) ==
    LET limit == OwnConfig(p).max_events_per_window
        pct == OwnConfig(p).warn_threshold_pct
    IN  \/ Consumed(p, team) >= limit /\ 0 <= pct
        \/ Consumed(p, team) < limit /\ (limit - Consumed(p, team)) * 100 <= pct * limit

Tight(p) == \E team \in TeamsOf(p) : Shrinks(p, team)

\* What the status of a team is, and the statuses of those of some teams that are short.
OwnStatus(p, team) ==
    [owner       |-> team,
     window_days |-> OwnConfig(p).rolling_window_days,
     limit       |-> OwnConfig(p).max_events_per_window,
     consumed    |-> Consumed(p, team)]

Short(p, teams) == {OwnStatus(p, team) : team \in {t \in teams : Shrinks(p, t)}}

\* The comment lists the teams that are short, with what they consumed, and no other.
Tells(body, p) ==
    /\ body.kind = "shrinking"
    /\ body.rows = Short(p, TeamsOf(p))
    /\ (body.headline = "breach") <=>
            \E s \in body.rows : s.consumed >= s.limit

\* The teams now short of budget, or that they recovered, or no comment at all.
Told(p) ==
    IF Tight(p)
    THEN comments[p] # <<>> /\ Tells(comments[p][1], p)
    ELSE comments[p] = <<>> \/ comments[p][1].kind = "recovered"

Quiet == queue = <<>> /\ \A w \in Workers : pc[w] = "idle"

\* One comment per pull request: the next evaluation finds and edits it.
OneComment == \A p \in Pulls : Len(comments[p]) <= 1

\* However many webhooks arrive, and whatever children die, a pull request never
\* collects more comments than there are children: two of them may both find none
\* and create one each, but once one is there everybody finds it.
CommentsBounded == \A p \in Pulls : Len(comments[p]) <= Cardinality(Workers)

\* When all tasks are done, the comment of a pull request whose last evaluation ran
\* by itself and undisturbed says what is so: whatever evaluations before it wrote,
\* side by side, in the wrong order or with the limit of another repository, and
\* whichever of them died, is repaired.
CommentFresh == Quiet => \A p \in Pulls : steady[p] => Told(p)

\* A comment quotes the window and the limit of the repository the pull request is
\* in, unless another child put another repository's into the row they share while
\* an evaluation of it was between its own upsert and its last look at the row.
QuotesOwnRepo ==
    \A p \in Pulls \ overwritten : \A i \in DOMAIN comments[p] :
        comments[p][i].kind = "shrinking" =>
            \A s \in comments[p][i].rows :
                [window_days |-> s.window_days, limit |-> s.limit] = OwnTerms(p)

Waits(p) == \E i \in DOMAIN queue : queue[i].subject = p
Due(p, team) == team \in TeamsOf(p) /\ Shrinks(p, team)

\* A waiting evaluation of a pull request that touches a team short of budget ends in
\* a comment, unless the budget or the pull request changes first, or a task of this
\* pull request dies, or its configuration is overwritten before it has read it back.
TightIsTold ==
    \A p \in Pulls, team \in Names :
        (Waits(p) /\ Due(p, team)) ~> (comments[p] # <<>> \/ ~Due(p, team) \/ p \in spoilt)

\* "When a PR touches an owner with a shrinking budget, Mergency comments on the PR with
\* the current status" (README.md:18), unless something dies.
ShrinkingIsCommented ==
    \A p \in Pulls, team \in Names :
        (Waits(p) /\ Due(p, team)) ~> (comments[p] # <<>> \/ ~Due(p, team) \/ raised > 0)

-------------------------------------------------------------------------------
\* The inductive invariants.

Evaluating == {"files", "owners", "terms", "count", "find", "post"}

\* What kind of task a child is in, and that a comment it found is there to edit.
StagesRight ==
    \A w \in Workers :
        /\ pc[w] \in Evaluating => job[w] \in PullTask
        /\ pc[w] \in {"charge", "excuse"} => job[w] \in Activity
        /\ pc[w] = "config" => job[w] # NoTask
        /\ pc[w] = "post" => frame[w].existing <= Len(comments[job[w].subject])

\* The children about to create a comment on p.
Creators(p) ==
    {w \in Workers : /\ pc[w] = "post"
                     /\ job[w] = [kind |-> "pull", subject |-> p]
                     /\ frame[w].existing = 0}

\* A child becomes one of them only while there is no comment.
CreatorsCounted ==
    \A p \in Pulls : Len(comments[p]) + Cardinality(Creators(p)) <= Cardinality(Workers)

IInv == TypeOK /\ UniqueKeys(events) /\ StagesRight /\ CreatorsCounted

\* What an evaluation goes by is its own repository's, if nobody has overwritten it.
TermsRight ==
    \A w \in Workers, p \in Pulls :
        Working(w, p) =>
            /\ pc[w] \in {"owners", "terms", "count"} => Storable(OwnConfig(p))
            /\ p \notin overwritten =>
                /\ ReadsAgain(w) =>
                        window_and_limit(tenant_config[p.installation_id]) = OwnTerms(p)
                /\ pc[w] = "count" => frame[w].terms = OwnTerms(p)
                /\ \A s \in frame[w].shrinking :
                        [window_days |-> s.window_days, limit |-> s.limit] = OwnTerms(p)

\* The owners an evaluation has not counted yet.
Left(w) == frame[w].owners \cup (IF pc[w] = "count" THEN {frame[w].owner} ELSE {})

\* What an evaluation of p has read is as it is now: it has found short those of the
\* teams it is past that are.
ReadingFresh(w, p) ==
    /\ pc[w] # "files" => frame[w].changed_files = files[p]
    /\ pc[w] \in {"files", "config", "owners"} => frame[w].shrinking = {}
    /\ pc[w] \in {"owners", "terms", "count"} =>
            /\ frame[w].default_team = OwnConfig(p).default_team
            /\ frame[w].warn_threshold_pct = OwnConfig(p).warn_threshold_pct
    /\ ReadsAgain(w) => window_and_limit(tenant_config[p.installation_id]) = OwnTerms(p)
    /\ pc[w] = "count" => frame[w].terms = OwnTerms(p)
    /\ pc[w] \in {"terms", "count", "find", "post"} =>
            /\ Left(w) \subseteq TeamsOf(p)
            /\ frame[w].shrinking = Short(p, TeamsOf(p) \ Left(w))
    /\ pc[w] = "count" => frame[w].owner \notin frame[w].owners
    /\ pc[w] \in {"find", "post"} => Left(w) = {}
    /\ pc[w] = "post" =>
            \/ frame[w].existing = 0 /\ comments[p] = <<>>
            \/ frame[w].existing = 1 /\ comments[p] # <<>>

\* An evaluation that has its pull request to itself, of circumstances that have been
\* steady, reads what is so, and leaves the pull request told.
EvaluationsFresh ==
    \A p \in Pulls : steady[p] =>
        /\ \A v, w \in Workers : Working(v, p) /\ Working(w, p) => v = w
        /\ \A w \in Workers : Working(w, p) => ReadingFresh(w, p)
        /\ (\A w \in Workers : ~Working(w, p)) => Told(p)

===============================================================================
