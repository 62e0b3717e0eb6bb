# Mergency, specified in TLA+

Mergency is a GitHub App that keeps an *error budget* per team. Webhooks report
failed builds and reverts on default branches; a Celery worker turns each into
rows of an `events` table, one per owning team; and a pull request that touches
a team short of budget gets a comment that says so. The arithmetic is small. The
difficulty is that everything that matters happens in tasks that are queued by
webhooks GitHub may send late, twice or out of order, run side by side in several
worker children, are acknowledged when they start and never retried, and call
GitHub and PostgreSQL with nothing held between two calls.

Paths below are relative to the repository: `src/mergency/...` is the program.

## 1. Inventory

| Component | State it keeps | Operations | Talks to | Correct when |
|---|---|---|---|---|
| Webhook receiver (`api/webhooks.py`) | none | check the signature, dispatch on the event name | puts tasks on the broker; installation service in-process | each activity or pull request webhook becomes exactly one task |
| Broker and worker (`worker/celery_app.py`) | the queue | take the oldest task, acknowledge, run | Redis | a delivered webhook is worked off; what a failed task left undone, a redelivery does |
| Classifier (`domain/event_classifier.py`, the signal parsers) | none | parse, `classify`, `is_flaky_candidate` | - | what counts becomes an event, nothing else does |
| Event repository (`adapters/db/activity_event_repository.py`, `tables.py`) | table `events`, unique on installation, repo, sha, type, owner | `save_if_new`, `retype`, `find_recent`, `count_since`, `daily_counts_since` | PostgreSQL, one transaction each | one entry per key; charges are kept, or excused once; the tests' in-memory repository does the same |
| Activity task (`worker/classify_activity_event.py`) | local variables | parse, classify, resolve configuration and owners, insert per owner | all of the above | every owner of an event is charged once |
| Flaky test detector (`domain/flaky_test_detector.py`) | none | find the failures of a check, retype each | event repository | a failure whose check then passes stops counting; others do not |
| Configuration (`domain/config_resolver.py`, `tenant_config`) | one row per *installation* | read `mergency.yml`, parse, upsert | GitHub, PostgreSQL | defaults for what is unset; the row is what the last task resolved |
| Ownership (`domain/ownership_resolver.py`, `adapters/github/codeowners_provider.py`) | a CODEOWNERS cache per process | owners of paths | GitHub, token manager | teams only; the default team when there is none; nothing older than the cache's life time |
| Budget (`domain/budget_calculator.py`, `severity_resolver.py`) | none | status of one owner | `tenant_config`, `events` | consumed and limit are those of the repository asked about |
| PR comment bot (`worker/evaluate_pr_budget.py`, `domain/pr_budget_evaluator.py`, `adapters/github/pr_comment_client.py`) | the marked comment, at GitHub | find shrinking owners, find the comment, create or update it | GitHub, Giphy, budget | one comment, and it is up to date |
| Incidents (`api/incidents.py`, `worker/report_incident.py`) | rows of `events` | check the token, expand a commit range, charge commit by commit and owner by owner | GitHub, event repository | every commit of the range is charged, to the tenant that reported it |
| Budget history (`api/budget_query.py`, `domain/budget_history_query.py`) | none | status and daily counts | event repository | status and series differ only by what happened between their queries |
| Installations (`domain/installation_service.py`, `adapters/memory/tenant_repository.py`) | the tenants, in memory | created, deleted, suspended, unsuspended; the token check of `api/auth.py` | receiver, incidents, history | a token stays what onboarding returned, and opens one tenant's doors only |
| Token manager (`adapters/github/token_manager.py`) | a token and a lock per installation | `get_token` | GitHub | no token short of its skew from the cache; one fetch for concurrent misses |
| Dashboard (`infra/grafana/dashboards/error-budget.json`) | none | the remaining budget, in SQL | PostgreSQL | the formula is the calculator's |
| Internal endpoint, in-memory configuration repository, GIF provider, wiring, migrations, scripts | - | - | - | - |

What of each part is modelled, and why the last row is not, is in `PROJECT.json` and
in section 5.

**What is hard here.** (a) Two children interleave at every call, and the
repository commits after each: `find_recent` and `retype`, `find_marked_comment`
and `create_comment`, the upsert of a configuration and its reading back are
pairs with a gap. (b) The dedupe key has no `check_name`, but the look-up of
failures has. (c) Retyping a row frees its key. (d) A task that raises is gone:
fan-outs stop half-way. (e) `tenant_config` is shared by all repositories of an
installation, each of which overwrites it with its own `mergency.yml`. (f)
Boundaries: the 24 hour window, a threshold met exactly, a limit of zero, a window
that begins within a day, a range of one commit. (g) Caches shared by coroutines: a
lock with two looks at the cache, a file that moves while it is searched for. (h)
The tenants, and their tokens, live in the memory of a process that restarts.
`PROJECT.json` lists every hazard at its line, with the properties aimed at it.

## 2. Modules

| Module | Models | Extends |
|---|---|---|
| `EventStore` | the `events` table and its repository: a table is a set of rows, each operation (a transaction) an operator | |
| `MemoryStore` | the in-memory repository: a dictionary, the same operations, and what it means that both agree | `EventStore` |
| `MergencyConfig` | `_parse` and its defaults, and what the columns of `tenant_config` refuse | |
| `EventClassifier` | the signals, `classify`, `is_flaky_candidate`, owners | `EventStore` |
| `EventLedger` | abstract: what the pipeline promises to readers of a budget | |
| `ActivityPipeline` | webhook, broker, worker children, activity task, flaky test detector | `EventClassifier`, `MergencyConfig` |
| `Budget` | `status_for`, thresholds, severities | `EventStore`, `MergencyConfig` |
| `PrCommentBot` | the evaluation task of a pull request, among other tasks | `Budget`, `EventClassifier` |
| `Tenants` | installation webhooks, the tenant repository, restarts, the token check | `EventStore` |
| `IncidentReports` | the incident endpoint, its queue and its task, on top of the tenants | `Tenants`, `EventClassifier`, `MergencyConfig` |
| `BudgetHistory` | the three queries of a history request, among the writes of the worker; the dashboard's panel | `Budget`, `MemoryStore` |
| `TokenManager` | the token cache and its locks | |
| `CodeownersCache` | the CODEOWNERS cache, on top of the token manager | `TokenManager` |
| `EventStoreProofs`, `MergencyConfigProofs` | lemmas about the operators | |
| `MemoryStoreProofs` | the agreement of the two repositories | |
| `ActivityPipelineProofs`, `PrCommentBotProofs`, `IncidentReportsProofs`, `BudgetHistoryProofs`, `CodeownersCacheProofs` | the theorems about a component and what it is composed of | |
| `MCActivityPipeline`, `MCPrCommentBot`, `MCIncidentReports`, `MCBudgetHistory`, `MCCodeownersCache` | constants for TLC | |
| `MCPipelineInOrder` | the assumption that a run's deliveries are those the theorems of section 4 ask for | `MCActivityPipeline` |

### ActivityPipeline

A *payload* is what a webhook carries: the signal it parses to, or `Malformed`.
`queue` is the broker's list, `pc[w]` the call child `w` is at, `job[w]` its
payload, `loop[w]` and `todo[w]` the rows its current loop goes over and has not
reached. An action is the code between two calls that another child can see:

| Action | Code |
|---|---|
| `Deliver` | `dispatch`: `.delay(...)` and the answer; again for a redelivery |
| `Begin` | the task starts (and is acknowledged), parses and classifies; what is neither an event nor a flaky candidate ends here |
| `ResolveConfig` | `ConfigResolver.resolve`: the file as it is now, the defaults, the upsert |
| `ResolveOwners` | changed files, then `owners_for` per path |
| `SaveRow` | one turn of `for owner in owners: save_if_new(...)` |
| `FindRecent`, `RetypeRow` | `FlakyTestDetector`: the query, then one turn of its loop |
| `Raise` | a call raises, or the child dies: what was committed stays |

`kept` and `excused` are history variables: the rows of loops that ran to their
end. `LedgerOf(events)` maps the table to the entries of `EventLedger`, where an
entry is only added, or a build failure is turned, once, into a flaky test.

The calls of `ConfigResolver` (read, parse, upsert) are one action since only the
upsert is visible to other tasks; the file may be any of `ConfigFiles` each time. Each path
is looked up in any version of CODEOWNERS, which is what an expiring cache of a
changing file allows. The files of a commit do not change.

### PrCommentBot

Adds the clock `now`, the files of each pull request at GitHub, its marked
comments, and the frame of local variables of a task.

| Action | Code |
|---|---|
| `Trigger`, `QueueActivity` | `dispatch` of a `pull_request` webhook (with the push that caused it), and of an activity webhook |
| `Tick` | time passes |
| `Begin`, `FilesChanged`, `ResolveConfig` | the start of `evaluate_pr_budget`: files as they are now, then the upsert of *this repository's* configuration into the installation's row |
| `ResolveOwners`, `ReadTerms`, `CountEvents` | `PrBudgetEvaluator.evaluate`, which for each owner reads the row back and then counts |
| `FindComment`, `PostComment` | `find_marked_comment`, then `create_comment` or `update_comment` |
| `WriteEvent` | the one write of an activity task |
| `Raise` | as above; always when the columns refuse the configuration |

Activity tasks are reduced to what an evaluation can notice: the upsert of their
repository's configuration and one row inserted or retyped. `ActivityPipeline`
has them in full. Three history variables say how a pull request's evaluations went.
`steady[p]`: the last one to begin has had `p` to itself, and nothing it reads has changed
since. `overwritten`: another repository's upsert came between an evaluation's own and its
last reading of the row. `spoilt`: since the last webhook of `p` that happened, or an
evaluation of it died. A repository's `mergency.yml` and CODEOWNERS do not change here, and
the bot sees no stale copy of the latter: `ActivityPipeline` has configurations and
owners that change under a task, `CodeownersCache` how stale a copy can be.

`Budget` compares `remaining_pct` with a threshold by cross-multiplying integers.
The rounding of the floating-point quotient is left out.

### Tenants and IncidentReports

`tenants` is the repository's dictionary. A token is its number in the order in
which they were made. `issued`, `admitted` and `followed` are history: whom a token
was made for, who was let in with which, and how far the webhooks of an installation
were handled in the order GitHub has them in (`Lifecycle`). Handlers of the API are
coroutines that nothing suspends, so that each is one action.

| Action | Code |
|---|---|
| `InstallationHook` | `dispatch` of an `installation` webhook: the parser, then `_create_or_update`, `_transition`, or nothing; any webhook of the lifecycle, so late and repeated ones too |
| `Restart` | the process ends; the next one has no tenants |
| `Admit` | the bearer token is compared with the tenant's |
| `ReportIncident` | `POST .../incidents`: the token check, the time of a report without one, `.delay(...)` |
| `Begin`, `FindCommits`, `ResolveConfig` | the start of `report_incident`: the compared range, then the configuration |
| `ResolveOwners`, `SaveRow` | one turn of the loop over commits, and one turn of the loop over its owners |
| `Raise` | as in the pipeline |

Broker and database outlive a restart. `accepted` is the history of tasks queued;
`finished` that of tasks that ran to their end.

### BudgetHistory

| Action | Code |
|---|---|
| `Ask` | the request, and the row of `tenant_config` that `status_for` reads |
| `CountEvents` | `count_since`, and `now` for the first time |
| `Series` | `daily_counts_since` with `now` for the second time, and the answer |
| `Insert`, `Excuse`, `Configure`, `Tick` | what the worker's tasks and the clock do in between |

`then` is history: the table and the clock of the first count. `events_in_window` is
the dashboard's SQL.

### TokenManager and CodeownersCache

A caller is a coroutine of one event loop; an action is what it does between two
suspensions. A token is the moment it expires. `line[i]` is the lock of installation
`i`: its holder and its waiters, first in, first out, as asyncio wakes them.

| Action | Code |
|---|---|
| `GetToken` | the first look at the cache; taking the lock, or getting in line |
| `Resume` | the lock is had; the second look |
| `FetchDone`, `FetchFails` | GitHub answers, or the request raises; the lock is passed on |
| `LookUp` | `_rules_for` misses; the first path wants a token |
| `ReadFile` | `asyncio.to_thread`: GitHub answers with the file at a path, or a 404, while the coroutine is suspended |
| `NextPath` | the coroutine goes on: nothing there, the next path wants a token |
| `Store` | or it goes on with a file, or with none at the last path: the entry and its expiry, over whatever is cached by then |
| `Return` | the call ends, or raises and caches nothing |
| `OtherRequest`, `Push`, `Tick` | other users of the token manager, the repository's CODEOWNERS, the clock |

Today each task of a child runs its calls one after the other, and only the API could
run several. The lock is there for several callers, and the module checks that it does
its work for any number.

## 3. Runs

Passing runs:

| Run | Question | Instance |
|---|---|---|
| `pipeline_races` | Can interleaved, duplicated, dying tasks of one commit corrupt the table, and does a redelivery repair what a task left half-way? `RowsJustified`, `KeptCharges`, `ExcusedFailures`, `ImplementsLedger`, `RedeliveryRepairs` | 2 children, two checks of a commit that fail and one that passes, each delivered up to twice in any order, 2 owners, 1 crash |
| `pipeline_in_order` | When nothing races, is exactly what qualifies charged, to teams only, and does flaky test detection do what it is for? `TypeOK`, `RowsJustified`, `GenuineFailuresCounted`, `FlakyFailuresExcused`, `CountedOrExcused`, `FirstRevertRecorded` | 1 child, each payload once, a success after the failures it excuses; payloads of every kind (failed once and twice, cancelled, passed exactly 24 hours after the failure and just past them, reverts behind other commits, other branch, unfinished, malformed; what the task ignores comes first, in a fixed order); CODEOWNERS and `mergency.yml` change |
| `bot_children` | How many comments can there be, what do they say in the end, and does a pull request short of budget get one? `TypeOK`, `CommentsBounded`, `CommentFresh`, `QuotesOwnRepo`, `TightIsTold` | 2 children, 3 webhooks of a pull request whose file two teams own, a budget at exactly its threshold until the next day, a crash, a task of a repository without any budget and one of a configuration the table refuses |
| `incidents` | Do tenants, tokens and charges stay apart, is a range charged whole, and does reporting again repair it? `TypeOK`, `OwnTokenOnly`, `TokenStable`, `StatusFollows`, `IncidentRowsJustified`, `WholeRangeCharged`, `ReportRepairs` | 2 tenants with a repository of the same name, 2 installation webhooks of any place in their lifecycles, a restart of the API, 2 reports out of overlapping ranges (also of one commit, and the wrong way round), 2 children, 1 crash |
| `history` | What is an answer worth that three transactions and two clocks made, and are the tests' repository and the database the same thing? `TypeOK`, `AnswerAddsUp`, `DaysInWindow`, `MemoryAgrees` | days of 2 units, windows of 1 and 2 days, 5 rows of all countable types on several days, two of which share a key; 4 writes |
| `caches` | Do concurrent misses share a fetch, does a failing one let the others through, and how old may what is cached be? `TypeOK`, `OneFetch`, `FetchOnlyWhenStale`, `CachedTokensLast`, `StaleNoLongerThanTTL`, `CallsReturn` | 2 coroutines that may hold an answer for any time, a file with two texts that is edited, moved, added or deleted once while they search for it, tokens that outlive the skew |

Runs in which the code departs from what the repository says of it. Each checks
the one property, and TLC's trace shows the departure:

| Run | What happens | Against |
|---|---|---|
| `pipeline_redelivery` | A failure is recorded, excused as flaky, and delivered again. Its key is free by then, so it is counted again, beside its flaky twin. | `docs/adr/0005` l. 21: a redelivery produces no second event |
| `pipeline_concurrent_rerun` | The success of a check is processed while its failure is on its way through another child: nothing is found, nobody looks again. | `docs/plan/0015` l. 5: a flaky failure stops consuming budget |
| `pipeline_two_checks` | Two checks fail on a commit and share one row. When the check that has the row passes, the other, genuine failure consumes nothing. | `README.md` l. 24: every build failure counts |
| `bot_duplicates` | Two evaluations both find no comment and create one each. | `docs/adr/0008` l. 17: one comment per pull request |
| `bot_shared_row` | A pull request is short by its own repository's limit. Between its upsert and its reading back, another child upserts another repository's larger limit: nobody is found short, and no comment is written. | `README.md` l. 18: a pull request that touches a shrinking budget is commented on |
| `history_dashboard` | A failure excused as flaky leaves the budget of the API and of the comments, but not that of the dashboard. | `docs/adr/0022` l. 21: the same formula |

The first three are about flaky test detection, and each of them breaks one of the
conditions under which section 4 proves that it is right: nothing is delivered twice
(`SentOnce`), one child runs the tasks (`OneAtATime`), and what excuses one failure of
a commit excuses all of them (`ExcusedTogether`). That is what "in order" means in
`pipeline_in_order`, together with `ExcusedLast`: a success is delivered after those
failures. `MCPipelineInOrder` has TLC evaluate the four conditions on the run's
payloads, and the three runs show that the first three cannot be dropped.

Three more departures are facts about the models above and have no run of their
own. Of a push with several reverts only the first is recorded (`classify` returns
at it), where `README.md` l. 25 counts revert commits; `FirstRevertRecorded` says
what does hold. One call that raises loses an event unless GitHub delivers it again,
where `ARQUITECTURE.md` l. 131 speaks of retries and dead letters; hence "more often
than tasks can fail" in `RedeliveryRepairs` and `ReportRepairs`. And with two
children an evaluation that counted earlier may write last and say that the budget
recovered (`docs/adr/0008` l. 19: a misleading comment is not left standing), so
that `CommentFresh` speaks of pull requests whose last evaluation ran by itself.

The detector asks for failures since 24 hours before the success and sets no upper end:
a success that completed before the failure, delivered after it, would excuse it.
`FlakyFailuresExcused` follows the code in that, and no payload of the runs has it.

**Bounds.** `MaxDeliveries` (deliveries of a payload), `MaxTriggers` (webhooks of
a pull request), `MaxRaises` (tasks that die), `MaxHooks` (installation webhooks),
`MaxRestarts` (of the API), `MaxReports` (accepted reports), `MaxWrites` (of the
worker, as a history request sees them), `MaxPushes` (that change CODEOWNERS) and
`MaxTime` (the clock) bound what the environment does. Two children are enough for
every race of the code, which only ever involves a reader or writer between two
calls of one task; two owners are enough for a loop to be interrupted between turns,
two failing checks for a shared key, a passing check within the window and one
outside it for the boundary, a second repository for a shared configuration row, two
reports for an overlap or for a repair after a crash, two installations for a token
or a row of the wrong tenant, two coroutines for a waiter behind a fetch. One
installation is enough in the pipeline, since no operation there relates rows of
two. Two installation webhooks are enough for each pair of an order and a repetition,
and with the restart for a second token; a tenant can report only when one of them
was its `created`. They reach the first steps of a lifecycle only; three take the run
beyond what can be checked in minutes, and the theorems `StatusIsFollowed` and
`TokensAreStable` have no such bound. Time 4, with days of 2
units, takes a row across both windows and a midnight between the two counts; in the
caches time 3 is past a TTL and a skew, one push is enough to make obsolete what a
coroutine holds, and two coroutines to store in the wrong order.
The proofs below have no bounds. Deadlock is not checked where the environment is
exhausted: when GitHub or a tenant has nothing more to deliver and the queue is
empty the system rests.

**Fairness.** In the three modules with tasks `FairSpec` has weak fairness of
`Step(w)` for each child: a child that has a next call makes it, and calls return
(the HTTP clients and the database have timeouts; a call that fails is `Raise`, which
is not fair and is bounded). An idle child takes the next task. `CodeownersCache` has
weak fairness of `Proceed(c)` for each coroutine: a request ends, at its time limit
at the latest, and the event loop runs who can go on. Nothing is assumed of GitHub's
deliveries, of pushes, of reports, of restarts, of the clock or of failures.

## 4. Theorems

Checked by TLAPS for all values of the constants: any number of children,
coroutines, installations, payloads, reports, owners, deliveries and failures. They
rest on the named assumptions of the modules (`DayLengthAssumption`,
`NoCheckAssumption`, `NoOwnerAssumption`, `ConfigAssumption`,
`ClassifierAssumption`, `PipelineAssumption`, `BotAssumption`, `TenantAssumption`,
`ReportAssumption`, `HistoryAssumption`, `TokenAssumption`,
`CodeownersAssumption`), which say only what the constants are and that the
distinct ones are distinct; TLC evaluates them in every run.

| Theorem | States | Run with the same property |
|---|---|---|
| `TypeCorrect` | `Spec => []TypeOK` | `pipeline_in_order` |
| `Justification` | `Spec => []RowsJustified` | `pipeline_races`, `pipeline_in_order` |
| `ChargesKept` | `Spec => []KeptCharges` | `pipeline_races` |
| `FailuresExcused` | `Spec => []ExcusedFailures` | `pipeline_races` |
| `LedgerRefinement` | `Spec => ImplementsLedger` | `pipeline_races` |
| `GenuineFailuresAreCounted` | `ExcusedTogether`: `Spec => []GenuineFailuresCounted` | `pipeline_in_order` |
| `FlakyFailuresAreExcused`, `CountedOrExcusedAlways` | `Ordered`: `Spec => []FlakyFailuresExcused`, `Spec => []CountedOrExcused` | `pipeline_in_order` |
| `IncidentsStandApart` | saving an incident commutes with the other tasks' saves and retypes and is not seen by their look-ups | |
| `BotTypeCorrect` | `Spec => []TypeOK` | `bot_children` |
| `CommentsAreBounded` | `Spec => []CommentsBounded` | `bot_children` |
| `OneCommentPerPull` | one child: `Spec => []OneComment` | none: with two it fails, `bot_duplicates` |
| `QuotesAreOwn` | `Spec => []QuotesOwnRepo` | `bot_children` |
| `CommentsAreFresh` | `Spec => []CommentFresh` | `bot_children` |
| `IncidentsTypeCorrect` | `Spec => []TypeOK` | `incidents` |
| `IncidentsUseTenants` | `Spec => TenantSpec` | |
| `TokensAreOwn`, `TokensAreStable`, `StatusIsFollowed` | `OwnTokenOnly`, `TokenStable`, `StatusFollows` | `incidents` |
| `IncidentsJustified` | `Spec => []IncidentRowsJustified` | `incidents` |
| `RangesAreCharged` | `Spec => []WholeRangeCharged` | `incidents` |
| `MemoryWritesAgree`, `MemoryAnswersAgree` | the two repositories agree, operation by operation, on every table with unique keys | |
| `HistoryTypeCorrect` | `Spec => []TypeOK` | `history` |
| `MemoryAlwaysAgrees` | `Spec => []MemoryAgrees` | `history` |
| `AnswersStayInWindow` | `Spec => DaysInWindow` | `history` |
| `AnswersAddUp` | `Spec => AnswerAddsUp` | `history` |
| `CacheTypeCorrect` | `Spec => []TypeOK` | `caches` |
| `CacheUsesTokenManager` | `Spec => TokenSpec` | |
| `FetchesOneToken` | `Spec => []OneFetch` | `caches` |
| `FetchesWhenStale`, `HandsOutLastingTokens` | `FetchOnlyWhenStale`, `CachedTokensLast` | `caches` |
| `NeverStalerThanTTL` | `Spec => []StaleNoLongerThanTTL` | `caches` |

**The pipeline's invariant `IInv`.** `RowsJustified` is not inductive. What
a task is about to write was read, or computed, several steps before. `SaveLoop`
says that rows on their way in are justified, and that those behind the loop are
on the books. `RetypeLoop` is the heart: `find_recent` looked failures up with
their check, and `retype` finds its row by a key without it. A row it is about to
retype might therefore have become another check's failure. It cannot:
the row it found can only leave the table by being excused, and then its flaky
twin has the new key, so that `retype` runs into the unique constraint and
changes nothing. Hence the conjunct `e \in events \/ HasKey(events, Retyped(e,
"flaky_test"))`, from which both `RowsJustified` (nothing is excused by the
success of another check) and `ExcusedFailures` (whoever loses the race finds the
work done) follow. `UniqueKey`, the table's unique constraint, which the operators keep
as PostgreSQL does, is a conjunct for `retype` to move one row.
The history properties follow from one relation, `Grows(before, after)`: each
step keeps every row or excuses it. The refinement is that relation, read on
ledger entries.

**When the books are right: `CountInv` and `OrderInv`.** Some properties of the
pipeline need conditions on what is delivered, and the theorems have them as
hypotheses. `GenuineFailuresAreCounted` asks for one only, `ExcusedTogether`, and
holds for any number of children, any order and any redelivery. Its invariant
`CountInv` says that a failure nobody excuses is still in the queue, in a child's
hands or on the books (`CountedInTheEnd`). A child lets go of it when its last row is
saved, or found saved; that row is one of the failure because the loop saves rows of
its own event, of which there are some (`SavesItsEvent`). A row can leave only as the
failure of a check that passed, and then, by `RowsJustified` and the hypothesis, the
failure in question is excused too.

`FlakyFailuresAreExcused` and `CountedOrExcusedAlways` need the order, `Ordered`. The
first says that once all is worked off no owner is charged for what a success excused.
Its invariant says where the failures of a success are (`ExcusedInTheEnd`): the
success is still queued, or about to look them up, or has all of them left to retype,
or there are none. It is inductive only because no failure is written behind the
success: it waits in the queue behind every failure of the commit and while one is in
hand (`SuccessesWait`), which in turn rests on the deliveries having arrived in order
(`ArrivedInOrder`) and each payload being handled once (`HandledOnce`). Retyping must
also succeed, for which the key of the flaky twin has to be free: no owner has a
failure and a flaky test of one commit at once (`KindsApart`). A flaky test has
a success behind it that has left the queue (`ExcuserTaken`), so that a failure could
join it only after that success, and none does. `CountedOrExcused` is a case of
`KindsApart`, and holds though tasks raise or die.

**One table, three kinds of tasks.** The modules model the incident tasks beside the
others. `IncidentsStandApart` is why they may be read so: an incident's key has a type
that nobody else writes, so saving it before or after a save or a retype of another
row gives the same table, and no look-up of failures sees it.

**The bot's invariant.** `CommentsBounded` counts: comments plus the children
about to create one never exceed the children. A child joins those (`Creators`)
only when it found no comment; then the comments are 0 and the creators at most
all. Posting moves one from the second term to the first. For one child the sum
is 1. `QuotesOwnRepo` needs `TermsRight`: from its upsert until its last reading, the
row an evaluation reads back is the one it wrote, or its pull request is among the
`overwritten`. Another child's upsert of the same window and limit is no overwriting,
and one between the last reading and the comment comes too late; no condition is put on
how many children or repositories there are. `bot_shared_row` shows what an overwriting
can do, and why `TightIsTold` has to except it.

`CommentFresh` speaks of a system at rest; its invariant `EvaluationsFresh` says of a
steady pull request what holds on the way. At most one evaluation is at work on it, and
has read what is still so (`ReadingFresh`: the files, the row, the default team, the
teams it is past and has found short, whether there is a comment); when none is at work
it is told. The steps that read carry the first on; posting, or ending with nothing to
say, turns it into the second; that the integers of `Budget` and the wording of
`Shrinks` come to the same is `ThresholdIsShort`. Nothing is assumed of the evaluations
before the last: whatever they left, duplicates and foreign limits included, the last
one edits the oldest comment, which is the one the property reads.

**The incidents' invariant `IncidentInv`.** The tenants keep `TenantInv` whatever
the tasks do, which is what the refinement `IncidentsUseTenants` is for: a tenant's
token was made for it (`TokensMatch`), which makes whoever is let in with a token
the one it was made for, and `followed` is a place of the lifecycle, which makes the
status the one of that place. Of a task, `WholeRangeCharged` speaks when it has
ended; the invariant says what it has done on the way: each commit of its range is
either still among those it has left or is charged (`RangeSplit`), and each row of
the commit it is at is either left or in the table (`RowsSplit`). Rows never leave
the table, so that other children cannot undo it. `ReportersAdmitted` ties a row to
the admission of its tenant.

**The history's invariant.** The types, the unique constraint, and what the request
has at hand for its last query: a status whose consumption is what was in its window
when it counted (`HasStatus`). The constraint is all that the agreement with the
dictionary needs: with it a row can be found by its key, `retype` moves one row or
none, and counting keys is counting rows. The window is arithmetic of days (`Days`).
`AnswersAddUp` compares the two queries as sets of rows: what the series counts is what
the status counted, less what is gone, and what is new, which are disjoint. That the
entries of a series sum up to those rows (`CountsByDay`) is shown without induction.
`Sum` is the number of pairs of a day and a number up to its count, and numbering the
rows of each day gives a bijection from the pairs to the rows.

**The caches' invariant `CacheInv`.** `InLine`: who waits or fetches is in the line of
the installation it asked for, once, and only the head fetches. `FreshReads`: a look-up
that began after the last push has seen nothing at the paths it is past, because there
is nothing, and what GitHub answered for the one it is at is what is there now, however
long the answer is held; so an entry whose life began after the last push is what is in
effect, and an older one is gone a TTL after that push. Which of two overlapping misses
stores last does not matter: an older result takes its older life time with it. That
is `StaleNoLongerThanTTL`. It rests on the code counting the TTL from the moment the
look-up began; counted from the end of the fetch the property is false.

**Only model-checked.** The liveness properties `RedeliveryRepairs`,
`FirstRevertRecorded`, `TightIsTold`, `ReportRepairs` and `CallsReturn`: temporal
proofs under fairness are beyond the provers. Every other property of a passing run is
also proved; `GenuineFailuresCounted`, `FlakyFailuresExcused` and `CountedOrExcused`
under their hypotheses, as the violation runs show they have to be.

## 5. What is left out

*Simplifications.* Owners are gone through by name in the code, in any order
here. Texts, pictures and links of comments are left out; a request to Giphy is
no step, and what it raises and the code does not catch is `Raise`. A pull request
payload without a field the task reads fails before its first call and has no
effect. Messages that a crash of the broker itself loses are not modelled; a task
lost in a child is. The engine of each task has no pool, so no connection
outlives it. A day is a UTC day; the database takes that of its session. GitHub's 404
for a repository an installation may not see is read as a missing file, as in the
code. A tenant's status is stored and never asked for, which `Admit` keeps to.
`remaining_pct` is compared with a threshold by integers, so that the rounding of a
floating-point quotient is not seen. Severity and description of an incident are
passed along and never read.

*Not modelled.* The signature check is a function of a request and keeps no state.
The internal endpoint shows a tenant without its token. The GIF provider has a
fallback and no state. The in-memory configuration repository is one dictionary
entry per tenant, for tests. Settings, routing and the construction of singletons
have no behaviour beyond the life time of the state, which `Restart` and the two
caches have. Migrations repeat `tables.py`; the scripts are for development.

## 6. Plan

The order of the work follows what a wrong budget would cost: first what is written to
the table (`EventStore`, `EventClassifier`, `ActivityPipeline`), then what is said of it
(`Budget`, `PrCommentBot`, `BudgetHistory`), then who may write and ask (`Tenants`,
`IncidentReports`), then what all of them lean on (`TokenManager`, `CodeownersCache`,
`MemoryStore`).

What is left is one queue with all three kinds of tasks. `IncidentsStandApart` says that
they do not meet in the table; a composition would also have them wait for each other's
child, and have `IncidentReports` implement `EventLedger`.
