----------------------------- MODULE BudgetHistory -----------------------------
(***************************************************************************)
(* The budget of an owner as the API answers it (api/budget_query.py,      *)
(* domain/budget_history_query.py): a status and a series of daily counts. *)
(* The answer takes three queries, each a transaction of its own, and      *)
(* reads the clock twice; between them the tasks of the worker insert and  *)
(* retype rows and overwrite the configuration.  One action is one query   *)
(* or one write.  Who may ask is said in module Tenants; requests only     *)
(* read, so that one of them at a time says it all.                        *)
(***************************************************************************)
EXTENDS Budget, MemoryStore

CONSTANTS
    Arrivals,   \* rows the tasks may insert
    Configs,    \* rows of tenant_config the tasks may upsert
    MaxTime,    \* bound: the clock
    MaxWrites,  \* bound: inserts, retypes and upserts
    NoAnswer    \* nothing asked yet

\* _COUNTED_EVENT_TYPES of budget_history_query.py
SERIES_EVENT_TYPES == {"build_failure", "revert"}

ASSUME HistoryAssumption ==
    /\ Arrivals \subseteq Row
    /\ Configs \subseteq TenantConfig
    /\ NoConfig \notin TenantConfig
    /\ {MaxTime, MaxWrites} \subseteq Nat

VARIABLES
    now,            \* the clock
    events,         \* table `events`
    tenant_config,  \* table `tenant_config`
    writes,         \* writes so far
    pc,             \* where the request is
    asked,          \* <<installation_id, owner>> of the request
    terms,          \* the window and the limit it read
    status,         \* its BudgetStatus
    daily_counts,   \* its series
    then            \* history: the table and the clock when status counted

request == <<pc, asked, terms, status, daily_counts, then>>
vars == <<now, events, tenant_config, writes, request>>

TypeOK ==
    /\ now \in 0..MaxTime
    /\ events \subseteq Row /\ IsFiniteSet(events)
    /\ tenant_config \in [Installations -> TenantConfig \cup {NoConfig}]
    /\ writes \in 0..MaxWrites
    /\ pc \in {"idle", "count", "series"}
    /\ asked \in (Installations \X Names) \cup {NoAnswer}
    /\ terms \in [window_days : Int, limit : Int]
    /\ status \in BudgetStatus \cup {NoAnswer}
    /\ DOMAIN daily_counts \subseteq Int
    /\ \A d \in DOMAIN daily_counts : daily_counts[d] \in Nat \ {0}
    /\ then.table \subseteq Row /\ then.now \in 0..now

Init ==
    /\ now = 0
    /\ events = {}
    /\ tenant_config = [i \in Installations |-> NoConfig]
    /\ writes = 0
    /\ pc = "idle"
    /\ asked = NoAnswer
    /\ terms = FallbackConfig
    /\ status = NoAnswer
    /\ daily_counts = [d \in {} |-> 0]
    /\ then = [table |-> {}, now |-> 0]

-------------------------------------------------------------------------------
\* A request.

\* status_for reads the tenant's configuration.
Ask(i, o) ==
    /\ pc = "idle"
    /\ pc' = "count"
    /\ asked' = <<i, o>>
    /\ terms' = window_and_limit(tenant_config[i])
    /\ UNCHANGED <<now, events, tenant_config, writes, status, daily_counts, then>>

MutOneDayMore(days) == now - (days + 1) * DayLength

\* `days` before now, on the clock of ts.
DaysAgo(days) == now - days * DayLength

\* status_for counts what the owner consumed.
CountEvents ==
    /\ pc = "count"
    /\ pc' = "series"
    /\ status' = status_for(asked[2], terms,
                    count_since(events, asked[1], asked[2], COUNTED_EVENT_TYPES,
                                DaysAgo(terms.window_days)))
    /\ then' = [table |-> events, now |-> now]
    /\ UNCHANGED <<now, events, tenant_config, writes, asked, terms, daily_counts>>

MutReadConfigAgain ==
    /\ pc = "series"
    /\ pc' = "idle"
    /\ daily_counts' = daily_counts_since(events, asked[1], asked[2], SERIES_EVENT_TYPES,
                            DaysAgo(window_and_limit(tenant_config[asked[1]]).window_days))
    /\ UNCHANGED <<now, events, tenant_config, writes, asked, terms, status, then>>

\* for_owner counts by days, over the window of the status, and answers.
Series ==
    /\ pc = "series"
    /\ pc' = "idle"
    /\ daily_counts' = daily_counts_since(events, asked[1], asked[2], SERIES_EVENT_TYPES,
                            DaysAgo(status.window_days))
    /\ UNCHANGED <<now, events, tenant_config, writes, asked, terms, status, then>>

-------------------------------------------------------------------------------
\* The tasks of the worker.  Bound: MaxWrites.

Write ==
    /\ writes < MaxWrites
    /\ writes' = writes + 1
    /\ UNCHANGED <<now, request>>

Insert(e) ==
    /\ events' = save_if_new(events, e)
    /\ Write
    /\ UNCHANGED tenant_config

Excuse(e) ==
    /\ e.event_type = "build_failure"
    /\ events' = retype(events, e, "flaky_test")
    /\ Write
    /\ UNCHANGED tenant_config

Configure(i, config) ==
    /\ tenant_config' = [tenant_config EXCEPT ![i] = config]
    /\ Write
    /\ UNCHANGED events

\* Bound: MaxTime.
Tick ==
    /\ now < MaxTime
    /\ now' = now + 1
    /\ UNCHANGED <<events, tenant_config, writes, request>>

Next ==
    \/ \E i \in Installations, o \in Names : Ask(i, o)
    \/ CountEvents
    \/ Series
    \/ \E e \in Arrivals : Insert(e)
    \/ \E e \in events : Excuse(e)
    \/ \E i \in Installations, config \in Configs : Configure(i, config)
    \/ Tick

Spec == Init /\ [][Next]_vars

-------------------------------------------------------------------------------
\* What an answer is worth.

Own(table) == {r \in table : r.installation_id = asked[1] /\ r.owner = asked[2]}

InWindow(rows, days, at) == {r \in rows : r.ts + days * DayLength >= at}

\* Each day as often as it counts.
Sum(counts) == Cardinality(UNION {{d} \X (1..counts[d]) : d \in DOMAIN counts})

\* What the status counted, when it did.
CountedThen ==
    {r \in InWindow(Own(then.table), status.window_days, then.now) : r.event_type # "flaky_test"}

\* The two halves of an answer add up: the series has what the status counted, but
\* for incidents, for failures excused and for rows that left the window between
\* the two queries, and beside them only what was inserted in between.  This holds
\* although the configuration may change in between, and the clock is read twice.
AnswerAddsUp ==
    [][pc = "series" /\ pc' = "idle" =>
        LET gone == {r \in CountedThen : \/ r.event_type = "incident"
                                         \/ r \notin events
                                         \/ r.ts + status.window_days * DayLength < now}
            new == {r \in InWindow(Own(events), status.window_days, now) \ then.table :
                        r.event_type \in {"build_failure", "revert"}}
        IN  /\ status.consumed = Cardinality(CountedThen)
            /\ Sum(daily_counts') = status.consumed - Cardinality(gone) + Cardinality(new)
       ]_vars

\* A window that begins within a day touches one calendar day more than it is long:
\* that many entries the series may have, and no earlier one, if no row is of the
\* future.
DaysInWindow ==
    [][pc = "series" /\ pc' = "idle" /\ (\A r \in events : r.ts <= now) =>
        DOMAIN daily_counts' \subseteq (day(now) - status.window_days)..day(now)]_vars

\* The in-memory repository, which the tests of this query run on, writes and answers
\* as the database does, whatever is in the table.
MemoryAgrees ==
    \A e \in Arrivals \cup events :
        /\ WritesAgree(events, e, "flaky_test")
        /\ AnswersAgree(events, e, COUNTED_EVENT_TYPES, now - DayLength)

-------------------------------------------------------------------------------
\* The panel of the Grafana dashboard that shows an owner's remaining budget.

\* `count(e.id) FILTER (WHERE e.ts >= ...)`, over the installation's current row of
\* tenant_config.
events_in_window(i, o) ==
    Cardinality({r \in events : /\ r.installation_id = i
                                /\ r.owner = o
                                /\ r.ts >= DaysAgo(tenant_config[i].rolling_window_days)})

\* An owner that the panel has a line for.
OnPanel(i, o) ==
    /\ tenant_config[i] # NoConfig
    /\ \E r \in events : r.installation_id = i /\ r.owner = o

\* The panel computes the formula of BudgetCalculator.
PanelAgrees ==
    \A i \in Installations, o \in Names :
        OnPanel(i, o) =>
            events_in_window(i, o) =
                count_since(events, i, o, COUNTED_EVENT_TYPES,
                            DaysAgo(window_and_limit(tenant_config[i]).window_days))

===============================================================================
