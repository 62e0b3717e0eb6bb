------------------------------ MODULE EventStore ------------------------------
(***************************************************************************)
(* The `events` table and the operations of its repository                 *)
(* (adapters/db/activity_event_repository.py).  A table is a set of rows:  *)
(* the surrogate id is never read, and the unique constraint               *)
(* ux_events_dedupe_key keeps two rows from agreeing on their key.  Each   *)
(* operation of the repository is one transaction, so each is an operator  *)
(* from a table to a table or to a result.                                 *)
(*                                                                         *)
(* The operators named Mut... are seeded faults: no specification uses     *)
(* them, and each one put in place of the operator below it has to be      *)
(* noticed by the properties.                                              *)
(***************************************************************************)
EXTENDS Integers, FiniteSets

CONSTANTS
    Installations,  \* GitHub App installations, the tenants
    Repos,          \* repository full names
    Shas,           \* commit shas
    Names,          \* strings an owner can be: teams, people, default_team
    Checks,         \* check run names
    DayLength,      \* a calendar day (UTC) on the clock that ts is read from
    NoCheck,        \* a NULL check_name
    NoOwner         \* owner=None, before the fan-out to owners

ASSUME DayLengthAssumption == DayLength \in Nat \ {0}
ASSUME NoCheckAssumption == NoCheck \notin Checks
ASSUME NoOwnerAssumption == NoOwner \notin Names

ActivityEventType == {"build_failure", "revert", "flaky_test", "incident"}

\* What the classifier returns (no owner yet) and what the table stores.
ActivityEvent ==
    [installation_id : Installations,
     repo            : Repos,
     sha             : Shas,
     event_type      : ActivityEventType,
     owner           : Names \cup {NoOwner},
     ts              : Int,
     check_name      : Checks \cup {NoCheck}]

Row == {e \in ActivityEvent : e.owner # NoOwner}

\* The unique constraint.  It names neither check_name nor ts.
DedupeKey(e) == <<e.installation_id, e.repo, e.sha, e.event_type, e.owner>>

\* e under another type: what `retype` writes.
Retyped(e, new_type) == [e EXCEPT !.event_type = new_type]

HasKey(table, e) == \E r \in table : DedupeKey(r) = DedupeKey(e)

UniqueKeys(table) ==
    \A r1, r2 \in table : DedupeKey(r1) = DedupeKey(r2) => r1 = r2

-------------------------------------------------------------------------------

MutSaveOncePerCommit(table, event) ==
    IF \E r \in table, o \in Names : HasKey({[r EXCEPT !.owner = o]}, event)
    THEN table ELSE table \cup {event}

\* INSERT; a violation of the unique key is swallowed and reported as False.
save_if_new(table, event) ==
    IF HasKey(table, event) THEN table ELSE table \cup {event}

MutFindAnyTime(table, installation_id, repo, sha, check_name, event_type, since) ==
    {r \in table : /\ r.installation_id = installation_id
                   /\ r.repo = repo
                   /\ r.sha = sha
                   /\ r.check_name = check_name
                   /\ r.event_type = event_type}

\* A row with a NULL check_name matches no check_name.
find_recent(table, installation_id, repo, sha, check_name, event_type, since) ==
    {r \in table : /\ r.installation_id = installation_id
                   /\ r.repo = repo
                   /\ r.sha = sha
                   /\ r.check_name = check_name
                   /\ r.event_type = event_type
                   /\ r.ts >= since}

MutRetypeCopies(table, event, new_type) ==
    LET copy == Retyped(event, new_type)
    IN  IF HasKey(table, copy) THEN table ELSE table \cup {copy}

MutRetypeOncePerCommit(table, event, new_type) ==
    LET matched == {r \in table : DedupeKey(r) = DedupeKey(event)}
    IN  IF \E r \in matched, o \in Names :
                HasKey(table, [Retyped(r, new_type) EXCEPT !.owner = o])
        THEN table
        ELSE (table \ matched) \cup {Retyped(r, new_type) : r \in matched}

MutRetypeDropsOnConflict(table, event, new_type) ==
    LET matched == {r \in table : DedupeKey(r) = DedupeKey(event)}
    IN  IF \E r \in matched : HasKey(table, Retyped(r, new_type))
        THEN table \ matched
        ELSE (table \ matched) \cup {Retyped(r, new_type) : r \in matched}

MutRetypeReplaces(table, event, new_type) ==
    LET matched == {r \in table : DedupeKey(r) = DedupeKey(event)}
        moved == {Retyped(r, new_type) : r \in matched}
    IN  {r \in table \ matched : ~HasKey(moved, r)} \cup moved

\* UPDATE ... SET event_type WHERE the dedupe key matches.  The row is found by
\* its key alone: check_name is not compared again.  A clash with a row that
\* already has the new key aborts the statement and leaves the table as it was.
retype(table, event, new_type) ==
    LET matched == {r \in table : DedupeKey(r) = DedupeKey(event)}
    IN  IF \E r \in matched : HasKey(table, Retyped(r, new_type))
        THEN table
        ELSE (table \ matched) \cup {Retyped(r, new_type) : r \in matched}

\* What an owner's budget is charged: rows of the counted types from `since` on,
\* over all repositories of the installation.
count_since(table, installation_id, owner, event_types, since) ==
    Cardinality({r \in table : /\ r.installation_id = installation_id
                               /\ r.owner = owner
                               /\ r.event_type \in event_types
                               /\ r.ts >= since})

\* CAST(ts AS DATE)
day(ts) == ts \div DayLength

MutDailyCountsOuterJoin(table, installation_id, owner, event_types, since) ==
    LET rows == {r \in table : /\ r.installation_id = installation_id
                               /\ r.owner = owner
                               /\ r.event_type \in event_types
                               /\ r.ts >= since}
    IN  [d \in {day(r.ts) : r \in table} |-> Cardinality({r \in rows : day(r.ts) = d})]

\* The same rows by their days: a list in the code, ordered by day, with no entry
\* for a day without rows; here the function from the days to the counts.
daily_counts_since(table, installation_id, owner, event_types, since) ==
    LET rows == {r \in table : /\ r.installation_id = installation_id
                               /\ r.owner = owner
                               /\ r.event_type \in event_types
                               /\ r.ts >= since}
    IN  [d \in {day(r.ts) : r \in rows} |-> Cardinality({r \in rows : day(r.ts) = d})]

===============================================================================
