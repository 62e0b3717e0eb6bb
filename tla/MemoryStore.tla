------------------------------ MODULE MemoryStore ------------------------------
(***************************************************************************)
(* adapters/memory/activity_event_repository.py: the events table as a     *)
(* dictionary from dedupe keys to events.  The tests of the domain and of  *)
(* the worker run on it in the place of the SQL repository, and show       *)
(* something of the system only as far as the two agree.                   *)
(***************************************************************************)
EXTENDS EventStore

\* What the dictionary holds after what left `table` in the database, and back.
MemoryOf(table) ==
    [k \in {DedupeKey(r) : r \in table} |-> CHOOSE r \in table : DedupeKey(r) = k]

RowsOf(dict) == {dict[k] : k \in DOMAIN dict}

\* dict[key] = event, and dict.pop(key)
Put(dict, key, event) ==
    [k \in DOMAIN dict \cup {key} |-> IF k = key THEN event ELSE dict[k]]

Pop(dict, key) == [k \in DOMAIN dict \ {key} |-> dict[k]]

memory_save_if_new(dict, event) ==
    IF DedupeKey(event) \in DOMAIN dict THEN dict
    ELSE Put(dict, DedupeKey(event), event)

MutPopFirst(dict, event, new_type) ==
    LET old_key == DedupeKey(event)
        new_key == DedupeKey(Retyped(event, new_type))
    IN  IF old_key \notin DOMAIN dict THEN dict
        ELSE IF new_key \in DOMAIN dict THEN Pop(dict, old_key)
        ELSE Put(Pop(dict, old_key), new_key, Retyped(dict[old_key], new_type))

memory_retype(dict, event, new_type) ==
    LET old_key == DedupeKey(event)
        new_key == DedupeKey(Retyped(event, new_type))
    IN  IF old_key \notin DOMAIN dict \/ new_key \in DOMAIN dict THEN dict
        ELSE Put(Pop(dict, old_key), new_key, Retyped(dict[old_key], new_type))

\* None equals None here: the two repositories answer alike only for a check_name.
memory_find_recent(dict, installation_id, repo, sha, check_name, event_type, since) ==
    {e \in RowsOf(dict) : /\ e.installation_id = installation_id
                          /\ e.repo = repo
                          /\ e.sha = sha
                          /\ e.check_name = check_name
                          /\ e.event_type = event_type
                          /\ e.ts >= since}

\* The events that count_since and daily_counts_since go over.
counted(dict, installation_id, owner, event_types, since) ==
    {k \in DOMAIN dict : /\ dict[k].installation_id = installation_id
                         /\ dict[k].owner = owner
                         /\ dict[k].event_type \in event_types
                         /\ dict[k].ts >= since}

memory_count_since(dict, installation_id, owner, event_types, since) ==
    Cardinality(counted(dict, installation_id, owner, event_types, since))

memory_daily_counts_since(dict, installation_id, owner, event_types, since) ==
    LET keys == counted(dict, installation_id, owner, event_types, since)
    IN  [d \in {day(dict[k].ts) : k \in keys} |->
            Cardinality({k \in keys : day(dict[k].ts) = d})]

-------------------------------------------------------------------------------

\* What the two repositories do with event e and with a retype of it.
WritesAgree(table, e, new_type) ==
    /\ memory_save_if_new(MemoryOf(table), e) = MemoryOf(save_if_new(table, e))
    /\ memory_retype(MemoryOf(table), e, new_type) = MemoryOf(retype(table, e, new_type))

\* What they answer about the check and the owner of row e.
AnswersAgree(table, e, event_types, since) ==
    /\ e.check_name # NoCheck =>
        memory_find_recent(MemoryOf(table), e.installation_id, e.repo, e.sha, e.check_name,
                           e.event_type, since)
        = find_recent(table, e.installation_id, e.repo, e.sha, e.check_name, e.event_type, since)
    /\ memory_count_since(MemoryOf(table), e.installation_id, e.owner, event_types, since)
       = count_since(table, e.installation_id, e.owner, event_types, since)
    /\ memory_daily_counts_since(MemoryOf(table), e.installation_id, e.owner, event_types, since)
       = daily_counts_since(table, e.installation_id, e.owner, event_types, since)

===============================================================================
