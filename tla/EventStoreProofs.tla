--------------------------- MODULE EventStoreProofs ---------------------------
(***************************************************************************)
(* What the two writing operations of the events table do to a table that  *)
(* keeps its unique constraint.                                            *)
(***************************************************************************)
EXTENDS EventStore, TLAPS

\* A row under another type is still a row, and keeps everything but its type.
LEMMA RetypedRow ==
    ASSUME NEW e \in Row, NEW t \in ActivityEventType
    PROVE  /\ Retyped(e, t) \in Row
           /\ Retyped(e, t).event_type = t
           /\ Retyped(e, t).installation_id = e.installation_id
           /\ Retyped(e, t).repo = e.repo
           /\ Retyped(e, t).sha = e.sha
           /\ Retyped(e, t).owner = e.owner
           /\ Retyped(e, t).ts = e.ts
           /\ Retyped(e, t).check_name = e.check_name
  BY DEF Retyped, Row, ActivityEvent

\* Rows with equal keys have equal keys under another type.
LEMMA RetypedKey ==
    ASSUME NEW e \in Row, NEW r \in Row, NEW t \in ActivityEventType,
           DedupeKey(e) = DedupeKey(r)
    PROVE  DedupeKey(Retyped(e, t)) = DedupeKey(Retyped(r, t))
  BY RetypedRow DEF DedupeKey

\* save_if_new keeps what is there, brings in nothing but the event, and leaves
\* the event's key in the table: inserted now or there before.
LEMMA SaveKeeps ==
    ASSUME NEW table \in SUBSET Row, NEW e \in Row
    PROVE  /\ table \subseteq save_if_new(table, e)
           /\ save_if_new(table, e) \subseteq table \cup {e}
           /\ HasKey(save_if_new(table, e), e)
  BY DEF save_if_new, HasKey

\* save_if_new never breaks the unique constraint.
LEMMA SaveUnique ==
    ASSUME NEW table \in SUBSET Row, NEW e \in Row, UniqueKeys(table)
    PROVE  UniqueKeys(save_if_new(table, e))
  BY DEF save_if_new, UniqueKeys, HasKey

\* retype does one of three things: nothing, because the new key is taken; nothing,
\* because the row is gone; or it turns the one row with the event's key into the
\* same row under the new type, whose key was free.
LEMMA RetypeCases ==
    ASSUME NEW table \in SUBSET Row, UniqueKeys(table),
           NEW e \in Row, NEW t \in ActivityEventType
    PROVE  \/ /\ HasKey(table, Retyped(e, t))
              /\ retype(table, e, t) = table
           \/ /\ ~HasKey(table, e)
              /\ retype(table, e, t) = table
           \/ \E r \in table :
                /\ DedupeKey(r) = DedupeKey(e)
                /\ ~HasKey(table, Retyped(r, t))
                /\ retype(table, e, t) = (table \ {r}) \cup {Retyped(r, t)}
<1> DEFINE matched == {r \in table : DedupeKey(r) = DedupeKey(e)}
<1>1. CASE ~HasKey(table, e)
  <2>1. matched = {}
    BY <1>1 DEF HasKey
  <2>2. retype(table, e, t) = (table \ {}) \cup {}
    BY <2>1 DEF retype
  <2> QED
    BY <1>1, <2>2
<1>2. CASE HasKey(table, e)
  <2>1. PICK r \in table : DedupeKey(r) = DedupeKey(e)
    BY <1>2 DEF HasKey
  <2>2. matched = {r}
    BY <2>1 DEF UniqueKeys
  <2>3. DedupeKey(Retyped(r, t)) = DedupeKey(Retyped(e, t))
    BY <2>1, RetypedKey
  <2>4. CASE HasKey(table, Retyped(r, t))
    <3>1. retype(table, e, t) = table
      BY <2>2, <2>4 DEF retype
    <3> QED
      BY <2>3, <2>4, <3>1 DEF HasKey
  <2>5. CASE ~HasKey(table, Retyped(r, t))
    <3>1. retype(table, e, t) = (table \ {r}) \cup {Retyped(r, t)}
      BY <2>2, <2>5 DEF retype
    <3> QED
      BY <2>1, <2>5, <3>1
  <2> QED
    BY <2>4, <2>5
<1> QED
  BY <1>1, <1>2

\* retype never breaks the unique constraint.
LEMMA RetypeUnique ==
    ASSUME NEW table \in SUBSET Row, UniqueKeys(table),
           NEW e \in Row, NEW t \in ActivityEventType
    PROVE  UniqueKeys(retype(table, e, t))
<1>1. CASE retype(table, e, t) = table
  BY <1>1
<1>2. ASSUME NEW r \in table,
             ~HasKey(table, Retyped(r, t)),
             retype(table, e, t) = (table \ {r}) \cup {Retyped(r, t)}
      PROVE  UniqueKeys(retype(table, e, t))
  BY <1>2 DEF UniqueKeys, HasKey
<1> QED
  BY <1>1, <1>2, RetypeCases

\* retype leaves the event's twin under the new type in the table, made by this
\* call or by an earlier one, when the event or its twin was there.
LEMMA RetypeTwin ==
    ASSUME NEW table \in SUBSET Row, UniqueKeys(table),
           NEW e \in Row, NEW t \in ActivityEventType,
           e \in table \/ HasKey(table, Retyped(e, t))
    PROVE  HasKey(retype(table, e, t), Retyped(e, t))
<1>1. CASE HasKey(table, Retyped(e, t)) /\ retype(table, e, t) = table
  BY <1>1
<1>2. CASE ~HasKey(table, e)
  <2>1. HasKey(table, Retyped(e, t)) /\ retype(table, e, t) = table
    <3>1. {r \in table : DedupeKey(r) = DedupeKey(e)} = {}
      BY <1>2 DEF HasKey
    <3>2. retype(table, e, t) = (table \ {}) \cup {}
      BY <3>1 DEF retype
    <3>3. e \notin table
      BY <1>2 DEF HasKey
    <3> QED
      BY <3>2, <3>3
  <2> QED
    BY <2>1
<1>3. ASSUME NEW r \in table, DedupeKey(r) = DedupeKey(e),
             retype(table, e, t) = (table \ {r}) \cup {Retyped(r, t)}
      PROVE  HasKey(retype(table, e, t), Retyped(e, t))
  <2>1. DedupeKey(Retyped(r, t)) = DedupeKey(Retyped(e, t))
    BY <1>3, RetypedKey
  <2> QED
    BY <1>3, <2>1 DEF HasKey
<1> QED
  BY <1>1, <1>2, <1>3, RetypeCases

-------------------------------------------------------------------------------
\* The three kinds of tasks and their one table.

\* Rows of different types never have each other's keys.
LEMMA KeysOfTypes ==
    ASSUME NEW a \in Row, NEW b \in Row, a.event_type # b.event_type
    PROVE  DedupeKey(a) # DedupeKey(b)
  BY DEF DedupeKey

\* Saving a row takes or frees no key of a row of another type.
LEMMA SaveApart ==
    ASSUME NEW table \in SUBSET Row, NEW e \in Row, NEW x \in Row, e.event_type # x.event_type
    PROVE  HasKey(save_if_new(table, e), x) <=> HasKey(table, x)
  BY KeysOfTypes DEF save_if_new, HasKey

\* Neither does a retype, but for keys of the two types it is about.
LEMMA RetypeApart ==
    ASSUME NEW table \in SUBSET Row, NEW e \in Row, NEW t \in ActivityEventType,
           NEW x \in Row, x.event_type \notin {e.event_type, t}
    PROVE  HasKey(retype(table, e, t), x) <=> HasKey(table, x)
<1> DEFINE matched == {r \in table : DedupeKey(r) = DedupeKey(e)}
<1>1. retype(table, e, t) = table
      \/ retype(table, e, t) = (table \ matched) \cup {Retyped(r, t) : r \in matched}
  BY DEF retype
<1>2. \A r \in matched : r \in Row /\ DedupeKey(r) # DedupeKey(x)
  BY KeysOfTypes
<1>3. \A r \in matched : DedupeKey(Retyped(r, t)) # DedupeKey(x)
  BY <1>2, KeysOfTypes, RetypedRow
<1> QED
  BY <1>1, <1>2, <1>3 DEF HasKey

\* The tasks that report incidents and those that classify activity share the table
\* and do not meet in it: a save of an incident commutes with every save and retype of
\* the others, and finds them the same rows.  So what a module says of one kind of task
\* is not disturbed by the other, in whatever order their transactions come.
THEOREM IncidentsStandApart ==
    ASSUME NEW table \in SUBSET Row,
           NEW incident \in Row, incident.event_type = "incident",
           NEW e \in Row, e.event_type # "incident",
           NEW t \in ActivityEventType \ {"incident"}
    PROVE  /\ save_if_new(save_if_new(table, incident), e)
              = save_if_new(save_if_new(table, e), incident)
           /\ retype(save_if_new(table, incident), e, t)
              = save_if_new(retype(table, e, t), incident)
           /\ \A i, repo, sha, check_name, since :
                find_recent(save_if_new(table, incident), i, repo, sha, check_name, t, since)
                = find_recent(table, i, repo, sha, check_name, t, since)
<1> DEFINE saved == save_if_new(table, incident)
<1>1. save_if_new(saved, e) = save_if_new(save_if_new(table, e), incident)
  <2>1. HasKey(saved, e) <=> HasKey(table, e)
    BY SaveApart
  <2>2. HasKey(save_if_new(table, e), incident) <=> HasKey(table, incident)
    BY SaveApart
  <2> QED
    BY <2>1, <2>2 DEF save_if_new
<1>2. retype(saved, e, t) = save_if_new(retype(table, e, t), incident)
  <2> DEFINE matched(rows) == {r \in rows : DedupeKey(r) = DedupeKey(e)}
             taken(rows) == \E r \in matched(rows) : HasKey(rows, Retyped(r, t))
  <2>1. matched(saved) = matched(table) /\ incident \notin matched(table)
    BY KeysOfTypes DEF save_if_new
  <2>2. \A r \in matched(table) : HasKey(saved, Retyped(r, t)) <=> HasKey(table, Retyped(r, t))
    BY SaveApart, RetypedRow
  <2>3. taken(saved) <=> taken(table)
    BY <2>1, <2>2
  <2>4. HasKey(retype(table, e, t), incident) <=> HasKey(table, incident)
    BY RetypeApart
  <2>5. \A rows : retype(rows, e, t)
                  = IF taken(rows) THEN rows
                    ELSE (rows \ matched(rows)) \cup {Retyped(r, t) : r \in matched(rows)}
    BY DEF retype
  <2>6. saved = IF HasKey(table, incident) THEN table ELSE table \cup {incident}
    BY DEF save_if_new
  <2>7. save_if_new(retype(table, e, t), incident)
        = IF HasKey(table, incident) THEN retype(table, e, t)
          ELSE retype(table, e, t) \cup {incident}
    BY <2>4 DEF save_if_new
  <2> HIDE DEF saved, matched, taken
  <2> QED
    BY <2>1, <2>3, <2>5, <2>6, <2>7
<1>3. ASSUME NEW i, NEW repo, NEW sha, NEW check_name, NEW since
      PROVE  find_recent(saved, i, repo, sha, check_name, t, since)
             = find_recent(table, i, repo, sha, check_name, t, since)
  BY DEF find_recent, save_if_new
<1> QED
  BY <1>1, <1>2, <1>3

===============================================================================
