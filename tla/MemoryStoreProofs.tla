--------------------------- MODULE MemoryStoreProofs ---------------------------
(***************************************************************************)
(* The dictionary of the tests and the table of the database do the same   *)
(* with a write, and give the same answers, as long as they hold the same. *)
(***************************************************************************)
EXTENDS MemoryStore, EventStoreProofs, FiniteSetTheorems

\* Under the unique constraint the dictionary holds each row under its own key.
LEMMA MemoryLookup ==
    ASSUME NEW table \in SUBSET Row, UniqueKeys(table), NEW r \in table
    PROVE  /\ DedupeKey(r) \in DOMAIN MemoryOf(table)
           /\ MemoryOf(table)[DedupeKey(r)] = r
<1> DEFINE k == DedupeKey(r)
<1>1. k \in {DedupeKey(s) : s \in table}
  OBVIOUS
<1>2. MemoryOf(table)[k] = CHOOSE s \in table : DedupeKey(s) = k
  BY <1>1 DEF MemoryOf
<1>3. \A s \in table : DedupeKey(s) = k => s = r
  BY DEF UniqueKeys
<1>4. (CHOOSE s \in table : DedupeKey(s) = k) = r
  <2> DEFINE s == CHOOSE s \in table : DedupeKey(s) = k
  <2>1. s \in table /\ DedupeKey(s) = k
    OBVIOUS
  <2> QED
    BY <1>3, <2>1
<1> QED
  BY <1>1, <1>2, <1>4 DEF MemoryOf

\* Its keys are those of the table.
LEMMA MemoryDomain ==
    ASSUME NEW table
    PROVE  /\ DOMAIN MemoryOf(table) = {DedupeKey(r) : r \in table}
           /\ \A e : DedupeKey(e) \in DOMAIN MemoryOf(table) <=> HasKey(table, e)
  BY DEF MemoryOf, HasKey

\* Nothing is lost on the way to the dictionary and back.
LEMMA MemoryRows ==
    ASSUME NEW table \in SUBSET Row, UniqueKeys(table)
    PROVE  RowsOf(MemoryOf(table)) = table
<1>1. RowsOf(MemoryOf(table)) \subseteq table
  <2> SUFFICES ASSUME NEW k \in DOMAIN MemoryOf(table)
               PROVE  MemoryOf(table)[k] \in table
    BY DEF RowsOf
  <2>1. k \in {DedupeKey(r) : r \in table}
    BY MemoryDomain
  <2>2. PICK r \in table : k = DedupeKey(r)
    BY <2>1
  <2> QED
    BY <2>2, MemoryLookup
<1>2. table \subseteq RowsOf(MemoryOf(table))
  BY MemoryLookup DEF RowsOf
<1> QED
  BY <1>1, <1>2

\* A dictionary that holds exactly the rows of a table, each under its key, is the
\* table's dictionary.
LEMMA MemoryUnique ==
    ASSUME NEW table \in SUBSET Row, UniqueKeys(table),
           NEW dict, dict = [k \in DOMAIN dict |-> dict[k]],
           DOMAIN dict = {DedupeKey(r) : r \in table},
           \A r \in table : dict[DedupeKey(r)] = r
    PROVE  dict = MemoryOf(table)
<1> DEFINE keys == {DedupeKey(r) : r \in table}
<1>1. MemoryOf(table) = [k \in keys |-> MemoryOf(table)[k]]
  BY DEF MemoryOf
<1>2. ASSUME NEW k \in keys
      PROVE  dict[k] = MemoryOf(table)[k]
  <2>1. PICK r \in table : k = DedupeKey(r)
    OBVIOUS
  <2> QED
    BY <2>1, MemoryLookup
<1>3. dict = [k \in keys |-> dict[k]]
  OBVIOUS
<1> QED
  BY <1>1, <1>2, <1>3

-------------------------------------------------------------------------------

\* Saving an event does the same to the dictionary and to the table.
LEMMA SavesAgree ==
    ASSUME NEW table \in SUBSET Row, UniqueKeys(table), NEW e \in Row
    PROVE  memory_save_if_new(MemoryOf(table), e) = MemoryOf(save_if_new(table, e))
<1>1. CASE HasKey(table, e)
  BY <1>1, MemoryDomain DEF memory_save_if_new, save_if_new
<1>2. CASE ~HasKey(table, e)
  <2> DEFINE dict == Put(MemoryOf(table), DedupeKey(e), e)
             new == table \cup {e}
  <2>1. memory_save_if_new(MemoryOf(table), e) = dict
    BY <1>2, MemoryDomain DEF memory_save_if_new
  <2>2. save_if_new(table, e) = new
    BY <1>2 DEF save_if_new
  <2>3. new \in SUBSET Row /\ UniqueKeys(new)
    BY <2>2, SaveUnique
  <2>4. DOMAIN dict = {DedupeKey(r) : r \in new}
    <3>1. DOMAIN dict = {DedupeKey(r) : r \in table} \cup {DedupeKey(e)}
      BY MemoryDomain DEF Put
    <3> QED
      BY <3>1
  <2>5. ASSUME NEW r \in new
        PROVE  dict[DedupeKey(r)] = r
    <3>1. CASE r = e
      BY <3>1 DEF Put
    <3>2. CASE r \in table
      <4>1. DedupeKey(r) # DedupeKey(e)
        BY <1>2, <3>2 DEF HasKey
      <4> QED
        BY <3>2, <4>1, MemoryLookup DEF Put
    <3> QED
      BY <3>1, <3>2
  <2>6. dict = [k \in DOMAIN dict |-> dict[k]]
    BY DEF Put
  <2>7. dict = MemoryOf(new)
    <3> HIDE DEF dict, new
    <3> QED
      BY <2>3, <2>4, <2>5, <2>6, MemoryUnique
  <2> QED
    BY <2>1, <2>2, <2>7
<1> QED
  BY <1>1, <1>2

\* So does moving an event to another type: both leave things as they are when the
\* event is gone or its twin is there, and otherwise move the stored row.
LEMMA RetypesAgree ==
    ASSUME NEW table \in SUBSET Row, UniqueKeys(table),
           NEW e \in Row, NEW t \in ActivityEventType
    PROVE  memory_retype(MemoryOf(table), e, t) = MemoryOf(retype(table, e, t))
<1>1. CASE HasKey(table, Retyped(e, t)) /\ retype(table, e, t) = table
  BY <1>1, MemoryDomain DEF memory_retype
<1>2. CASE ~HasKey(table, e) /\ retype(table, e, t) = table
  BY <1>2, MemoryDomain DEF memory_retype
<1>3. ASSUME NEW r \in table, DedupeKey(r) = DedupeKey(e),
             ~HasKey(table, Retyped(r, t)),
             retype(table, e, t) = (table \ {r}) \cup {Retyped(r, t)}
      PROVE  memory_retype(MemoryOf(table), e, t) = MemoryOf(retype(table, e, t))
  <2> DEFINE old == DedupeKey(e)
             key == DedupeKey(Retyped(e, t))
             moved == Retyped(r, t)
             dict == Put(Pop(MemoryOf(table), old), key, moved)
             new == (table \ {r}) \cup {moved}
  <2>1. key = DedupeKey(moved)
    BY <1>3, RetypedKey
  <2>2. MemoryOf(table)[old] = r /\ old \in DOMAIN MemoryOf(table)
    BY <1>3, MemoryLookup
  <2>3. key \notin DOMAIN MemoryOf(table)
    BY <1>3, <2>1, MemoryDomain
  <2>4. memory_retype(MemoryOf(table), e, t) = dict
    BY <2>2, <2>3 DEF memory_retype
  <2>5. new \in SUBSET Row /\ UniqueKeys(new)
    <3>1. moved \in Row
      BY RetypedRow
    <3> QED
      BY <1>3, <3>1, RetypeUnique
  <2>6. DOMAIN dict = {DedupeKey(s) : s \in new}
    <3>1. DOMAIN dict = ({DedupeKey(s) : s \in table} \ {old}) \cup {key}
      BY MemoryDomain DEF Put, Pop
    <3>2. {DedupeKey(s) : s \in table} \ {old} = {DedupeKey(s) : s \in table \ {r}}
      BY <1>3 DEF UniqueKeys
    <3> QED
      BY <2>1, <3>1, <3>2
  <2>7. ASSUME NEW s \in new
        PROVE  dict[DedupeKey(s)] = s
    <3>1. CASE s = moved
      BY <2>1, <3>1 DEF Put
    <3>2. CASE s \in table \ {r}
      <4>1. DedupeKey(s) # old
        BY <1>3, <3>2 DEF UniqueKeys
      <4>2. DedupeKey(s) # key
        BY <1>3, <2>1, <3>2 DEF HasKey
      <4>3. MemoryOf(table)[DedupeKey(s)] = s /\ DedupeKey(s) \in DOMAIN MemoryOf(table)
        BY <3>2, MemoryLookup
      <4> QED
        BY <4>1, <4>2, <4>3 DEF Put, Pop
    <3> QED
      BY <3>1, <3>2
  <2>8. dict = [k \in DOMAIN dict |-> dict[k]]
    BY DEF Put
  <2>9. dict = MemoryOf(new)
    <3> HIDE DEF dict, new
    <3> QED
      BY <2>5, <2>6, <2>7, <2>8, MemoryUnique
  <2> QED
    BY <1>3, <2>4, <2>9
<1> QED
  BY <1>1, <1>2, <1>3, RetypeCases

\* The in-memory repository and the SQL repository do the same with every save and
\* every retype (adapters/memory and adapters/db/activity_event_repository.py).
THEOREM MemoryWritesAgree ==
    ASSUME NEW table \in SUBSET Row, UniqueKeys(table),
           NEW e \in Row, NEW t \in ActivityEventType
    PROVE  WritesAgree(table, e, t)
  BY SavesAgree, RetypesAgree DEF WritesAgree

-------------------------------------------------------------------------------

\* Under the unique constraint there are as many keys as rows.
LEMMA KeysCount ==
    ASSUME NEW rows \in SUBSET Row, UniqueKeys(rows), IsFiniteSet(rows)
    PROVE  Cardinality({DedupeKey(r) : r \in rows}) = Cardinality(rows)
<1> DEFINE keys == {DedupeKey(r) : r \in rows}
           f == [r \in rows |-> DedupeKey(r)]
<1>1. f \in Bijection(rows, keys)
  <2>1. f \in [rows -> keys]
    OBVIOUS
  <2>2. \A a, b \in rows : f[a] = f[b] => a = b
    BY DEF UniqueKeys
  <2>3. \A k \in keys : \E r \in rows : f[r] = k
    OBVIOUS
  <2> QED
    BY <2>1, <2>2, <2>3 DEF Bijection, Injection, Surjection, IsInjective
<1>2. ExistsBijection(rows, keys)
  BY <1>1 DEF ExistsBijection
<1> QED
  BY <1>2, FS_Bijection

\* The keys that a condition on the events picks in the dictionary are those of
\* the rows it picks in the table.
LEMMA CountedKeys ==
    ASSUME NEW table \in SUBSET Row, UniqueKeys(table),
           NEW i, NEW owner, NEW types, NEW since
    PROVE  counted(MemoryOf(table), i, owner, types, since)
           = {DedupeKey(r) : r \in {r \in table : /\ r.installation_id = i
                                                  /\ r.owner = owner
                                                  /\ r.event_type \in types
                                                  /\ r.ts >= since}}
<1> DEFINE dict == MemoryOf(table)
           Picked(r) == /\ r.installation_id = i
                        /\ r.owner = owner
                        /\ r.event_type \in types
                        /\ r.ts >= since
<1>1. counted(dict, i, owner, types, since) = {k \in DOMAIN dict : Picked(dict[k])}
  BY DEF counted
<1>2. DOMAIN dict = {DedupeKey(r) : r \in table}
  BY MemoryDomain
<1>3. \A r \in table : dict[DedupeKey(r)] = r
  BY MemoryLookup
<1>4. {k \in DOMAIN dict : Picked(dict[k])} = {DedupeKey(r) : r \in {r \in table : Picked(r)}}
  <2> HIDE DEF dict, Picked
  <2> QED
    BY <1>2, <1>3
<1> QED
  BY <1>1, <1>4

\* The in-memory repository and the SQL repository give the same answers: the rows
\* of a check, what an owner is charged, and the same by days.
THEOREM MemoryAnswersAgree ==
    ASSUME NEW table \in SUBSET Row, UniqueKeys(table), IsFiniteSet(table),
           NEW e \in Row, NEW types, NEW since
    PROVE  AnswersAgree(table, e, types, since)
<1> DEFINE i == e.installation_id
           owner == e.owner
           dict == MemoryOf(table)
           rows == {r \in table : /\ r.installation_id = i
                                  /\ r.owner = owner
                                  /\ r.event_type \in types
                                  /\ r.ts >= since}
           keys == counted(dict, i, owner, types, since)
<1>1. memory_find_recent(dict, i, e.repo, e.sha, e.check_name, e.event_type, since)
      = find_recent(table, i, e.repo, e.sha, e.check_name, e.event_type, since)
  BY MemoryRows DEF memory_find_recent, find_recent
<1>2. keys = {DedupeKey(r) : r \in rows}
  BY CountedKeys
<1>3. ASSUME NEW some \in SUBSET rows
      PROVE  Cardinality({DedupeKey(r) : r \in some}) = Cardinality(some)
  <2>1. some \in SUBSET Row /\ UniqueKeys(some)
    BY DEF UniqueKeys
  <2>2. IsFiniteSet(some)
    BY FS_Subset
  <2> QED
    BY <2>1, <2>2, KeysCount
<1>4. memory_count_since(dict, i, owner, types, since) = count_since(table, i, owner, types, since)
  <2>1. memory_count_since(dict, i, owner, types, since) = Cardinality(keys)
    BY DEF memory_count_since
  <2>2. count_since(table, i, owner, types, since) = Cardinality(rows)
    BY DEF count_since
  <2>3. Cardinality({DedupeKey(r) : r \in rows}) = Cardinality(rows)
    BY <1>3
  <2> QED
    BY <1>2, <2>1, <2>2, <2>3
<1>5. memory_daily_counts_since(dict, i, owner, types, since)
      = daily_counts_since(table, i, owner, types, since)
  <2>1. \A r \in rows : dict[DedupeKey(r)] = r
    BY MemoryLookup
  <2>2. {day(dict[k].ts) : k \in keys} = {day(r.ts) : r \in rows}
    <3> HIDE DEF dict, keys, rows
    <3> QED
      BY <1>2, <2>1
  <2>3. ASSUME NEW d
        PROVE  Cardinality({k \in keys : day(dict[k].ts) = d})
               = Cardinality({r \in rows : day(r.ts) = d})
    <3> DEFINE some == {r \in rows : day(r.ts) = d}
    <3>1. {k \in keys : day(dict[k].ts) = d} = {DedupeKey(r) : r \in some}
      <4> HIDE DEF dict, keys, rows
      <4> QED
        BY <1>2, <2>1
    <3>2. some \in SUBSET rows
      OBVIOUS
    <3> HIDE DEF some
    <3>3. Cardinality({DedupeKey(r) : r \in some}) = Cardinality(some)
      BY <1>3, <3>2
    <3> QED
      BY <3>1, <3>3 DEF some
  <2>4. memory_daily_counts_since(dict, i, owner, types, since)
        = [d \in {day(dict[k].ts) : k \in keys} |-> Cardinality({k \in keys : day(dict[k].ts) = d})]
    BY DEF memory_daily_counts_since
  <2>5. daily_counts_since(table, i, owner, types, since)
        = [d \in {day(r.ts) : r \in rows} |-> Cardinality({r \in rows : day(r.ts) = d})]
    BY DEF daily_counts_since
  <2> HIDE DEF dict, keys, rows
  <2>6. [d \in {day(dict[k].ts) : k \in keys} |-> Cardinality({k \in keys : day(dict[k].ts) = d})]
        = [d \in {day(r.ts) : r \in rows} |-> Cardinality({r \in rows : day(r.ts) = d})]
    BY <2>2, <2>3
  <2> QED
    BY <2>4, <2>5, <2>6
<1> QED
  BY <1>1, <1>4, <1>5 DEF AnswersAgree

===============================================================================
