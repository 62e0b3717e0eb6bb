-------------------------- MODULE BudgetHistoryProofs --------------------------
(***************************************************************************)
(* Theorems about module BudgetHistory.                                    *)
(***************************************************************************)
EXTENDS BudgetHistory, MemoryStoreProofs, FunctionTheorems

\* The inductive invariant: the types, the unique constraint of the table, and what
\* a request has at hand when it gets to its second and its third query: the status
\* counted, whatever the tasks wrote since, what was in its window then.
AskedOwner == pc # "idle" => asked \in Installations \X Names
HasStatus ==
    pc = "series" => /\ status \in BudgetStatus
                     /\ IsFiniteSet(then.table)
                     /\ status.consumed = Cardinality(CountedThen)

IInv == TypeOK /\ UniqueKeys(events) /\ AskedOwner /\ HasStatus

-------------------------------------------------------------------------------

\* A day has a number, later times have no earlier days, and w days earlier is w
\* days earlier.
LEMMA Days ==
    ASSUME NEW a \in Int, NEW b \in Int, NEW w \in Int
    PROVE  /\ day(a) \in Int
           /\ a <= b => day(a) <= day(b)
           /\ day(a - w * DayLength) = day(a) - w
<1> DEFINE d == DayLength
<1>1. d \in Int /\ d > 0
  BY DayLengthAssumption
<1> HIDE DEF d
<1>2. \A x \in Int : /\ x \div d \in Int
                     /\ (x \div d) * d <= x
                     /\ x < (x \div d) * d + d
  BY <1>1, Z3
<1>3. a <= b => a \div d <= b \div d
  BY <1>1, <1>2, Z3
<1>4. (a - w * d) \div d = a \div d - w
  BY <1>1, <1>2, Z3
<1> QED
  BY <1>2, <1>3, <1>4 DEF day, d

\* Both writes of the tasks leave a finite table of rows with its unique constraint.
LEMMA WritesKeepTable ==
    ASSUME NEW table \in SUBSET Row, IsFiniteSet(table), UniqueKeys(table), NEW e \in Row
    PROVE  /\ save_if_new(table, e) \in SUBSET Row
           /\ IsFiniteSet(save_if_new(table, e))
           /\ UniqueKeys(save_if_new(table, e))
           /\ retype(table, e, "flaky_test") \in SUBSET Row
           /\ IsFiniteSet(retype(table, e, "flaky_test"))
           /\ UniqueKeys(retype(table, e, "flaky_test"))
<1> DEFINE t == "flaky_test"
<1>1. t \in ActivityEventType
  BY DEF ActivityEventType
<1>2. save_if_new(table, e) \in SUBSET Row /\ IsFiniteSet(save_if_new(table, e))
  <2>1. IsFiniteSet(table \cup {e})
    BY FS_AddElement
  <2> QED
    BY <2>1 DEF save_if_new
<1>3. ASSUME NEW r \in table
      PROVE  /\ (table \ {r}) \cup {Retyped(r, t)} \in SUBSET Row
             /\ IsFiniteSet((table \ {r}) \cup {Retyped(r, t)})
  <2>1. IsFiniteSet(table \ {r})
    BY FS_RemoveElement
  <2>2. IsFiniteSet((table \ {r}) \cup {Retyped(r, t)})
    BY <2>1, FS_AddElement
  <2>3. Retyped(r, t) \in Row
    BY <1>1, RetypedRow
  <2> QED
    BY <2>2, <2>3
<1>4. retype(table, e, t) \in SUBSET Row /\ IsFiniteSet(retype(table, e, t))
  BY <1>1, <1>3, RetypeCases
<1> QED
  BY <1>1, <1>2, <1>4, SaveUnique, RetypeUnique

\* The series of a finite table has a positive count for each of its days.
LEMMA SeriesType ==
    ASSUME NEW table \in SUBSET Row, IsFiniteSet(table),
           NEW i, NEW owner, NEW types, NEW since
    PROVE  LET series == daily_counts_since(table, i, owner, types, since)
           IN  /\ DOMAIN series \subseteq Int
               /\ \A d \in DOMAIN series : series[d] \in Nat \ {0}
<1> DEFINE rows == {r \in table : /\ r.installation_id = i
                                  /\ r.owner = owner
                                  /\ r.event_type \in types
                                  /\ r.ts >= since}
           days == {day(r.ts) : r \in rows}
           of(d) == {r \in rows : day(r.ts) = d}
           series == [d \in days |-> Cardinality(of(d))]
<1>1. daily_counts_since(table, i, owner, types, since) = series
  BY DEF daily_counts_since
<1>2. days \subseteq Int
  <2>1. \A r \in rows : r.ts \in Int
    BY DEF Row, ActivityEvent
  <2> QED
    BY <2>1, Days
<1>3. ASSUME NEW d \in days
      PROVE  Cardinality(of(d)) \in Nat \ {0}
  <2>1. of(d) # {}
    OBVIOUS
  <2>2. IsFiniteSet(of(d))
    <3>1. of(d) \subseteq table
      OBVIOUS
    <3> QED
      BY <3>1, FS_Subset
  <2> QED
    BY <2>1, <2>2, FS_CardinalityType, FS_EmptySet
<1> HIDE DEF days, of
<1>4. DOMAIN series = days /\ \A d \in days : series[d] = Cardinality(of(d))
  OBVIOUS
<1> QED
  BY <1>1, <1>2, <1>3, <1>4

\* What the days of a finite set of rows count adds up to the rows: a day's rows can
\* be numbered, and a day with a number stands for one row.
LEMMA CountsByDay ==
    ASSUME NEW rows \in SUBSET Row, IsFiniteSet(rows)
    PROVE  Sum([d \in {day(r.ts) : r \in rows} |-> Cardinality({r \in rows : day(r.ts) = d})])
           = Cardinality(rows)
<1> DEFINE days == {day(r.ts) : r \in rows}
           of == [d \in days |-> {r \in rows : day(r.ts) = d}]
           counts == [d \in days |-> Cardinality({r \in rows : day(r.ts) = d})]
           pairs == UNION {{d} \X (1..counts[d]) : d \in DOMAIN counts}
           number == [d \in days |-> CHOOSE f : f \in Bijection(1..Cardinality(of[d]), of[d])]
           row == [x \in pairs |-> number[x[1]][x[2]]]
<1>1. ASSUME NEW d \in days
      PROVE  number[d] \in Bijection(1..Cardinality(of[d]), of[d])
  <2>1. IsFiniteSet(of[d])
    BY FS_Subset
  <2>2. ExistsBijection(1..Cardinality(of[d]), of[d])
    BY <2>1, FS_CardinalityType
  <2> HIDE DEF of
  <2> QED
    BY <2>2 DEF ExistsBijection
<1>3. \A r \in rows : day(r.ts) \in days /\ r \in of[day(r.ts)]
  OBVIOUS
<1>4. \A d \in days : \A r \in of[d] : r \in rows /\ day(r.ts) = d
  OBVIOUS
<1>5. DOMAIN counts = days /\ \A d \in days : counts[d] = Cardinality(of[d])
  OBVIOUS
<1> HIDE DEF number, days, of, counts
<1>2. ASSUME NEW d \in days
      PROVE  /\ number[d] \in [1..Cardinality(of[d]) -> of[d]]
             /\ \A j, k \in 1..Cardinality(of[d]) : number[d][j] = number[d][k] => j = k
             /\ \A r \in of[d] : \E k \in 1..Cardinality(of[d]) : number[d][k] = r
  BY <1>1 DEF Bijection, Injection, Surjection, IsInjective
<1>6. \A x : x \in pairs <=> \E d \in days : \E k \in 1..Cardinality(of[d]) : x = <<d, k>>
  BY <1>5
<1> HIDE DEF pairs
<1>7. \A d \in days : \A k \in 1..Cardinality(of[d]) :
        <<d, k>> \in pairs /\ row[<<d, k>>] = number[d][k]
  BY <1>6
<1> HIDE DEF row
<1>8. row \in [pairs -> rows]
  <2>1. row = [x \in pairs |-> row[x]]
    BY DEF row
  <2>2. ASSUME NEW x \in pairs
        PROVE  row[x] \in rows
    <3> PICK d \in days : \E k \in 1..Cardinality(of[d]) : x = <<d, k>>
      BY <1>6
    <3> PICK k \in 1..Cardinality(of[d]) : x = <<d, k>>
      OBVIOUS
    <3>1. row[x] = number[d][k] /\ number[d][k] \in of[d]
      BY <1>2, <1>7
    <3> QED
      BY <1>4, <3>1
  <2> QED
    BY <2>1, <2>2
<1>9. \A x, y \in pairs : row[x] = row[y] => x = y
  <2> SUFFICES ASSUME NEW x \in pairs, NEW y \in pairs, row[x] = row[y]
               PROVE  x = y
    OBVIOUS
  <2> PICK d \in days : \E j \in 1..Cardinality(of[d]) : x = <<d, j>>
    BY <1>6
  <2>1. PICK j \in 1..Cardinality(of[d]) : x = <<d, j>>
    OBVIOUS
  <2> PICK e \in days : \E k \in 1..Cardinality(of[e]) : y = <<e, k>>
    BY <1>6
  <2>2. PICK k \in 1..Cardinality(of[e]) : y = <<e, k>>
    OBVIOUS
  <2>3. number[d][j] = number[e][k]
    BY <1>7, <2>1, <2>2
  <2>4. number[d][j] \in of[d] /\ number[e][k] \in of[e]
    <3>1. /\ number[d] \in [1..Cardinality(of[d]) -> of[d]]
          /\ number[e] \in [1..Cardinality(of[e]) -> of[e]]
      BY <1>2
    <3> QED
      BY <3>1
  <2>5. d = e
    BY <1>4, <2>3, <2>4
  <2> QED
    BY <1>2, <2>1, <2>2, <2>3, <2>5
<1>10. ASSUME NEW r \in rows
       PROVE  \E x \in pairs : row[x] = r
  <2> DEFINE d == day(r.ts)
  <2>1. d \in days /\ r \in of[d]
    BY <1>3
  <2>2. PICK k \in 1..Cardinality(of[d]) : number[d][k] = r
    BY <1>2, <2>1
  <2> QED
    BY <1>7, <2>1, <2>2
<1>11. ExistsBijection(pairs, rows)
  BY <1>8, <1>9, <1>10, Fun_IsBij DEF ExistsBijection
<1>12. ExistsBijection(rows, pairs)
  BY <1>11, Fun_ExistsBijSymmetric
<1>13. Cardinality(pairs) = Cardinality(rows)
  BY <1>12, FS_Bijection
<1> QED
  BY <1>13 DEF Sum, pairs, counts, days, of

LEMMA SeriesSum ==
    ASSUME NEW table \in SUBSET Row, IsFiniteSet(table),
           NEW i, NEW owner, NEW types, NEW since
    PROVE  Sum(daily_counts_since(table, i, owner, types, since))
           = count_since(table, i, owner, types, since)
<1> DEFINE rows == {r \in table : /\ r.installation_id = i
                                  /\ r.owner = owner
                                  /\ r.event_type \in types
                                  /\ r.ts >= since}
<1>1. rows \in SUBSET Row /\ IsFiniteSet(rows)
  BY FS_Subset
<1> QED
  BY <1>1, CountsByDay DEF daily_counts_since, count_since

-------------------------------------------------------------------------------

\* A row that the budget counts is one of the window that is no flaky test.
LEMMA CountedRow ==
    ASSUME now \in Int, NEW r \in Row, NEW days \in Int
    PROVE  /\ r.event_type \in COUNTED_EVENT_TYPES <=> r.event_type # "flaky_test"
           /\ r.event_type \in SERIES_EVENT_TYPES
              <=> r.event_type \notin {"flaky_test", "incident"}
           /\ r.ts >= DaysAgo(days) <=> r.ts + days * DayLength >= now
<1>1. r.event_type \in ActivityEventType /\ r.ts \in Int
  BY DEF Row, ActivityEvent
<1>2. days * DayLength \in Int
  BY DayLengthAssumption
<1>3. r.ts >= DaysAgo(days) <=> r.ts + days * DayLength >= now
  <2> DEFINE back == days * DayLength
  <2> HIDE DEF back
  <2>1. back \in Int => (r.ts >= now - back <=> r.ts + back >= now)
    BY <1>1
  <2> QED
    BY <1>2, <2>1 DEF DaysAgo, back
<1> QED
  BY <1>1, <1>3 DEF ActivityEventType, COUNTED_EVENT_TYPES, SERIES_EVENT_TYPES

\* The invariant holds at first.
LEMMA InitEstablishes ==
    Init => IInv
<1> SUFFICES ASSUME Init PROVE IInv
  OBVIOUS
<1>1. IsFiniteSet(events)
  BY FS_EmptySet DEF Init
<1>2. TypeOK
  BY <1>1, HistoryAssumption DEF Init, TypeOK, FallbackConfig
<1> QED
  BY <1>2 DEF Init, IInv, UniqueKeys, AskedOwner, HasStatus

\* What the status counted stays what it counted while the request holds it.
LEMMA HeldStatus ==
    ASSUME HasStatus, UNCHANGED request
    PROVE  HasStatus'
BY DEF HasStatus, CountedThen, InWindow, Own, request

\* And every step keeps it.
LEMMA NextPreserves ==
    IInv /\ [Next]_vars => IInv'
<1> SUFFICES ASSUME IInv, [Next]_vars PROVE IInv'
  OBVIOUS
<1> USE DEF IInv, AskedOwner
<1>1. ASSUME NEW i \in Installations, NEW o \in Names, Ask(i, o)
      PROVE  IInv'
  <2>1. terms' \in [window_days : Int, limit : Int]
    BY <1>1 DEF Ask, TypeOK, window_and_limit, FallbackConfig, TenantConfig
  <2> QED
    BY <1>1, <2>1 DEF Ask, TypeOK, HasStatus
<1>2. CASE CountEvents
  <2> DEFINE rows == {r \in events : /\ r.installation_id = asked[1]
                                     /\ r.owner = asked[2]
                                     /\ r.event_type \in COUNTED_EVENT_TYPES
                                     /\ r.ts >= DaysAgo(terms.window_days)}
  <2>0. rows = {r \in {s \in events : s.installation_id = asked[1] /\ s.owner = asked[2]} :
                  /\ r.ts + terms.window_days * DayLength >= now
                  /\ r.event_type # "flaky_test"}
    BY CountedRow DEF TypeOK
  <2>1. Cardinality(rows) \in Nat
    <3>1. IsFiniteSet(rows)
      BY FS_Subset DEF TypeOK
    <3> QED
      BY <3>1, FS_CardinalityType
  <2>2. asked[2] \in Names
    BY <1>2 DEF CountEvents
  <2>3. status' = status_for(asked[2], terms, Cardinality(rows))
    BY <1>2 DEF CountEvents, count_since
  <2> HIDE DEF rows
  <2>4. status' \in BudgetStatus
    BY <2>1, <2>2, <2>3 DEF status_for, BudgetStatus, TypeOK
  <2>5. then' = [table |-> events, now |-> now]
    BY <1>2 DEF CountEvents
  <2>6. then'.table \subseteq Row /\ IsFiniteSet(then'.table) /\ then'.now \in 0..now
    BY <2>5 DEF TypeOK
  <2>7. status'.window_days = terms.window_days /\ status'.consumed = Cardinality(rows)
    BY <2>3 DEF status_for
  <2>8. CountedThen' = rows
    BY <1>2, <2>0, <2>5, <2>7 DEF CountedThen, InWindow, Own, CountEvents
  <2> QED
    BY <1>2, <2>2, <2>4, <2>6, <2>7, <2>8 DEF CountEvents, TypeOK, HasStatus
<1>3. CASE Series
  <2>1. /\ DOMAIN daily_counts' \subseteq Int
        /\ \A d \in DOMAIN daily_counts' : daily_counts'[d] \in Nat \ {0}
    BY <1>3, SeriesType DEF Series, TypeOK
  <2> QED
    BY <1>3, <2>1 DEF Series, TypeOK, HasStatus
<1>4. ASSUME NEW e \in Arrivals, Insert(e)
      PROVE  IInv'
  <2>1. /\ events' \subseteq Row /\ IsFiniteSet(events')
        /\ UniqueKeys(events')
    BY <1>4, WritesKeepTable, HistoryAssumption DEF Insert, TypeOK
  <2> QED
    BY <1>4, <2>1, HistoryAssumption, HeldStatus DEF Insert, Write, request, TypeOK
<1>5. ASSUME NEW e \in events, Excuse(e)
      PROVE  IInv'
  <2>1. /\ events' \subseteq Row /\ IsFiniteSet(events')
        /\ UniqueKeys(events')
    BY <1>5, WritesKeepTable DEF Excuse, TypeOK
  <2> QED
    BY <1>5, <2>1, HistoryAssumption, HeldStatus DEF Excuse, Write, request, TypeOK
<1>6. ASSUME NEW i \in Installations, NEW config \in Configs, Configure(i, config)
      PROVE  IInv'
  BY <1>6, HistoryAssumption, HeldStatus DEF Configure, Write, request, TypeOK
<1>7. CASE Tick
  BY <1>7, HistoryAssumption, HeldStatus DEF Tick, request, TypeOK
<1>8. CASE UNCHANGED vars
  BY <1>8, HeldStatus DEF vars, request, TypeOK
<1> QED
  BY <1>1, <1>2, <1>3, <1>4, <1>5, <1>6, <1>7, <1>8 DEF Next

LEMMA Invariant ==
    Spec => []IInv
  BY InitEstablishes, NextPreserves, PTL DEF Spec

\* A request's status and series, its bookkeeping and the tables are well typed: a
\* series has no empty day.
THEOREM HistoryTypeCorrect ==
    Spec => []TypeOK
<1>1. IInv => TypeOK
  BY DEF IInv
<1> QED
  BY <1>1, Invariant, PTL

\* Whatever the table comes to hold, the tests' repository writes and answers like
\* the one of the database.
THEOREM MemoryAlwaysAgrees ==
    Spec => []MemoryAgrees
<1>1. IInv => MemoryAgrees
  <2> SUFFICES ASSUME IInv, NEW e \in Arrivals \cup events
               PROVE  /\ WritesAgree(events, e, "flaky_test")
                      /\ AnswersAgree(events, e, COUNTED_EVENT_TYPES, now - DayLength)
    BY DEF MemoryAgrees
  <2>1. events \in SUBSET Row /\ IsFiniteSet(events) /\ UniqueKeys(events)
    BY DEF IInv, TypeOK
  <2>2. e \in Row
    BY <2>1, HistoryAssumption
  <2>3. "flaky_test" \in ActivityEventType
    BY DEF ActivityEventType
  <2> QED
    BY <2>1, <2>2, <2>3, MemoryWritesAgree, MemoryAnswersAgree
<1> QED
  BY <1>1, Invariant, PTL

\* An answer has entries for the days of its window and the one it begins within, and
\* for no other, if no row is of the future.
THEOREM AnswersStayInWindow ==
    Spec => DaysInWindow
<1>1. IInv /\ [Next]_vars
        => [pc = "series" /\ pc' = "idle" /\ (\A r \in events : r.ts <= now) =>
              DOMAIN daily_counts' \subseteq (day(now) - status.window_days)..day(now)]_vars
  <2> SUFFICES ASSUME IInv, Next, pc = "series", pc' = "idle",
                      \A r \in events : r.ts <= now
               PROVE  DOMAIN daily_counts' \subseteq (day(now) - status.window_days)..day(now)
    BY DEF vars, request
  <2>1. Series
    BY DEF Next, Ask, CountEvents, Insert, Excuse, Configure, Tick, Write, request
  <2> DEFINE w == status.window_days
             rows == {r \in events : /\ r.installation_id = asked[1]
                                     /\ r.owner = asked[2]
                                     /\ r.event_type \in SERIES_EVENT_TYPES
                                     /\ r.ts >= DaysAgo(w)}
  <2>2. DOMAIN daily_counts' = {day(r.ts) : r \in rows}
    BY <2>1 DEF Series, daily_counts_since
  <2>3. now \in Int /\ w \in Int /\ DayLength \in Int
    BY DayLengthAssumption DEF IInv, HasStatus, BudgetStatus, TypeOK
  <2>4. ASSUME NEW r \in rows
        PROVE  day(r.ts) \in (day(now) - w)..day(now)
    <3>1. r.ts \in Int
      BY DEF IInv, TypeOK, Row, ActivityEvent
    <3>2. now - w * DayLength <= r.ts /\ r.ts <= now
      BY <2>3, <3>1 DEF DaysAgo
    <3>3. now - w * DayLength \in Int
      BY <2>3
    <3>4. day(r.ts) <= day(now)
      BY <2>3, <3>1, <3>2, Days
    <3>5. day(now - w * DayLength) <= day(r.ts)
      BY <2>3, <3>1, <3>2, <3>3, Days
    <3>6. day(now - w * DayLength) = day(now) - w
      BY <2>3, Days
    <3>7. day(r.ts) \in Int /\ day(now) \in Int
      BY <2>3, <3>1, Days
    <3> QED
      BY <2>3, <3>4, <3>5, <3>6, <3>7
  <2> QED
    BY <2>2, <2>4
<1> QED
  BY <1>1, Invariant, PTL DEF Spec, DaysInWindow

\* The series of every answer adds up to what its status counted, less the incidents,
\* what was excused and what left the window between the queries, and with what was
\* inserted between them, however the tasks write and the configuration changes.
THEOREM AnswersAddUp ==
    Spec => AnswerAddsUp
<1> DEFINE w == status.window_days
           Left(r) == \/ r.event_type = "incident"
                      \/ r \notin events
                      \/ r.ts + w * DayLength < now
           gone == {r \in CountedThen : Left(r)}
           new == {r \in InWindow(Own(events), w, now) \ then.table :
                       r.event_type \in {"build_failure", "revert"}}
           Adds == /\ status.consumed = Cardinality(CountedThen)
                   /\ Sum(daily_counts') = status.consumed - Cardinality(gone) + Cardinality(new)
<1>1. IInv /\ [Next]_vars => [pc = "series" /\ pc' = "idle" => Adds]_vars
  <2> SUFFICES ASSUME IInv, Next, pc = "series", pc' = "idle"
               PROVE  Adds
    BY DEF vars, request
  <2>1. Series
    BY DEF Next, Ask, CountEvents, Insert, Excuse, Configure, Tick, Write, request
  <2> DEFINE rows == {r \in events : /\ r.installation_id = asked[1]
                                     /\ r.owner = asked[2]
                                     /\ r.event_type \in SERIES_EVENT_TYPES
                                     /\ r.ts >= DaysAgo(w)}
  <2>2. /\ events \in SUBSET Row /\ IsFiniteSet(events)
        /\ then.table \in SUBSET Row /\ IsFiniteSet(then.table)
        /\ now \in Int /\ then.now \in Int /\ then.now <= now
        /\ w \in Int
        /\ status.consumed = Cardinality(CountedThen)
    BY HistoryAssumption DEF IInv, TypeOK, HasStatus, BudgetStatus
  <2>3. Sum(daily_counts') = Cardinality(rows)
    BY <2>1, <2>2, SeriesSum DEF Series, count_since
  <2>4. rows = {r \in Own(events) : /\ r.event_type \notin {"flaky_test", "incident"}
                                    /\ r.ts + w * DayLength >= now}
    BY <2>2, CountedRow DEF Own
  <2> DEFINE back == w * DayLength
  <2>5. back \in Int /\ \A r \in Row : r.ts \in Int
    BY <2>2, DayLengthAssumption DEF Row, ActivityEvent
  <2>6. CountedThen = {r \in Own(then.table) : /\ r.event_type # "flaky_test"
                                               /\ r.ts + back >= then.now}
    BY DEF CountedThen, InWindow
  <2>7. new = {r \in Own(events) : /\ r \notin then.table
                                   /\ r.event_type \in {"build_failure", "revert"}
                                   /\ r.ts + back >= now}
    BY DEF InWindow
  <2>8. gone = {r \in CountedThen : \/ r.event_type = "incident"
                                    \/ r \notin events
                                    \/ r.ts + back < now}
    OBVIOUS
  <2>9. \A r \in Row : r.event_type \in {"build_failure", "revert"}
                        <=> r.event_type \notin {"flaky_test", "incident"}
    BY DEF Row, ActivityEvent, ActivityEventType
  <2> HIDE DEF back, rows, gone, new
  <2>10. rows = (CountedThen \ gone) \cup new
    <3>1. ASSUME NEW r \in rows
          PROVE  r \in (CountedThen \ gone) \cup new
      BY <2>2, <2>4, <2>5, <2>6, <2>7, <2>8, <2>9 DEF Own, back
    <3>2. ASSUME NEW r \in CountedThen \ gone
          PROVE  r \in rows
      BY <2>2, <2>4, <2>5, <2>6, <2>8 DEF Own, back
    <3>3. ASSUME NEW r \in new
          PROVE  r \in rows
      BY <2>2, <2>4, <2>7, <2>9 DEF Own, back
    <3> QED
      BY <3>1, <3>2, <3>3
  <2>11. (CountedThen \ gone) \cap new = {} /\ CountedThen \cap gone = gone
    BY <2>6, <2>7, <2>8 DEF Own
  <2>12. IsFiniteSet(CountedThen) /\ IsFiniteSet(new)
    <3>1. CountedThen \subseteq then.table /\ new \subseteq events
      BY <2>6, <2>7 DEF Own
    <3> QED
      BY <2>2, <3>1, FS_Subset
  <2>13. /\ IsFiniteSet(CountedThen \ gone)
         /\ Cardinality(CountedThen \ gone) = Cardinality(CountedThen) - Cardinality(gone)
    <3>1. /\ IsFiniteSet(CountedThen \ gone)
          /\ Cardinality(CountedThen \ gone)
             = Cardinality(CountedThen) - Cardinality(CountedThen \cap gone)
      BY <2>12, FS_Difference
    <3> QED
      BY <2>11, <3>1
  <2>14. Cardinality(rows) = Cardinality(CountedThen \ gone) + Cardinality(new)
    <3>1. Cardinality(rows) = Cardinality(CountedThen \ gone) + Cardinality(new)
                              - Cardinality({})
      BY <2>10, <2>11, <2>12, <2>13, FS_Union
    <3>2. /\ Cardinality(CountedThen \ gone) \in Nat
          /\ Cardinality(new) \in Nat
          /\ Cardinality({}) = 0
      BY <2>12, <2>13, FS_CardinalityType, FS_EmptySet
    <3> QED
      BY <3>1, <3>2
  <2> QED
    BY <2>2, <2>3, <2>13, <2>14
<1> QED
  BY <1>1, Invariant, PTL DEF Spec, AnswerAddsUp

===============================================================================
