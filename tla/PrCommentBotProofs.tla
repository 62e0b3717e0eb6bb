-------------------------- MODULE PrCommentBotProofs --------------------------
(***************************************************************************)
(* Proofs about PrCommentBot for every number of children, pull requests,  *)
(* webhooks and failures.  The types and the stages are proved first; then *)
(* that comments are bounded by the children, that a comment quotes its    *)
(* own repository, and that the last word on a pull request is right.      *)
(***************************************************************************)
EXTENDS PrCommentBot, EventStoreProofs, MergencyConfigProofs, FiniteSetTheorems

-------------------------------------------------------------------------------
\* The tables.

\* A finite table stays finite.
LEMMA FiniteWrites ==
    ASSUME NEW table \in SUBSET Row, IsFiniteSet(table), UniqueKeys(table), NEW e \in Row
    PROVE  /\ save_if_new(table, e) \in SUBSET Row
           /\ IsFiniteSet(save_if_new(table, e))
           /\ retype(table, e, "flaky_test") \in SUBSET Row
           /\ IsFiniteSet(retype(table, e, "flaky_test"))
<1>1. IsFiniteSet(table \cup {e})
  BY FS_AddElement
<1>2. save_if_new(table, e) \in SUBSET Row /\ IsFiniteSet(save_if_new(table, e))
  BY <1>1 DEF save_if_new
<1>3. "flaky_test" \in ActivityEventType
  BY DEF ActivityEventType
<1>4. CASE retype(table, e, "flaky_test") = table
  BY <1>2, <1>4
<1>5. CASE \E r \in table :
              retype(table, e, "flaky_test") = (table \ {r}) \cup {Retyped(r, "flaky_test")}
  <2>1. PICK r \in table :
              retype(table, e, "flaky_test") = (table \ {r}) \cup {Retyped(r, "flaky_test")}
    BY <1>5
  <2>2. IsFiniteSet(table \ {r})
    BY FS_RemoveElement
  <2>3. IsFiniteSet((table \ {r}) \cup {Retyped(r, "flaky_test")})
    BY <2>2, FS_AddElement
  <2>4. Retyped(r, "flaky_test") \in Row
    BY <1>3, RetypedRow
  <2> QED
    BY <1>2, <2>1, <2>3, <2>4
<1> QED
  BY <1>3, <1>4, <1>5, RetypeCases

\* What is counted is a number.
LEMMA CountType ==
    ASSUME NEW table \in SUBSET Row, IsFiniteSet(table),
           NEW i, NEW owner, NEW types, NEW since
    PROVE  count_since(table, i, owner, types, since) \in Nat
<1> DEFINE counted == {r \in table : /\ r.installation_id = i
                                     /\ r.owner = owner
                                     /\ r.event_type \in types
                                     /\ r.ts >= since}
<1>1. IsFiniteSet(counted)
  BY FS_Subset
<1> QED
  BY <1>1, FS_CardinalityType DEF count_since

-------------------------------------------------------------------------------
\* Types and stages.

Basic == TypeOK /\ UniqueKeys(events) /\ StagesRight

\* A task is of its kind, and is about a row or a pull request.
LEMMA TaskSubject ==
    ASSUME NEW task \in PullTask \cup Activity
    PROVE  /\ task # NoTask
           /\ task.subject.installation_id \in Installations
           /\ task.subject.repo \in Repos
           /\ task.kind = "pull" => task \in PullTask /\ task.subject \in Pulls
           /\ task.kind # "pull" => task \in Activity /\ task.subject \in Row
  BY BotAssumption DEF PullTask, ActivityTask, Row, ActivityEvent

LEMMA FrameType == EmptyFrame \in Frame
  BY ConfigAssumption, BotAssumption DEF EmptyFrame, Frame, FallbackConfig

\* A frame stays one when a task assigns its variables what belongs there.
LEMMA FrameUpdates ==
    ASSUME NEW g \in Frame
    PROVE  /\ \A x \in SUBSET Files : [g EXCEPT !.changed_files = x] \in Frame
           /\ \A team \in Teams, pct \in Int :
                [g EXCEPT !.default_team = team, !.warn_threshold_pct = pct] \in Frame
           /\ \A x \in SUBSET Names : [g EXCEPT !.owners = x] \in Frame
           /\ \A x \in SUBSET BudgetStatus : [g EXCEPT !.shrinking = x] \in Frame
           /\ \A x \in Nat : [g EXCEPT !.existing = x] \in Frame
<1>1. \A x \in SUBSET Files : [g EXCEPT !.changed_files = x] \in Frame
  BY DEF Frame
<1>2. \A team \in Teams, pct \in Int :
        [g EXCEPT !.default_team = team, !.warn_threshold_pct = pct] \in Frame
  BY DEF Frame
<1>3. \A x \in SUBSET Names : [g EXCEPT !.owners = x] \in Frame
  BY DEF Frame
<1>4. \A x \in SUBSET BudgetStatus : [g EXCEPT !.shrinking = x] \in Frame
  BY DEF Frame
<1>5. \A x \in Nat : [g EXCEPT !.existing = x] \in Frame
  BY DEF Frame
<1> QED
  BY <1>1, <1>2, <1>3, <1>4, <1>5

LEMMA FrameTurn ==
    ASSUME NEW g \in Frame, NEW names \in SUBSET Names, NEW owner \in Names,
           NEW terms \in [window_days : Int, limit : Int]
    PROVE  [g EXCEPT !.owner = owner, !.owners = names, !.terms = terms] \in Frame
  BY DEF Frame

LEMMA FramesUpdate ==
    ASSUME TypeOK, NEW w \in Workers, NEW g \in Frame, frame' = [frame EXCEPT ![w] = g]
    PROVE  frame' \in [Workers -> Frame]
  BY DEF TypeOK

LEMMA BasicInit == Init => Basic
<1> SUFFICES ASSUME Init PROVE Basic
  OBVIOUS
<1>1. files \in [Pulls -> SUBSET Files]
  BY DEF Init
<1>2. IsFiniteSet(events)
  BY FS_EmptySet DEF Init
<1>3. TypeOK
  <2>1. frame \in [Workers -> Frame]
    BY FrameType DEF Init
  <2>2. now \in 0..MaxTime
    BY BotAssumption DEF Init
  <2>3. queue \in Seq(PullTask \cup Activity) /\ comments \in [Pulls -> Seq(Body)]
    BY DEF Init
  <2>4. pc \in [Workers -> Stages]
    BY DEF Init, Stages
  <2> QED
    BY <1>1, <1>2, <2>1, <2>2, <2>3, <2>4 DEF Init, TypeOK
<1>4. StagesRight
  BY DEF Init, StagesRight, Evaluating
<1> QED
  BY <1>3, <1>4 DEF Init, Basic, UniqueKeys

LEMMA BasicTrigger ==
    ASSUME Basic, NEW p \in Pulls, Trigger(p)
    PROVE  Basic'
<1>1. [kind |-> "pull", subject |-> p] \in PullTask
  BY DEF PullTask
<1>2. TypeOK'
  <2>1. queue' \in Seq(PullTask \cup Activity)
    BY <1>1 DEF Basic, TypeOK, Trigger
  <2>2. PICK head \in Heads[p] : files' = [files EXCEPT ![p] = head]
    BY DEF Trigger
  <2>3. head \in SUBSET Files
    BY BotAssumption
  <2> QED
    BY <2>1, <2>2, <2>3 DEF Basic, TypeOK, Trigger
<1> QED
  BY <1>2 DEF Basic, Trigger, StagesRight

LEMMA BasicQueueActivity ==
    ASSUME Basic, NEW task \in Activity, QueueActivity(task)
    PROVE  Basic'
<1>1. TypeOK'
  BY DEF Basic, TypeOK, QueueActivity, github, history
<1> QED
  BY <1>1 DEF Basic, QueueActivity, StagesRight, github

LEMMA BasicTick ==
    ASSUME Basic, Tick
    PROVE  Basic'
<1>1. TypeOK'
  BY BotAssumption DEF Basic, TypeOK, Tick, github, counters, history
<1> QED
  BY <1>1 DEF Basic, Tick, StagesRight, github, counters, history

LEMMA BasicBegin ==
    ASSUME Basic, NEW w \in Workers, Begin(w)
    PROVE  Basic'
<1>1. Head(queue) \in PullTask \cup Activity /\ Tail(queue) \in Seq(PullTask \cup Activity)
  BY DEF Basic, TypeOK, Begin
<1>2. FirstStage(Head(queue)) \in {"files", "config", "excuse"}
  BY DEF FirstStage
<1>3. TypeOK'
  BY <1>1, <1>2, FrameType DEF Basic, TypeOK, Begin, github, counters, history, Stages
<1>4. StagesRight'
  BY <1>1, <1>2, TaskSubject
     DEF Basic, TypeOK, StagesRight, Begin, github, FirstStage, Evaluating
<1> QED
  BY <1>3, <1>4 DEF Basic, Begin

LEMMA BasicFilesChanged ==
    ASSUME Basic, NEW w \in Workers, FilesChanged(w)
    PROVE  Basic'
<1>1. job[w] \in PullTask /\ job[w].subject \in Pulls
  BY DEF Basic, StagesRight, FilesChanged, Evaluating, PullTask
<1>2. job[w] # NoTask
  BY <1>1, BotAssumption
<1>3. TypeOK'
  <2>1. frame' \in [Workers -> Frame]
    <3>1. frame' = [frame EXCEPT ![w] = [frame[w] EXCEPT !.changed_files = files[job[w].subject]]]
      BY DEF FilesChanged
    <3>2. [frame[w] EXCEPT !.changed_files = files[job[w].subject]] \in Frame
      BY <1>1, FrameUpdates DEF Basic, TypeOK
    <3> QED
      BY <3>1, <3>2, FramesUpdate DEF Basic
  <2> QED
    BY <1>1, <2>1 DEF Basic, TypeOK, FilesChanged, github, counters, history, Stages
<1>4. StagesRight'
  BY <1>1, <1>2 DEF Basic, TypeOK, StagesRight, FilesChanged, github, Evaluating
<1> QED
  BY <1>3, <1>4 DEF Basic, FilesChanged

LEMMA BasicResolveConfig ==
    ASSUME Basic, NEW w \in Workers, ResolveConfig(w)
    PROVE  Basic'
<1>1. job[w] \in PullTask \cup Activity
  BY DEF Basic, TypeOK, StagesRight, ResolveConfig
<1>2. OwnConfig(job[w].subject) \in TenantConfig
  BY <1>1, TaskSubject, StorableConfig, BotAssumption DEF ResolveConfig, OwnConfig
<1>3. TypeOK'
  <2>1. frame' \in [Workers -> Frame]
    <3>1. /\ OwnConfig(job[w].subject).default_team \in Teams
          /\ OwnConfig(job[w].subject).warn_threshold_pct \in Int
      BY <1>2 DEF TenantConfig
    <3> DEFINE g == [frame[w] EXCEPT
                        !.default_team = OwnConfig(job[w].subject).default_team,
                        !.warn_threshold_pct = OwnConfig(job[w].subject).warn_threshold_pct]
    <3>2. frame' = [frame EXCEPT ![w] = g]
      BY DEF ResolveConfig
    <3>3. g \in Frame
      BY <3>1, FrameUpdates DEF Basic, TypeOK
    <3> QED
      BY <3>2, <3>3, FramesUpdate DEF Basic
  <2>2. tenant_config' \in [Installations -> TenantConfig \cup {NoConfig}]
    BY <1>2 DEF Basic, TypeOK, ResolveConfig
  <2> QED
    BY <2>1, <2>2 DEF Basic, TypeOK, ResolveConfig, github, counters, Spoil, Overwrites, Stages
<1>4. StagesRight'
  BY <1>1, TaskSubject DEF Basic, TypeOK, StagesRight, ResolveConfig, github, Evaluating
<1> QED
  BY <1>3, <1>4 DEF Basic, ResolveConfig

LEMMA BasicResolveOwners ==
    ASSUME Basic, NEW w \in Workers, ResolveOwners(w)
    PROVE  Basic'
<1>1. frame[w] \in Frame
  BY DEF Basic, TypeOK
<1>2. \A fs, read : resolve_owners(fs, read, frame[w].default_team) \subseteq Names
  BY <1>1, BotAssumption DEF resolve_owners, Frame
<1>3. PICK owners \in SUBSET Names : frame' = [frame EXCEPT ![w].owners = owners]
  BY <1>2 DEF ResolveOwners
<1>4. TypeOK'
  <2>1. frame' \in [Workers -> Frame]
    <3>1. frame' = [frame EXCEPT ![w] = [frame[w] EXCEPT !.owners = owners]]
      BY <1>3
    <3>2. [frame[w] EXCEPT !.owners = owners] \in Frame
      BY <1>1, FrameUpdates
    <3> QED
      BY <3>1, <3>2, FramesUpdate DEF Basic
  <2> QED
    BY <2>1 DEF Basic, TypeOK, ResolveOwners, github, counters, history, Stages
<1>5. StagesRight'
  BY DEF Basic, TypeOK, StagesRight, ResolveOwners, github, Evaluating
<1> QED
  BY <1>4, <1>5 DEF Basic, ResolveOwners

LEMMA BasicReadTerms ==
    ASSUME Basic, NEW w \in Workers, ReadTerms(w)
    PROVE  Basic'
<1>1. frame[w] \in Frame
  BY DEF Basic, TypeOK
<1>2. job[w] \in PullTask
  BY DEF Basic, StagesRight, ReadTerms, Evaluating
<1>3. tenant_config[job[w].subject.installation_id] \in TenantConfig \cup {NoConfig}
  BY <1>2, TaskSubject DEF Basic, TypeOK
<1> DEFINE terms == window_and_limit(tenant_config[job[w].subject.installation_id])
<1>4. terms \in [window_days : Int, limit : Int]
  BY <1>3 DEF window_and_limit, FallbackConfig, TenantConfig
<1>5. PICK owner \in frame[w].owners :
        frame' = [frame EXCEPT ![w].owner = owner,
                               ![w].owners = @ \ {owner},
                               ![w].terms = terms]
  BY DEF ReadTerms
<1> HIDE DEF terms
<1>6. TypeOK'
  <2>1. frame' \in [Workers -> Frame]
    <3> DEFINE g == [frame[w] EXCEPT !.owner = owner, !.owners = @ \ {owner}, !.terms = terms]
    <3>1. frame' = [frame EXCEPT ![w] = g]
      BY <1>5
    <3>2. frame[w].owners \subseteq Names
      BY <1>1 DEF Frame
    <3>3. g = [frame[w] EXCEPT !.owner = owner, !.owners = frame[w].owners \ {owner}, !.terms = terms]
      OBVIOUS
    <3>4. g \in Frame
      BY <1>1, <1>4, <3>2, <3>3, FrameTurn
    <3> QED
      BY <3>1, <3>4, FramesUpdate DEF Basic
  <2> QED
    BY <2>1 DEF Basic, TypeOK, ReadTerms, github, counters, history, Stages
<1>7. StagesRight'
  BY DEF Basic, TypeOK, StagesRight, ReadTerms, github, Evaluating
<1> QED
  BY <1>6, <1>7 DEF Basic, ReadTerms

LEMMA BasicCountEvents ==
    ASSUME Basic, NEW w \in Workers, CountEvents(w)
    PROVE  Basic'
<1>1. frame[w] \in Frame
  BY DEF Basic, TypeOK
<1> DEFINE consumed == count_since(events, job[w].subject.installation_id, frame[w].owner,
                                   COUNTED_EVENT_TYPES, now - frame[w].terms.window_days)
           status == status_for(frame[w].owner, frame[w].terms, consumed)
<1>2. consumed \in Nat
  BY CountType DEF Basic, TypeOK
<1>3. status \in BudgetStatus
  BY <1>1, <1>2 DEF status_for, BudgetStatus, Frame
<1>4. PICK shrinking \in SUBSET BudgetStatus : frame' = [frame EXCEPT ![w].shrinking = shrinking]
  BY <1>1, <1>3 DEF CountEvents, Frame
<1>5. TypeOK'
  <2>1. frame' \in [Workers -> Frame]
    <3>1. frame' = [frame EXCEPT ![w] = [frame[w] EXCEPT !.shrinking = shrinking]]
      BY <1>4
    <3>2. [frame[w] EXCEPT !.shrinking = shrinking] \in Frame
      BY <1>1, FrameUpdates
    <3> QED
      BY <3>1, <3>2, FramesUpdate DEF Basic
  <2> QED
    BY <2>1 DEF Basic, TypeOK, CountEvents, github, counters, history, Stages
<1>6. StagesRight'
  BY DEF Basic, TypeOK, StagesRight, CountEvents, github, Evaluating
<1> QED
  BY <1>5, <1>6 DEF Basic, CountEvents

LEMMA BasicFindComment ==
    ASSUME Basic, NEW w \in Workers, FindComment(w)
    PROVE  Basic'
<1>1. job[w] \in PullTask /\ job[w].subject \in Pulls
  BY DEF Basic, StagesRight, FindComment, Evaluating, PullTask
<1> DEFINE existing == IF comments[job[w].subject] = <<>> THEN 0 ELSE 1
<1>2. existing \in Nat /\ existing <= Len(comments[job[w].subject])
  BY <1>1 DEF Basic, TypeOK
<1>3. frame' = [frame EXCEPT ![w].existing = existing]
  BY DEF FindComment
<1>4. pc' \in [Workers -> Stages] /\ pc'[w] \in {"idle", "post"}
  BY DEF Basic, TypeOK, FindComment, Stages
<1> HIDE DEF existing
<1>5. TypeOK'
  <2>1. frame' \in [Workers -> Frame]
    <3>1. frame' = [frame EXCEPT ![w] = [frame[w] EXCEPT !.existing = existing]]
      BY <1>3
    <3>2. [frame[w] EXCEPT !.existing = existing] \in Frame
      BY <1>2, FrameUpdates DEF Basic, TypeOK
    <3> QED
      BY <3>1, <3>2, FramesUpdate DEF Basic
  <2> QED
    BY <1>4, <2>1 DEF Basic, TypeOK, FindComment, github, counters, history
<1>6. StagesRight'
  <2>1. frame'[w].existing = existing /\ \A v \in Workers \ {w} : frame'[v] = frame[v]
    BY <1>3 DEF Basic, TypeOK, Frame
  <2>2. \A v \in Workers \ {w} : pc'[v] = pc[v]
    BY DEF Basic, TypeOK, FindComment
  <2> QED
    BY <1>1, <1>2, <1>4, <2>1, <2>2
       DEF Basic, StagesRight, FindComment, github, Evaluating
<1> QED
  BY <1>5, <1>6 DEF Basic, FindComment

\* A warning has at least one row, and any body is one.
LEMMA BodyType ==
    ASSUME NEW shrinking \in SUBSET BudgetStatus
    PROVE  BodyFor(shrinking) \in Body
  BY DEF BodyFor, Body, worst_severity

\* Posting adds one comment to the pull request when none was found, and otherwise
\* changes one in place.
LEMMA PostedComment ==
    ASSUME Basic, NEW w \in Workers, PostComment(w)
    PROVE  /\ job[w] \in PullTask /\ job[w].subject \in Pulls
           /\ comments' \in [Pulls -> Seq(Body)]
           /\ \A p \in Pulls : p # job[w].subject => comments'[p] = comments[p]
           /\ frame[w].existing = 0 =>
                comments'[job[w].subject] =
                    Append(comments[job[w].subject], BodyFor(frame[w].shrinking))
           /\ frame[w].existing # 0 =>
                /\ Len(comments'[job[w].subject]) = Len(comments[job[w].subject])
                /\ comments'[job[w].subject] =
                    [comments[job[w].subject] EXCEPT
                        ![frame[w].existing] = BodyFor(frame[w].shrinking)]
<1> DEFINE p == job[w].subject
           body == BodyFor(frame[w].shrinking)
           edited == [comments[p] EXCEPT ![frame[w].existing] = body]
<1>1. job[w] \in PullTask /\ p \in Pulls
  BY DEF Basic, StagesRight, PostComment, Evaluating, PullTask
<1>2. frame[w] \in Frame /\ comments[p] \in Seq(Body)
  BY <1>1 DEF Basic, TypeOK
<1>3. body \in Body
  BY <1>2, BodyType DEF Frame
<1> HIDE DEF body
<1>4. frame[w].existing \in Nat
  BY <1>2 DEF Frame
<1>5. frame[w].existing # 0 => edited \in Seq(Body) /\ Len(edited) = Len(comments[p])
  <2>1. comments[p] \in [1..Len(comments[p]) -> Body] /\ Len(comments[p]) \in Nat
    BY <1>2
  <2>2. edited \in [1..Len(comments[p]) -> Body]
    BY <1>3, <2>1
  <2> QED
    BY <2>1, <2>2
<1>6. Append(comments[p], body) \in Seq(Body)
  BY <1>2, <1>3
<1>7. comments' = [comments EXCEPT ![p] =
                        IF frame[w].existing = 0 THEN Append(comments[p], body) ELSE edited]
  BY DEF PostComment, body
<1> HIDE DEF edited, p
<1> QED
  BY <1>1, <1>5, <1>6, <1>7 DEF Basic, TypeOK, edited, body, p

LEMMA BasicPostComment ==
    ASSUME Basic, NEW w \in Workers, PostComment(w)
    PROVE  Basic'
<1>1. TypeOK'
  BY PostedComment DEF Basic, TypeOK, PostComment, counters, history, Stages
<1>2. ASSUME NEW p \in Pulls PROVE Len(comments[p]) <= Len(comments'[p])
  <2>1. comments[p] \in Seq(Body) /\ Len(comments[p]) \in Nat
    BY DEF Basic, TypeOK
  <2>2. CASE p = job[w].subject /\ frame[w].existing = 0
    <3>1. comments'[p] = Append(comments[p], BodyFor(frame[w].shrinking))
      BY <2>2, PostedComment
    <3> QED
      BY <2>1, <3>1
  <2>3. CASE p # job[w].subject
    <3>1. comments'[p] = comments[p]
      BY <2>3, PostedComment
    <3> QED
      BY <2>1, <3>1
  <2>4. CASE p = job[w].subject /\ frame[w].existing # 0
    <3>1. Len(comments'[p]) = Len(comments[p])
      BY <2>4, PostedComment
    <3> QED
      BY <2>1, <3>1
  <2> QED
    BY <2>2, <2>3, <2>4
<1>3. StagesRight'
  <2> SUFFICES ASSUME NEW v \in Workers, v # w
               PROVE  pc[v] = "post" =>
                        frame[v].existing <= Len(comments'[job[v].subject])
    BY DEF Basic, TypeOK, StagesRight, PostComment, Evaluating
  <2> SUFFICES ASSUME pc[v] = "post" PROVE frame[v].existing <= Len(comments'[job[v].subject])
    OBVIOUS
  <2>1. job[v].subject \in Pulls
    BY DEF Basic, StagesRight, Evaluating, PullTask
  <2>2. frame[v].existing \in Nat
    BY DEF Basic, TypeOK, Frame
  <2>3. frame[v].existing <= Len(comments[job[v].subject])
    BY DEF Basic, StagesRight
  <2>4. Len(comments[job[v].subject]) \in Nat
    BY <2>1 DEF Basic, TypeOK
  <2>5. Len(comments'[job[v].subject]) \in Nat
    BY <1>1, <2>1 DEF TypeOK
  <2> QED
    BY <1>2, <2>1, <2>2, <2>3, <2>4, <2>5
<1> QED
  BY <1>1, <1>3 DEF Basic, PostComment

LEMMA BasicWriteEvent ==
    ASSUME Basic, NEW w \in Workers, WriteEvent(w)
    PROVE  Basic'
<1>1. job[w] \in Activity /\ job[w].subject \in Row
  BY BotAssumption DEF Basic, StagesRight, WriteEvent, ActivityTask
<1>2. events' \in SUBSET Row /\ IsFiniteSet(events')
  BY <1>1, FiniteWrites DEF Basic, TypeOK, WriteEvent
<1>3. UniqueKeys(events')
  <2>1. "flaky_test" \in ActivityEventType
    BY DEF ActivityEventType
  <2> QED
    BY <1>1, <2>1, SaveUnique, RetypeUnique DEF Basic, TypeOK, WriteEvent
<1>4. TypeOK'
  BY <1>2 DEF Basic, TypeOK, WriteEvent, github, counters, history, Stages
<1>5. StagesRight'
  BY DEF Basic, TypeOK, StagesRight, WriteEvent, github, Evaluating
<1> QED
  BY <1>3, <1>4, <1>5 DEF Basic, UniqueKeys

LEMMA BasicRaise ==
    ASSUME Basic, NEW w \in Workers, Raise(w)
    PROVE  Basic'
<1>1. TypeOK'
  BY DEF Basic, TypeOK, Raise, github, Stages, Spoil
<1>2. StagesRight'
  BY DEF Basic, TypeOK, StagesRight, Raise, github, Evaluating
<1> QED
  BY <1>1, <1>2 DEF Basic, Raise

LEMMA BasicStep == Basic /\ [Next]_vars => Basic'
<1> SUFFICES ASSUME Basic, [Next]_vars PROVE Basic'
  OBVIOUS
<1>1. CASE UNCHANGED vars
  BY <1>1 DEF vars, history, Basic, TypeOK, StagesRight, UniqueKeys
<1>2. CASE Next
  BY <1>2, BasicTrigger, BasicQueueActivity, BasicTick, BasicBegin, BasicFilesChanged,
     BasicResolveConfig, BasicResolveOwners, BasicReadTerms, BasicCountEvents,
     BasicFindComment, BasicPostComment, BasicWriteEvent, BasicRaise DEF Next, Step
<1> QED
  BY <1>1, <1>2

\* Every variable of the bot keeps its type, in particular a comment that a task
\* found stays there to be edited and a posted body is a well-formed one.
THEOREM BotTypeCorrect == Spec => []TypeOK
<1>1. Spec => []Basic
  BY BasicInit, BasicStep, PTL DEF Spec
<1>2. Basic => TypeOK
  BY DEF Basic
<1> QED
  BY <1>1, <1>2, PTL

-------------------------------------------------------------------------------
\* Comments are bounded by the children.

\* Creators of p are children, and finitely many.
LEMMA CreatorsFinite ==
    ASSUME NEW p \in Pulls
    PROVE  /\ IsFiniteSet(Creators(p))
           /\ Cardinality(Creators(p)) \in Nat
           /\ Cardinality(Creators(p)) <= Cardinality(Workers)
           /\ Cardinality(Workers) \in Nat
<1>1. Creators(p) \in SUBSET Workers
  BY DEF Creators
<1>2. IsFiniteSet(Workers)
  BY BotAssumption
<1> QED
  BY <1>1, <1>2, FS_Subset, FS_CardinalityType

\* A step that adds no comment, and after which nobody newly is about to, keeps the
\* sum.
LEMMA CreatorsFewer ==
    ASSUME TypeOK, TypeOK', CreatorsCounted, NEW p \in Pulls,
           Len(comments'[p]) = Len(comments[p]),
           Creators(p)' \subseteq Creators(p)
    PROVE  Len(comments'[p]) + Cardinality(Creators(p)') <= Cardinality(Workers)
<1>1. /\ IsFiniteSet(Creators(p))
      /\ Cardinality(Creators(p)) \in Nat
      /\ Cardinality(Workers) \in Nat
  BY CreatorsFinite
<1>2. /\ IsFiniteSet(Creators(p)')
      /\ Cardinality(Creators(p)') <= Cardinality(Creators(p))
  BY <1>1, FS_Subset
<1>3. Cardinality(Creators(p)') \in Nat
  BY <1>2, FS_CardinalityType
<1>4. Len(comments[p]) \in Nat
  BY DEF TypeOK
<1> QED
  BY <1>1, <1>2, <1>3, <1>4 DEF CreatorsCounted

LEMMA CountedFindComment ==
    ASSUME IInv, Basic', NEW w \in Workers, FindComment(w)
    PROVE  CreatorsCounted'
<1> SUFFICES ASSUME NEW p \in Pulls
             PROVE  Len(comments'[p]) + Cardinality(Creators(p)') <= Cardinality(Workers)
  BY DEF CreatorsCounted
<1>1. comments' = comments /\ job' = job
  BY DEF FindComment, github
<1>2. CASE comments[p] = <<>>
  <2>1. Len(comments'[p]) = 0
    BY <1>1, <1>2
  <2>2. Creators(p)' \in SUBSET Workers
    BY DEF Creators
  <2>3. IsFiniteSet(Workers)
    BY BotAssumption
  <2>4. IsFiniteSet(Creators(p)') /\ Cardinality(Creators(p)') <= Cardinality(Workers)
    BY <2>2, <2>3, FS_Subset
  <2>5. Cardinality(Creators(p)') \in Nat
    BY <2>4, FS_CardinalityType
  <2> QED
    BY <2>1, <2>4, <2>5
<1>3. CASE comments[p] # <<>>
  <2>1. ASSUME NEW v \in Workers, v \in Creators(p)' PROVE v \in Creators(p)
    <3>1. job[v] = [kind |-> "pull", subject |-> p] /\ frame'[v].existing = 0 /\ pc'[v] = "post"
      BY <1>1, <2>1 DEF Creators
    <3>2. v # w
      BY <1>3, <3>1 DEF FindComment, IInv, TypeOK, Frame
    <3> QED
      BY <2>1, <3>1, <3>2 DEF FindComment, IInv, TypeOK, Creators
  <2>2. Creators(p)' \subseteq Creators(p)
    BY <2>1 DEF Creators
  <2> QED
    BY <1>1, <2>2, CreatorsFewer DEF IInv, Basic
<1> QED
  BY <1>2, <1>3

LEMMA CountedPostComment ==
    ASSUME IInv, Basic', NEW w \in Workers, PostComment(w)
    PROVE  CreatorsCounted'
<1> SUFFICES ASSUME NEW p \in Pulls
             PROVE  Len(comments'[p]) + Cardinality(Creators(p)') <= Cardinality(Workers)
  BY DEF CreatorsCounted
<1>1. Creators(p)' = Creators(p) \ {w}
  BY DEF PostComment, IInv, TypeOK, Creators
<1>2. Basic
  BY DEF IInv, Basic
<1>3. CASE w \in Creators(p)
  <2>1. job[w].subject = p /\ frame[w].existing = 0
    BY <1>3 DEF Creators
  <2>2. comments'[p] = Append(comments[p], BodyFor(frame[w].shrinking))
    BY <1>2, <2>1, PostedComment
  <2>3. comments[p] \in Seq(Body) /\ Len(comments[p]) \in Nat
    BY DEF IInv, TypeOK
  <2>4. Len(comments'[p]) = Len(comments[p]) + 1
    BY <2>2, <2>3
  <2>5. /\ IsFiniteSet(Creators(p))
        /\ Cardinality(Creators(p)) \in Nat
        /\ Cardinality(Workers) \in Nat
    BY CreatorsFinite
  <2>6. Cardinality(Creators(p)') = Cardinality(Creators(p)) - 1
    BY <1>1, <1>3, <2>5, FS_RemoveElement
  <2>7. Len(comments[p]) + Cardinality(Creators(p)) <= Cardinality(Workers)
    BY DEF IInv, CreatorsCounted
  <2> QED
    BY <2>3, <2>4, <2>5, <2>6, <2>7
<1>4. CASE w \notin Creators(p)
  <2>1. job[w].subject = p => job[w] = [kind |-> "pull", subject |-> p]
    BY <1>2, PostedComment DEF PullTask
  <2>2. job[w].subject # p \/ frame[w].existing # 0
    BY <1>4, <2>1 DEF Creators, PostComment
  <2>3. Len(comments'[p]) = Len(comments[p])
    BY <1>2, <2>2, PostedComment
  <2>4. Creators(p)' \subseteq Creators(p)
    BY <1>1
  <2> QED
    BY <2>3, <2>4, CreatorsFewer DEF IInv, Basic
<1> QED
  BY <1>3, <1>4

LEMMA CountedStep ==
    ASSUME IInv, Basic', [Next]_vars
    PROVE  CreatorsCounted'
<1>1. ASSUME comments' = comments, \A p \in Pulls : Creators(p)' \subseteq Creators(p)
      PROVE  CreatorsCounted'
  BY <1>1, CreatorsFewer DEF IInv, Basic, CreatorsCounted
<1>2. ASSUME NEW w \in Workers,
             \/ Begin(w) \/ FilesChanged(w) \/ ResolveConfig(w) \/ ResolveOwners(w)
             \/ ReadTerms(w) \/ CountEvents(w) \/ WriteEvent(w) \/ Raise(w)
      PROVE  CreatorsCounted'
  <2>1. comments' = comments
    BY <1>2 DEF Begin, FilesChanged, ResolveConfig, ResolveOwners, ReadTerms, CountEvents,
                WriteEvent, Raise, github
  <2>2. pc' \in [Workers -> Stages] /\ pc'[w] # "post"
    BY <1>2 DEF Begin, FilesChanged, ResolveConfig, ResolveOwners, ReadTerms, CountEvents,
                WriteEvent, Raise, FirstStage, IInv, Basic, TypeOK
  <2>3. \A v \in Workers \ {w} : pc'[v] = pc[v] /\ job'[v] = job[v] /\ frame'[v] = frame[v]
    BY <1>2 DEF Begin, FilesChanged, ResolveConfig, ResolveOwners, ReadTerms, CountEvents,
                WriteEvent, Raise, IInv, TypeOK
  <2>4. \A p \in Pulls : Creators(p)' \subseteq Creators(p)
    BY <2>2, <2>3 DEF Creators
  <2> QED
    BY <1>1, <2>1, <2>4
<1>3. ASSUME UNCHANGED <<comments, pc, job, frame>>
      PROVE  CreatorsCounted'
  BY <1>1, <1>3 DEF Creators
<1>4. CASE UNCHANGED vars
  BY <1>3, <1>4 DEF vars
<1>5. CASE Tick \/ (\E p \in Pulls : Trigger(p)) \/ (\E task \in Activity : QueueActivity(task))
  BY <1>3, <1>5 DEF Tick, Trigger, QueueActivity, github
<1> QED
  BY <1>2, <1>4, <1>5, CountedFindComment, CountedPostComment DEF Next, Step

LEMMA BotInit == Init => IInv
<1> SUFFICES ASSUME Init PROVE IInv
  OBVIOUS
<1>1. Basic
  BY BasicInit
<1>2. ASSUME NEW p \in Pulls PROVE Len(comments[p]) = 0
  BY DEF Init
<1>3. CreatorsCounted
  BY <1>2, CreatorsFinite DEF CreatorsCounted
<1> QED
  BY <1>1, <1>3 DEF IInv, Basic

LEMMA BotInvariance == Spec => []IInv
<1>1. IInv /\ [Next]_vars => IInv'
  BY BasicStep, CountedStep DEF IInv, Basic
<1> QED
  BY <1>1, BotInit, PTL DEF Spec

\* A pull request never has more marked comments than the worker has children:
\* whoever creates one saw none, and each child can be at that point once.
THEOREM CommentsAreBounded == Spec => []CommentsBounded
<1>1. IInv => CommentsBounded
  <2> SUFFICES ASSUME IInv, NEW p \in Pulls PROVE Len(comments[p]) <= Cardinality(Workers)
    BY DEF CommentsBounded
  <2>1. Len(comments[p]) \in Nat
    BY DEF IInv, TypeOK
  <2> QED
    BY <2>1, CreatorsFinite DEF IInv, CreatorsCounted
<1> QED
  BY <1>1, BotInvariance, PTL

\* With one child there is one comment per pull request, as the bot promises.
THEOREM OneCommentPerPull ==
    ASSUME Cardinality(Workers) = 1
    PROVE  Spec => []OneComment
<1>1. CommentsBounded => OneComment
  BY DEF CommentsBounded, OneComment
<1> QED
  BY <1>1, CommentsAreBounded, PTL

-------------------------------------------------------------------------------
\* An evaluation that nobody overwrites reads back the row that it wrote.

QuoteInv == IInv /\ TermsRight /\ QuotesOwnRepo

OwnRow(s, p) == [window_days |-> s.window_days, limit |-> s.limit] = OwnTerms(p)

\* What TermsRight says of child w and pull request p.
TermsRightOf(w, p) ==
    Working(w, p) =>
        /\ pc[w] \in {"owners", "terms", "count"} => Storable(OwnConfig(p))
        /\ p \notin overwritten =>
            /\ ReadsAgain(w) => window_and_limit(tenant_config[p.installation_id]) = OwnTerms(p)
            /\ pc[w] = "count" => frame[w].terms = OwnTerms(p)
            /\ \A s \in frame[w].shrinking : OwnRow(s, p)

\* A child that works on p evaluates it.
LEMMA WorkingEvaluates ==
    ASSUME Basic, NEW p \in Pulls, NEW w \in Workers, Working(w, p)
    PROVE  /\ job[w] \in PullTask /\ job[w].subject = p /\ job[w].kind = "pull"
           /\ pc[w] \in Evaluating \cup {"config"}
<1>1. job[w] = [kind |-> "pull", subject |-> p]
  BY DEF Working
<1>2. job[w] \in PullTask /\ job[w].subject = p /\ job[w].kind = "pull"
  BY <1>1 DEF PullTask
<1>3. job[w] \notin Activity
  BY <1>2, BotAssumption DEF ActivityTask
<1> QED
  BY <1>2, <1>3 DEF Basic, TypeOK, StagesRight, Stages, Evaluating, Working

\* The row a task writes is never taken for a missing one.
LEMMA WrittenTerms ==
    ASSUME NEW task \in PullTask \cup Activity, Storable(OwnConfig(task.subject))
    PROVE  /\ OwnConfig(task.subject) \in TenantConfig
           /\ window_and_limit(OwnConfig(task.subject)) = OwnTerms(task.subject)
<1>1. ConfigOf[task.subject.repo] \in ConfigFile
  BY TaskSubject, BotAssumption
<1>2. OwnConfig(task.subject) \in TenantConfig
  BY <1>1, StorableConfig DEF OwnConfig
<1>3. OwnConfig(task.subject) # NoConfig
  BY <1>2, BotAssumption
<1> QED
  BY <1>2, <1>3 DEF window_and_limit, OwnTerms

\* Nobody ceases to have been overwritten.
LEMMA OverwrittenGrows ==
    ASSUME NEW w \in Workers, Step(w) \/ Raise(w)
    PROVE  overwritten \subseteq overwritten'
  BY DEF Step, Begin, FilesChanged, ResolveConfig, ResolveOwners, ReadTerms, CountEvents,
         FindComment, PostComment, WriteEvent, Raise, history

\* An upsert of another child leaves the window and the limit of an evaluation that
\* has still to read them, or it overwrites the evaluation.
LEMMA RowKept ==
    ASSUME Basic, NEW u \in Workers, NEW w \in Workers, u # w, NEW p \in Pulls,
           Working(w, p), ReadsAgain(w), ResolveConfig(u), p \notin Overwrites(u)
    PROVE  \/ tenant_config'[p.installation_id] = tenant_config[p.installation_id]
           \/ window_and_limit(tenant_config'[p.installation_id]) = OwnTerms(p)
<1> DEFINE i == job[u].subject.installation_id
<1>1. job[u] \in PullTask \cup Activity
  BY DEF Basic, TypeOK, StagesRight, ResolveConfig
<1>2. Storable(OwnConfig(job[u].subject))
  BY DEF ResolveConfig
<1>3. tenant_config' = [tenant_config EXCEPT ![i] = OwnConfig(job[u].subject)]
  BY DEF ResolveConfig
<1>4. tenant_config \in [Installations -> TenantConfig \cup {NoConfig}]
      /\ p.installation_id \in Installations
  BY BotAssumption DEF Basic, TypeOK
<1>5. CASE p.installation_id # i
  BY <1>3, <1>4, <1>5
<1>6. CASE p.installation_id = i
  <2>1. OwnTerms(p) = OwnTerms(job[u].subject)
    BY <1>6 DEF Overwrites
  <2>2. tenant_config'[p.installation_id] = OwnConfig(job[u].subject)
    BY <1>3, <1>4, <1>6
  <2> QED
    BY <1>1, <1>2, <2>1, <2>2, WrittenTerms
<1> QED
  BY <1>5, <1>6

\* A step of the child itself.
LEMMA TermsRightStep ==
    ASSUME IInv, NEW w \in Workers, NEW p \in Pulls, TermsRightOf(w, p), Step(w) \/ Raise(w)
    PROVE  TermsRightOf(w, p)'
<1> SUFFICES ASSUME Working(w, p)' PROVE TermsRightOf(w, p)'
  BY DEF TermsRightOf
<1>1. Basic
  BY DEF IInv, Basic
<1>2. overwritten \subseteq overwritten'
  BY OverwrittenGrows
<1>3. CASE Begin(w)
  <2>1. frame'[w].shrinking = {}
    BY <1>3 DEF Begin, EmptyFrame, IInv, TypeOK
  <2>2. pc'[w] \notin {"owners", "terms", "count"}
    BY <1>3 DEF Begin, FirstStage, IInv, TypeOK
  <2> QED
    BY <2>1, <2>2 DEF TermsRightOf, ReadsAgain
<1>4. CASE ~Begin(w)
  <2>1. pc[w] # "idle" /\ pc'[w] # "idle" /\ job' = job
    BY <1>4 DEF Working, Step, FilesChanged, ResolveConfig, ResolveOwners, ReadTerms,
                CountEvents, FindComment, PostComment, WriteEvent, Raise
  <2>2. Working(w, p)
    BY <2>1 DEF Working
  <2>3. job[w] \in PullTask /\ job[w].subject = p /\ job[w].kind = "pull" /\ frame[w] \in Frame
    BY <1>1, <2>2, WorkingEvaluates DEF Basic, TypeOK
  <2>4. CASE FilesChanged(w)
    <3>1. frame'[w].shrinking = frame[w].shrinking /\ pc'[w] = "config"
      BY <2>3, <2>4 DEF FilesChanged, IInv, TypeOK, Frame
    <3> QED
      BY <1>2, <2>2, <3>1 DEF TermsRightOf, ReadsAgain, OwnRow, OwnTerms, OwnConfig
  <2>5. CASE ResolveConfig(w)
    <3>1. frame'[w].shrinking = frame[w].shrinking /\ pc'[w] = "owners"
      BY <2>3, <2>5 DEF ResolveConfig, IInv, TypeOK, Frame
    <3>2. Storable(OwnConfig(p)) /\ tenant_config'[p.installation_id] = OwnConfig(p)
      BY <2>3, <2>5, TaskSubject DEF ResolveConfig, IInv, TypeOK
    <3>3. window_and_limit(tenant_config'[p.installation_id]) = OwnTerms(p)
      BY <2>3, <3>2, WrittenTerms
    <3> QED
      BY <1>2, <2>2, <3>1, <3>2, <3>3 DEF TermsRightOf, ReadsAgain, OwnRow, OwnTerms, OwnConfig
  <2>6. CASE ResolveOwners(w)
    <3>1. /\ frame'[w].shrinking = frame[w].shrinking /\ pc[w] = "owners" /\ pc'[w] = "terms"
          /\ tenant_config' = tenant_config
      BY <2>3, <2>6 DEF ResolveOwners, IInv, TypeOK, Frame
    <3> QED
      BY <1>2, <2>2, <3>1 DEF TermsRightOf, ReadsAgain, OwnRow, OwnTerms, OwnConfig
  <2>7. CASE ReadTerms(w)
    <3>1. /\ frame'[w].shrinking = frame[w].shrinking
          /\ frame'[w].terms = window_and_limit(tenant_config[p.installation_id])
          /\ pc[w] = "terms" /\ pc'[w] = "count" /\ tenant_config' = tenant_config
      BY <2>3, <2>7 DEF ReadTerms, IInv, TypeOK, Frame
    <3> QED
      BY <1>2, <2>2, <3>1 DEF TermsRightOf, ReadsAgain, OwnRow, OwnTerms, OwnConfig
  <2>8. CASE CountEvents(w)
    <3> DEFINE consumed == count_since(events, job[w].subject.installation_id, frame[w].owner,
                                       COUNTED_EVENT_TYPES, now - frame[w].terms.window_days)
               status == status_for(frame[w].owner, frame[w].terms, consumed)
    <3>1. frame'[w].shrinking \subseteq frame[w].shrinking \cup {status}
      BY <2>3, <2>8 DEF CountEvents, IInv, TypeOK, Frame
    <3>2. frame[w].terms = OwnTerms(p) => OwnRow(status, p)
      BY DEF status_for, OwnRow, OwnTerms
    <3>3. /\ pc[w] = "count" /\ tenant_config' = tenant_config
          /\ pc'[w] = IF frame[w].owners = {} THEN "find" ELSE "terms"
      BY <2>8 DEF CountEvents, IInv, TypeOK
    <3> HIDE DEF status
    <3> QED
      BY <1>2, <2>2, <3>1, <3>2, <3>3
         DEF TermsRightOf, ReadsAgain, OwnRow, OwnTerms, OwnConfig
  <2>9. CASE FindComment(w)
    <3>1. frame'[w].shrinking = frame[w].shrinking /\ pc'[w] = "post"
      BY <2>1, <2>3, <2>9 DEF FindComment, IInv, TypeOK, Frame
    <3> QED
      BY <1>2, <2>2, <3>1 DEF TermsRightOf, ReadsAgain, OwnRow, OwnTerms, OwnConfig
  <2>10. ~PostComment(w) /\ ~WriteEvent(w) /\ ~Raise(w)
    BY <2>1 DEF PostComment, WriteEvent, Raise, IInv, TypeOK
  <2> QED
    BY <1>4, <2>4, <2>5, <2>6, <2>7, <2>8, <2>9, <2>10 DEF Step
<1> QED
  BY <1>3, <1>4

\* A step of another child.
LEMMA TermsRightOthers ==
    ASSUME IInv, NEW u \in Workers, NEW w \in Workers, u # w, NEW p \in Pulls,
           TermsRightOf(w, p), Step(u) \/ Raise(u)
    PROVE  TermsRightOf(w, p)'
<1>1. Basic
  BY DEF IInv, Basic
<1>2. overwritten \subseteq overwritten'
  BY OverwrittenGrows
<1>3. pc'[w] = pc[w] /\ job'[w] = job[w] /\ frame'[w] = frame[w]
  BY DEF Step, Begin, FilesChanged, ResolveConfig, ResolveOwners, ReadTerms, CountEvents,
         FindComment, PostComment, WriteEvent, Raise, IInv, TypeOK
<1>4. (Working(w, p)' <=> Working(w, p)) /\ (ReadsAgain(w)' <=> ReadsAgain(w))
  BY <1>3 DEF Working, ReadsAgain
<1>5. ASSUME Working(w, p), ReadsAgain(w), p \notin overwritten'
      PROVE  window_and_limit(tenant_config'[p.installation_id]) = OwnTerms(p)
  <2>1. window_and_limit(tenant_config[p.installation_id]) = OwnTerms(p)
    BY <1>2, <1>5 DEF TermsRightOf
  <2>2. CASE ResolveConfig(u)
    <3>1. p \notin Overwrites(u)
      BY <1>5, <2>2 DEF ResolveConfig
    <3> QED
      BY <1>1, <1>5, <2>1, <2>2, <3>1, RowKept
  <2>3. CASE ~ResolveConfig(u)
    <3>1. tenant_config' = tenant_config
      BY <2>3 DEF Step, Begin, FilesChanged, ResolveOwners, ReadTerms, CountEvents,
                  FindComment, PostComment, WriteEvent, Raise
    <3> QED
      BY <2>1, <3>1
  <2> QED
    BY <2>2, <2>3
<1> QED
  BY <1>2, <1>3, <1>4, <1>5 DEF TermsRightOf, OwnRow, OwnTerms, OwnConfig

LEMMA QuotesStep ==
    ASSUME IInv, QuotesOwnRepo, NEW w \in Workers, PostComment(w),
           \A p \in Pulls : TermsRightOf(w, p)
    PROVE  QuotesOwnRepo'
<1> SUFFICES ASSUME NEW p \in Pulls \ overwritten, NEW i \in DOMAIN comments'[p],
                    comments'[p][i].kind = "shrinking"
             PROVE  \A s \in comments'[p][i].rows : OwnRow(s, p)
  BY DEF QuotesOwnRepo, OwnRow, OwnTerms, OwnConfig, PostComment, history
<1>1. Basic
  BY DEF IInv, Basic
<1>2. comments[p] \in Seq(Body)
  BY DEF IInv, TypeOK
<1>3. ASSUME i \in DOMAIN comments[p], comments'[p][i] = comments[p][i]
      PROVE  \A s \in comments'[p][i].rows : OwnRow(s, p)
  BY <1>3 DEF QuotesOwnRepo, OwnRow, OwnTerms
<1>4. ASSUME p = job[w].subject, comments'[p][i] = BodyFor(frame[w].shrinking)
      PROVE  \A s \in comments'[p][i].rows : OwnRow(s, p)
  <2>1. comments'[p][i].rows = frame[w].shrinking
    BY <1>4 DEF BodyFor
  <2>2. Working(w, p)
    BY <1>1, <1>4, PostedComment DEF Working, PostComment, PullTask
  <2> QED
    BY <2>1, <2>2 DEF TermsRightOf
<1>5. CASE p # job[w].subject
  BY <1>1, <1>3, <1>5, PostedComment
<1>6. CASE p = job[w].subject /\ frame[w].existing = 0
  <2>1. comments'[p] = Append(comments[p], BodyFor(frame[w].shrinking))
    BY <1>1, <1>6, PostedComment
  <2>2. i \in 1..(Len(comments[p]) + 1)
    BY <1>2, <2>1
  <2>3. CASE i = Len(comments[p]) + 1
    BY <1>2, <1>4, <1>6, <2>1, <2>3
  <2>4. CASE i # Len(comments[p]) + 1
    BY <1>2, <1>3, <2>1, <2>2, <2>4
  <2> QED
    BY <2>3, <2>4
<1>7. CASE p = job[w].subject /\ frame[w].existing # 0
  <2>1. comments'[p] = [comments[p] EXCEPT ![frame[w].existing] = BodyFor(frame[w].shrinking)]
    BY <1>1, <1>7, PostedComment
  <2>2. CASE i = frame[w].existing
    BY <1>4, <1>7, <2>1, <2>2
  <2>3. CASE i # frame[w].existing
    BY <1>3, <2>1, <2>3
  <2> QED
    BY <2>2, <2>3
<1> QED
  BY <1>5, <1>6, <1>7

LEMMA QuoteInvStep ==
    ASSUME QuoteInv, [Next]_vars
    PROVE  QuoteInv'
<1>1. IInv /\ IInv'
  BY BasicStep, CountedStep DEF QuoteInv, IInv, Basic
<1>2. \A w \in Workers, p \in Pulls : TermsRightOf(w, p)
  BY DEF QuoteInv, TermsRight, TermsRightOf, OwnRow
<1>3. ASSUME NEW u \in Workers, Step(u) \/ Raise(u)
      PROVE  TermsRight' /\ QuotesOwnRepo'
  <2>1. \A w \in Workers, p \in Pulls : TermsRightOf(w, p)'
    BY <1>1, <1>2, <1>3, TermsRightStep, TermsRightOthers
  <2>2. TermsRight'
    BY <2>1 DEF TermsRight, TermsRightOf, OwnRow
  <2>3. CASE PostComment(u)
    BY <1>1, <1>2, <2>2, <2>3, QuotesStep DEF QuoteInv
  <2>4. CASE comments' = comments
    BY <1>3, <2>2, <2>4, OverwrittenGrows DEF QuoteInv, QuotesOwnRepo, OwnTerms, OwnConfig
  <2> QED
    BY <1>3, <2>3, <2>4 DEF Step, Begin, FilesChanged, ResolveConfig, ResolveOwners, ReadTerms,
                            CountEvents, FindComment, WriteEvent, Raise, github
<1>4. ASSUME UNCHANGED <<tenant_config, comments, pc, job, frame, overwritten>>
      PROVE  TermsRight' /\ QuotesOwnRepo'
  BY <1>4 DEF QuoteInv, TermsRight, QuotesOwnRepo, Working, ReadsAgain, OwnTerms, OwnConfig
<1>5. CASE UNCHANGED vars
  BY <1>1, <1>4, <1>5 DEF vars, history, QuoteInv
<1>6. CASE Tick \/ (\E p \in Pulls : Trigger(p)) \/ (\E task \in Activity : QueueActivity(task))
  BY <1>1, <1>4, <1>6 DEF Tick, Trigger, QueueActivity, github, history, QuoteInv
<1>7. CASE \E w \in Workers : Step(w) \/ Raise(w)
  BY <1>1, <1>3, <1>7 DEF QuoteInv
<1> QED
  BY <1>5, <1>6, <1>7 DEF Next

LEMMA QuoteInvInit == Init => QuoteInv
<1>1. Init => TermsRight /\ QuotesOwnRepo
  BY DEF Init, TermsRight, QuotesOwnRepo, Working
<1> QED
  BY <1>1, BotInit DEF QuoteInv

\* However many children work for however many repositories, a comment quotes the
\* window and the limit of its own one, unless another repository's were put into the
\* row between the upsert of one of its evaluations and the last look at the row.
THEOREM QuotesAreOwn == Spec => []QuotesOwnRepo
<1>1. QuoteInv /\ [Next]_vars => QuoteInv'
  BY QuoteInvStep
<1>2. QuoteInv => QuotesOwnRepo
  BY DEF QuoteInv
<1> QED
  BY <1>1, <1>2, QuoteInvInit, PTL DEF Spec

-------------------------------------------------------------------------------
\* An evaluation that has its pull request to itself leaves the comment up to date.

FreshInv == QuoteInv /\ EvaluationsFresh

\* The owners the task resolves for a pull request are its teams, when it has the
\* files and the default team at hand.
LEMMA OwnersAreTeams ==
    ASSUME NEW p \in Pulls
    PROVE  resolve_owners(files[p], [f \in files[p] |-> CodeownersOf[p.repo]],
                          OwnConfig(p).default_team) = TeamsOf(p)
<1> DEFINE read == [f \in files[p] |-> CodeownersOf[p.repo]]
<1>1. {n \in Names : \E f \in files[p] : <<"TEAM", n>> \in read[f][f]}
      = {n \in Names : \E f \in files[p] : <<"TEAM", n>> \in CodeownersOf[p.repo][f]}
  OBVIOUS
<1> QED
  BY <1>1 DEF resolve_owners, TeamsOf

\* What is counted in a repository's own window is what its pull requests consumed.
LEMMA CountIsConsumed ==
    ASSUME TypeOK, NEW p \in Pulls, NEW team, OwnConfig(p) \in TenantConfig
    PROVE  /\ count_since(events, p.installation_id, team, COUNTED_EVENT_TYPES,
                          now - OwnConfig(p).rolling_window_days) = Consumed(p, team)
           /\ Consumed(p, team) \in Nat
<1> DEFINE days == OwnConfig(p).rolling_window_days
<1>1. days \in Int /\ now \in Int
  BY DEF TenantConfig, TypeOK
<1> HIDE DEF days
<1>2. ASSUME NEW r \in events
      PROVE  /\ r.event_type \in COUNTED_EVENT_TYPES <=> r.event_type # "flaky_test"
             /\ r.ts >= now - days <=> r.ts + days >= now
  <2>1. r.event_type \in ActivityEventType /\ r.ts \in Int
    BY DEF TypeOK, Row, ActivityEvent
  <2>2. r.ts >= now - days <=> r.ts + days >= now
    BY <1>1, <2>1
  <2> QED
    BY <2>1, <2>2 DEF ActivityEventType, COUNTED_EVENT_TYPES
<1>3. {r \in events : /\ r.installation_id = p.installation_id
                      /\ r.owner = team
                      /\ r.event_type \in COUNTED_EVENT_TYPES
                      /\ r.ts >= now - days}
      = {r \in events : Counted(r, p, team)}
  BY <1>2 DEF Counted, days
<1>4. Consumed(p, team) = count_since(events, p.installation_id, team, COUNTED_EVENT_TYPES,
                                      now - days)
  BY <1>3 DEF Consumed, count_since
<1>5. events \in SUBSET Row /\ IsFiniteSet(events)
  BY DEF TypeOK
<1>6. Consumed(p, team) \in Nat
  BY <1>4, <1>5, CountType
<1> QED
  BY <1>4, <1>6 DEF days

\* A status is at the threshold if and only if the team is short.
LEMMA ThresholdIsShort ==
    ASSUME NEW p \in Pulls, NEW team, OwnConfig(p) \in TenantConfig,
           Consumed(p, team) \in Nat
    PROVE  remaining_at_most(OwnStatus(p, team), OwnConfig(p).warn_threshold_pct)
           <=> Shrinks(p, team)
<1> DEFINE limit == OwnConfig(p).max_events_per_window
           pct == OwnConfig(p).warn_threshold_pct
           consumed == Consumed(p, team)
<1>1. limit \in Int /\ pct \in Int /\ consumed \in Int /\ consumed >= 0
  BY DEF TenantConfig
<1>2. OwnStatus(p, team).limit = limit /\ OwnStatus(p, team).consumed = consumed
  BY DEF OwnStatus
<1>3. remaining_at_most(OwnStatus(p, team), pct)
      <=> IF limit <= 0 \/ consumed >= limit THEN 0 <= pct
          ELSE (limit - consumed) * 100 <= pct * limit
  BY <1>2 DEF remaining_at_most
<1>4. Shrinks(p, team)
      <=> \/ consumed >= limit /\ 0 <= pct
          \/ consumed < limit /\ (limit - consumed) * 100 <= pct * limit
  BY DEF Shrinks
<1> HIDE DEF limit, pct, consumed
<1> DEFINE scaled == (limit - consumed) * 100 <= pct * limit
<1>5. limit <= 0 => consumed >= limit
  BY <1>1
<1>6. consumed < limit <=> ~(consumed >= limit)
  BY <1>1
<1> HIDE DEF scaled
<1>7. remaining_at_most(OwnStatus(p, team), pct)
      <=> IF consumed >= limit THEN 0 <= pct ELSE scaled
  BY <1>3, <1>5 DEF scaled
<1>8. Shrinks(p, team)
      <=> \/ consumed >= limit /\ 0 <= pct
          \/ ~(consumed >= limit) /\ scaled
  BY <1>4, <1>6 DEF scaled
<1>9. remaining_at_most(OwnStatus(p, team), pct) <=> Shrinks(p, team)
  BY <1>7, <1>8
<1> QED
  BY <1>9 DEF pct

\* A body made of the statuses that are short tells the pull request.
LEMMA BodyTells ==
    ASSUME TypeOK, NEW p \in Pulls, Short(p, TeamsOf(p)) \in SUBSET BudgetStatus
    PROVE  LET body == BodyFor(Short(p, TeamsOf(p)))
           IN  IF Tight(p) THEN Tells(body, p) ELSE body.kind = "recovered"
<1> DEFINE rows == Short(p, TeamsOf(p))
           body == BodyFor(rows)
<1>1. Tight(p) <=> rows # {}
  BY DEF Tight, Short
<1>2. rows \in SUBSET BudgetStatus
  OBVIOUS
<1> HIDE DEF rows
<1>3. CASE rows = {}
  BY <1>1, <1>3 DEF BodyFor, rows
<1>4. CASE rows # {}
  <2>1. body = [kind |-> "shrinking", headline |-> worst_severity(rows), rows |-> rows]
    BY <1>4 DEF BodyFor
  <2>2. ASSUME NEW s \in rows PROVE severity_for(s) = "breach" <=> s.consumed >= s.limit
    <3>1. s.limit \in Int /\ s.consumed \in Nat
      BY <1>2 DEF BudgetStatus
    <3>2. remaining_at_most(s, 0) <=> s.consumed >= s.limit
      BY <3>1 DEF remaining_at_most
    <3> QED
      BY <3>2 DEF severity_for
  <2>3. body.headline = "breach" <=> \E s \in rows : s.consumed >= s.limit
    BY <2>1, <2>2 DEF worst_severity
  <2>4. body.kind = "shrinking" /\ body.rows = rows
    BY <2>1
  <2>5. Tells(body, p)
    BY <2>3, <2>4 DEF Tells, rows
  <2> QED
    BY <1>1, <1>4, <2>5 DEF rows
<1> QED
  BY <1>3, <1>4

\* What a pull request should be told depends on its files, the table and the clock.
LEMMA SameCircumstances ==
    ASSUME NEW p \in Pulls, files'[p] = files[p], events' = events, now' = now
    PROVE  /\ TeamsOf(p)' = TeamsOf(p)
           /\ Tight(p)' = Tight(p)
           /\ \A teams : Short(p, teams)' = Short(p, teams)
           /\ comments'[p] = comments[p] => Told(p)' = Told(p)
<1>1. TeamsOf(p)' = TeamsOf(p)
  BY DEF TeamsOf, OwnConfig
<1>2. \A team : Consumed(p, team)' = Consumed(p, team)
  BY DEF Consumed, Counted, OwnConfig
<1>3. \A team : Shrinks(p, team)' = Shrinks(p, team)
  BY <1>2 DEF Shrinks, OwnConfig
<1>4. \A team : OwnStatus(p, team)' = OwnStatus(p, team)
  BY <1>2 DEF OwnStatus, OwnConfig
<1>5. \A teams : Short(p, teams)' = Short(p, teams)
  BY <1>3, <1>4 DEF Short
<1>6. Tight(p)' = Tight(p)
  BY <1>1, <1>3 DEF Tight
<1>7. ASSUME comments'[p] = comments[p] PROVE Told(p)' = Told(p)
  <2>1. Tells(comments[p][1], p)' = Tells(comments[p][1], p)
    BY <1>1, <1>5, <1>7 DEF Tells
  <2> QED
    BY <1>6, <1>7, <2>1 DEF Told
<1> QED
  BY <1>1, <1>5, <1>6, <1>7

-------------------------------------------------------------------------------
\* The steps of an evaluation.

\* What EvaluationsFresh says of pull request p.
SaidOf(p) ==
    /\ \A v, w \in Workers : Working(v, p) /\ Working(w, p) => v = w
    /\ \A w \in Workers : Working(w, p) => ReadingFresh(w, p)
    /\ (\A w \in Workers : ~Working(w, p)) => Told(p)

\* What is left of the row for an evaluation that has still to read it.
RowIsOwn(p) ==
    \/ tenant_config'[p.installation_id] = tenant_config[p.installation_id]
    \/ window_and_limit(tenant_config'[p.installation_id]) = OwnTerms(p)

\* A step that starts no evaluation, and changes nothing that an evaluation of p has
\* read or is to read, nor its comments, keeps what is said of p.
LEMMA SaidUntouched ==
    ASSUME NEW p \in Pulls, SaidOf(p),
           files'[p] = files[p], events' = events, now' = now, comments'[p] = comments[p],
           \A w \in Workers : Working(w, p)' <=> Working(w, p),
           \A w \in Workers : Working(w, p) => pc'[w] = pc[w] /\ frame'[w] = frame[w],
           \A w \in Workers : Working(w, p) /\ ReadsAgain(w) => RowIsOwn(p)
    PROVE  SaidOf(p)'
<1>1. /\ TeamsOf(p)' = TeamsOf(p)
      /\ \A teams : Short(p, teams)' = Short(p, teams)
      /\ Told(p)' = Told(p)
  BY SameCircumstances
<1>2. ASSUME NEW w \in Workers, Working(w, p)'
      PROVE  ReadingFresh(w, p)'
  <2>1. /\ ReadingFresh(w, p)
        /\ pc'[w] = pc[w]
        /\ frame'[w] = frame[w]
    BY <1>2 DEF SaidOf
  <2>2. Left(w)' = Left(w) /\ (ReadsAgain(w)' <=> ReadsAgain(w))
    BY <2>1 DEF Left, ReadsAgain
  <2>3. ASSUME ReadsAgain(w)
        PROVE  window_and_limit(tenant_config'[p.installation_id]) = OwnTerms(p)
    <3>1. window_and_limit(tenant_config[p.installation_id]) = OwnTerms(p)
      BY <2>1, <2>3 DEF ReadingFresh
    <3> QED
      BY <1>2, <2>3, <3>1 DEF RowIsOwn
  <2> QED
    BY <1>1, <2>1, <2>2, <2>3 DEF ReadingFresh, OwnConfig, OwnTerms
<1> QED
  BY <1>1, <1>2 DEF SaidOf

\* An evaluation of p that begins while there is no other has read nothing yet; any
\* other task is none of p's.
LEMMA SaidBegin ==
    ASSUME Basic, NEW w \in Workers, Begin(w), NEW p \in Pulls, steady'[p],
           steady[p] => SaidOf(p)
    PROVE  SaidOf(p)'
<1> DEFINE task == [kind |-> "pull", subject |-> p]
<1>1. /\ pc'[w] = FirstStage(Head(queue))
      /\ job'[w] = Head(queue)
      /\ frame'[w] = EmptyFrame
      /\ pc[w] = "idle"
  BY DEF Begin, Basic, TypeOK
<1>2. \A v \in Workers \ {w} : pc'[v] = pc[v] /\ job'[v] = job[v] /\ frame'[v] = frame[v]
  BY DEF Begin, Basic, TypeOK
<1>3. \A v \in Workers \ {w} : Working(v, p)' <=> Working(v, p)
  BY <1>2 DEF Working
<1>4. CASE Head(queue) = task
  <2>1. pc'[w] = "files"
    BY <1>1, <1>4 DEF FirstStage
  <2>2. ReadingFresh(w, p)'
    BY <1>1, <2>1 DEF ReadingFresh, ReadsAgain, EmptyFrame
  <2>3. Working(w, p)'
    BY <1>1, <1>4, <2>1 DEF Working
  <2>4. \A v \in Workers : ~Working(v, p)
    BY <1>4 DEF Begin, Basic, TypeOK
  <2> QED
    BY <1>3, <2>2, <2>3, <2>4 DEF SaidOf
<1>5. CASE Head(queue) # task
  <2>1. steady[p]
    BY <1>5 DEF Begin
  <2>2. ~Working(w, p) /\ ~Working(w, p)'
    BY <1>1, <1>5 DEF Working
  <2>3. /\ files' = files /\ events' = events /\ now' = now /\ comments' = comments
        /\ tenant_config' = tenant_config
    BY DEF Begin, github
  <2>4. SaidOf(p)
    BY <2>1
  <2>5. RowIsOwn(p)
    BY <2>3 DEF RowIsOwn
  <2> QED
    BY <1>2, <1>3, <2>2, <2>3, <2>4, <2>5, SaidUntouched
<1> QED
  BY <1>4, <1>5

\* The steps that only read: the child works on p before and after.
LEMMA SaidReading ==
    ASSUME QuoteInv, NEW w \in Workers, NEW p \in Pulls,
           Working(w, p), ReadingFresh(w, p),
           FilesChanged(w) \/ ResolveConfig(w) \/ ResolveOwners(w) \/ ReadTerms(w)
    PROVE  Working(w, p)' /\ ReadingFresh(w, p)'
<1>1. Basic /\ TermsRightOf(w, p)
  BY DEF QuoteInv, IInv, Basic, TermsRight, TermsRightOf, OwnRow
<1>2. job[w] \in PullTask /\ job[w].subject = p /\ job[w].kind = "pull" /\ frame[w] \in Frame
  BY <1>1, WorkingEvaluates DEF Basic, TypeOK
<1>3. /\ files' = files /\ events' = events /\ now' = now
      /\ comments' = comments /\ job' = job
  BY DEF FilesChanged, ResolveConfig, ResolveOwners, ReadTerms, github
<1>4. TeamsOf(p)' = TeamsOf(p) /\ \A teams : Short(p, teams)' = Short(p, teams)
  BY <1>3, SameCircumstances
<1>5. CASE FilesChanged(w)
  <2>1. /\ pc[w] = "files" /\ pc'[w] = "config"
        /\ frame'[w] = [frame[w] EXCEPT !.changed_files = files[p]]
    BY <1>1, <1>2, <1>5 DEF FilesChanged, Basic, TypeOK
  <2>2. frame'[w].changed_files = files[p] /\ frame'[w].shrinking = frame[w].shrinking
    BY <1>2, <2>1 DEF Frame
  <2> QED
    BY <1>3, <2>1, <2>2 DEF ReadingFresh, ReadsAgain, Working
<1>6. CASE ResolveConfig(w)
  <2>1. /\ pc[w] = "config" /\ pc'[w] = "owners"
        /\ frame'[w] = [frame[w] EXCEPT !.default_team = OwnConfig(p).default_team,
                                        !.warn_threshold_pct = OwnConfig(p).warn_threshold_pct]
    BY <1>1, <1>2, <1>6 DEF ResolveConfig, Basic, TypeOK
  <2>2. /\ frame'[w].changed_files = frame[w].changed_files
        /\ frame'[w].shrinking = frame[w].shrinking
        /\ frame'[w].default_team = OwnConfig(p).default_team
        /\ frame'[w].warn_threshold_pct = OwnConfig(p).warn_threshold_pct
    BY <1>2, <2>1 DEF Frame
  <2>3. tenant_config'[p.installation_id] = OwnConfig(p) /\ Storable(OwnConfig(p))
    BY <1>1, <1>2, <1>6, TaskSubject DEF ResolveConfig, Basic, TypeOK
  <2>4. window_and_limit(tenant_config'[p.installation_id]) = OwnTerms(p)
    BY <1>2, <2>3, WrittenTerms
  <2> QED
    BY <1>3, <2>1, <2>2, <2>4 DEF ReadingFresh, Working, OwnConfig, OwnTerms
<1>7. CASE ResolveOwners(w)
  <2>1. /\ pc[w] = "owners" /\ pc'[w] = "terms"
        /\ frame[w].changed_files = files[p]
        /\ frame[w].default_team = OwnConfig(p).default_team
        /\ frame[w].shrinking = {}
        /\ tenant_config' = tenant_config
        /\ window_and_limit(tenant_config[p.installation_id]) = OwnTerms(p)
    BY <1>1, <1>7 DEF ResolveOwners, Basic, TypeOK, ReadingFresh, ReadsAgain
  <2>2. frame'[w] = [frame[w] EXCEPT !.owners = TeamsOf(p)]
    BY <1>1, <1>2, <1>7, <2>1, OwnersAreTeams DEF ResolveOwners, Basic, TypeOK
  <2>3. /\ frame'[w].owners = TeamsOf(p) /\ frame'[w].shrinking = {}
        /\ frame'[w].changed_files = files[p]
        /\ frame'[w].default_team = frame[w].default_team
        /\ frame'[w].warn_threshold_pct = frame[w].warn_threshold_pct
    BY <1>2, <2>1, <2>2 DEF Frame
  <2>4. Left(w)' = TeamsOf(p)
    BY <2>1, <2>3 DEF Left
  <2>5. Short(p, {}) = {}
    BY DEF Short
  <2>6. frame'[w].shrinking = Short(p, TeamsOf(p) \ TeamsOf(p))
    BY <2>3, <2>5
  <2> QED
    BY <1>3, <1>4, <2>1, <2>3, <2>4, <2>6 DEF ReadingFresh, Working, OwnConfig, OwnTerms
<1>8. CASE ReadTerms(w)
  <2>1. PICK owner \in frame[w].owners :
            frame'[w] = [frame[w] EXCEPT
                !.owner = owner,
                !.owners = frame[w].owners \ {owner},
                !.terms = window_and_limit(tenant_config[job[w].subject.installation_id])]
    BY <1>1, <1>8 DEF ReadTerms, Basic, TypeOK
  <2>2. pc[w] = "terms" /\ pc'[w] = "count" /\ tenant_config' = tenant_config
    BY <1>1, <1>8 DEF ReadTerms, Basic, TypeOK
  <2>3. /\ frame'[w].owner = owner /\ frame'[w].owners = frame[w].owners \ {owner}
        /\ frame'[w].shrinking = frame[w].shrinking
        /\ frame'[w].changed_files = frame[w].changed_files
        /\ frame'[w].default_team = frame[w].default_team
        /\ frame'[w].warn_threshold_pct = frame[w].warn_threshold_pct
        /\ frame'[w].terms = window_and_limit(tenant_config[p.installation_id])
    BY <1>2, <2>1 DEF Frame
  <2>4. window_and_limit(tenant_config[p.installation_id]) = OwnTerms(p)
    BY <2>2 DEF ReadingFresh, ReadsAgain
  <2>5. Left(w) = frame[w].owners /\ Left(w)' = frame[w].owners
    BY <2>2, <2>3 DEF Left
  <2> QED
    BY <1>3, <1>4, <2>2, <2>3, <2>4, <2>5 DEF ReadingFresh, Working, OwnConfig, OwnTerms
<1> QED
  BY <1>5, <1>6, <1>7, <1>8

\* The count of an owner adds its status if and only if the owner is short.
LEMMA SaidCount ==
    ASSUME QuoteInv, NEW w \in Workers, NEW p \in Pulls,
           Working(w, p), ReadingFresh(w, p), CountEvents(w)
    PROVE  Working(w, p)' /\ ReadingFresh(w, p)'
<1>1. Basic /\ TermsRightOf(w, p)
  BY DEF QuoteInv, IInv, Basic, TermsRight, TermsRightOf, OwnRow
<1>2. job[w] \in PullTask /\ job[w].subject = p /\ frame[w] \in Frame
  BY <1>1, WorkingEvaluates DEF Basic, TypeOK
<1>3. /\ files' = files /\ events' = events /\ now' = now
      /\ comments' = comments /\ job' = job
  BY DEF CountEvents, github
<1>4. TeamsOf(p)' = TeamsOf(p) /\ \A teams : Short(p, teams)' = Short(p, teams)
  BY <1>3, SameCircumstances
<1> DEFINE owner == frame[w].owner
           rest == frame[w].owners
           before == TeamsOf(p) \ (rest \cup {owner})
<1>5. /\ pc[w] = "count"
      /\ pc'[w] = IF rest = {} THEN "find" ELSE "terms"
      /\ frame[w].terms = OwnTerms(p)
      /\ Storable(OwnConfig(p))
      /\ tenant_config' = tenant_config
  BY <1>1, <1>2 DEF CountEvents, Basic, TypeOK, TermsRightOf, ReadingFresh
<1>6. OwnConfig(p) \in TenantConfig
  <2>1. ConfigOf[p.repo] \in ConfigFile
    BY BotAssumption
  <2> QED
    BY <1>5, <2>1, StorableConfig DEF OwnConfig
<1>7. /\ count_since(events, p.installation_id, owner, COUNTED_EVENT_TYPES,
                     now - OwnConfig(p).rolling_window_days) = Consumed(p, owner)
      /\ Consumed(p, owner) \in Nat
  BY <1>1, <1>6, CountIsConsumed DEF Basic
<1>8. frame[w].terms.window_days = OwnConfig(p).rolling_window_days
  BY <1>5 DEF OwnTerms
<1>9. status_for(owner, frame[w].terms, Consumed(p, owner)) = OwnStatus(p, owner)
  BY <1>5 DEF status_for, OwnStatus, OwnTerms
<1>10. frame[w].warn_threshold_pct = OwnConfig(p).warn_threshold_pct
  BY <1>5 DEF ReadingFresh
<1>11. remaining_at_most(OwnStatus(p, owner), OwnConfig(p).warn_threshold_pct)
       <=> Shrinks(p, owner)
  BY <1>6, <1>7, ThresholdIsShort
<1> DEFINE shrinking == IF Shrinks(p, owner) THEN frame[w].shrinking \cup {OwnStatus(p, owner)}
                        ELSE frame[w].shrinking
<1>12. frame'[w] = [frame[w] EXCEPT !.shrinking = shrinking]
  <2> DEFINE consumed == count_since(events, job[w].subject.installation_id, frame[w].owner,
                                     COUNTED_EVENT_TYPES, now - frame[w].terms.window_days)
             status == status_for(frame[w].owner, frame[w].terms, consumed)
             counted == IF remaining_at_most(status, frame[w].warn_threshold_pct)
                        THEN frame[w].shrinking \cup {status} ELSE frame[w].shrinking
  <2>1. consumed = Consumed(p, owner)
    BY <1>2, <1>7, <1>8
  <2>2. status = OwnStatus(p, owner)
    BY <1>9, <2>1
  <2>3. counted = shrinking
    BY <1>10, <1>11, <2>2
  <2>4. frame'[w] = [frame[w] EXCEPT !.shrinking = counted]
    BY <1>1 DEF CountEvents, Basic, TypeOK
  <2> HIDE DEF counted, shrinking
  <2> QED
    BY <2>3, <2>4
<1> HIDE DEF shrinking
<1>13. /\ frame'[w].shrinking = shrinking
       /\ frame'[w].owners = rest
       /\ frame'[w].changed_files = frame[w].changed_files
       /\ frame'[w].default_team = frame[w].default_team
       /\ frame'[w].warn_threshold_pct = frame[w].warn_threshold_pct
  BY <1>2, <1>12 DEF Frame
<1>14. /\ Left(w) = rest \cup {owner} /\ Left(w)' = rest
       /\ rest \cup {owner} \subseteq TeamsOf(p)
       /\ owner \notin rest
       /\ frame[w].shrinking = Short(p, before)
  BY <1>5, <1>13 DEF Left, ReadingFresh
<1>15. shrinking = Short(p, TeamsOf(p) \ rest)
  <2>1. TeamsOf(p) \ rest = before \cup {owner}
    BY <1>14
  <2>2. Short(p, before \cup {owner}) =
            IF Shrinks(p, owner) THEN Short(p, before) \cup {OwnStatus(p, owner)}
            ELSE Short(p, before)
    BY DEF Short
  <2> QED
    BY <1>14, <2>1, <2>2 DEF shrinking
<1>16. Left(w)' \subseteq TeamsOf(p)' /\ frame'[w].shrinking = Short(p, TeamsOf(p) \ Left(w))'
  BY <1>4, <1>13, <1>14, <1>15
<1>17. frame'[w].changed_files = files'[p]
  BY <1>3, <1>5, <1>13 DEF ReadingFresh
<1>18. /\ frame'[w].default_team = OwnConfig(p).default_team
       /\ frame'[w].warn_threshold_pct = OwnConfig(p).warn_threshold_pct
  BY <1>5, <1>13 DEF ReadingFresh
<1>19. pc'[w] = "find" => Left(w)' = {}
  BY <1>5, <1>14
<1>20. ReadsAgain(w)' => window_and_limit(tenant_config'[p.installation_id]) = OwnTerms(p)
  BY <1>5 DEF ReadingFresh, ReadsAgain
<1>21. ReadingFresh(w, p)'
  BY <1>5, <1>16, <1>17, <1>18, <1>19, <1>20 DEF ReadingFresh, OwnConfig, OwnTerms
<1> QED
  BY <1>3, <1>5, <1>21 DEF Working

\* An evaluation that is through with its owners has all that are short.
LEMMA AllCounted ==
    ASSUME Basic, NEW w \in Workers, NEW p \in Pulls, ReadingFresh(w, p),
           pc[w] \in {"find", "post"}
    PROVE  /\ frame[w].shrinking = Short(p, TeamsOf(p))
           /\ Short(p, TeamsOf(p)) \in SUBSET BudgetStatus
<1>1. Left(w) = {} /\ frame[w].shrinking = Short(p, TeamsOf(p) \ Left(w))
  BY DEF ReadingFresh
<1>2. frame[w].shrinking \in SUBSET BudgetStatus
  BY DEF Basic, TypeOK, Frame
<1> QED
  BY <1>1, <1>2

\* The look for a comment is the last read.  Without one, and with nothing to say,
\* the evaluation ends, and no comment is what there should be.
LEMMA SaidFind ==
    ASSUME Basic, NEW w \in Workers, NEW p \in Pulls, Working(w, p), ReadingFresh(w, p),
           \A v \in Workers \ {w} : ~Working(v, p), FindComment(w)
    PROVE  SaidOf(p)'
<1>1. job[w].subject = p /\ frame[w] \in Frame
  BY WorkingEvaluates DEF Basic, TypeOK
<1>2. /\ files' = files /\ events' = events /\ now' = now
      /\ comments' = comments /\ job' = job
  BY DEF FindComment, github
<1>3. /\ TeamsOf(p)' = TeamsOf(p)
      /\ \A teams : Short(p, teams)' = Short(p, teams)
      /\ Told(p)' = Told(p)
  BY <1>2, SameCircumstances
<1> DEFINE existing == IF comments[p] = <<>> THEN 0 ELSE 1
<1>4. /\ pc[w] = "find"
      /\ pc'[w] = IF frame[w].shrinking = {} /\ existing = 0 THEN "idle" ELSE "post"
      /\ frame'[w] = [frame[w] EXCEPT !.existing = existing]
  BY <1>1 DEF FindComment, Basic, TypeOK
<1>5. frame[w].shrinking = Short(p, TeamsOf(p))
  BY <1>4, AllCounted
<1>6. \A v \in Workers \ {w} : ~Working(v, p)'
  BY <1>2 DEF FindComment, Working, Basic, TypeOK
<1>7. CASE frame[w].shrinking = {} /\ existing = 0
  <2>1. ~Tight(p)
    BY <1>5, <1>7 DEF Tight, Short
  <2>2. Told(p)
    BY <1>7, <2>1 DEF Told
  <2>3. ~Working(w, p)'
    BY <1>4, <1>7 DEF Working
  <2> QED
    BY <1>3, <1>6, <2>2, <2>3 DEF SaidOf
<1>8. CASE ~(frame[w].shrinking = {} /\ existing = 0)
  <2>1. /\ pc'[w] = "post"
        /\ frame'[w].existing = existing
        /\ frame'[w].shrinking = frame[w].shrinking
        /\ frame'[w].owners = frame[w].owners
        /\ frame'[w].changed_files = frame[w].changed_files
    BY <1>1, <1>4, <1>8 DEF Frame
  <2>2. Left(w)' = Left(w)
    BY <1>4, <2>1 DEF Left
  <2>3. ReadingFresh(w, p)'
    BY <1>2, <1>3, <1>4, <2>1, <2>2 DEF ReadingFresh, ReadsAgain
  <2>4. Working(w, p)'
    BY <1>2, <2>1 DEF Working
  <2> QED
    BY <1>6, <2>3, <2>4 DEF SaidOf
<1> QED
  BY <1>7, <1>8

\* The posted body is the first comment, and tells what is so.
LEMMA SaidPost ==
    ASSUME Basic, NEW w \in Workers, NEW p \in Pulls, Working(w, p), ReadingFresh(w, p),
           \A v \in Workers \ {w} : ~Working(v, p), PostComment(w)
    PROVE  SaidOf(p)'
<1>1. job[w].subject = p
  BY WorkingEvaluates
<1>2. files' = files /\ events' = events /\ now' = now
  BY DEF PostComment
<1>3. /\ TeamsOf(p)' = TeamsOf(p)
      /\ \A teams : Short(p, teams)' = Short(p, teams)
      /\ Tight(p)' = Tight(p)
  BY <1>2, SameCircumstances
<1>4. pc[w] = "post" /\ pc'[w] = "idle"
  BY DEF PostComment, Basic, TypeOK
<1> DEFINE body == BodyFor(frame[w].shrinking)
<1>5. IF Tight(p) THEN Tells(body, p) ELSE body.kind = "recovered"
  BY <1>4, AllCounted, BodyTells DEF Basic
<1>6. comments[p] \in Seq(Body)
  BY DEF Basic, TypeOK
<1> HIDE DEF body
<1>7. comments'[p] # <<>> /\ comments'[p][1] = body
  <2>1. CASE frame[w].existing = 0 /\ comments[p] = <<>>
    <3>1. comments'[p] = Append(comments[p], body)
      BY <1>1, <2>1, PostedComment DEF body
    <3> QED
      BY <2>1, <3>1
  <2>2. CASE frame[w].existing = 1 /\ comments[p] # <<>>
    <3>1. comments'[p] = [comments[p] EXCEPT ![1] = body]
      BY <1>1, <2>2, PostedComment DEF body
    <3>2. 1 \in DOMAIN comments[p]
      BY <1>6, <2>2
    <3>3. comments'[p][1] = body /\ DOMAIN comments'[p] = DOMAIN comments[p]
      BY <3>1, <3>2
    <3> QED
      BY <3>2, <3>3
  <2> QED
    BY <1>4, <2>1, <2>2 DEF ReadingFresh
<1>8. Tells(body, p) => Tells(comments[p][1], p)'
  BY <1>3, <1>7 DEF Tells
<1>9. Told(p)'
  BY <1>3, <1>5, <1>7, <1>8 DEF Told
<1>10. \A v \in Workers : ~Working(v, p)'
  BY <1>4 DEF PostComment, Working, Basic, TypeOK
<1> QED
  BY <1>9, <1>10 DEF SaidOf

\* A step of a child that does not work on p leaves what is said of p.
LEMMA SaidOthers ==
    ASSUME Basic, NEW u \in Workers, NEW p \in Pulls, steady'[p], steady[p] => SaidOf(p),
           ~Working(u, p), Step(u) \/ Raise(u), ~Begin(u)
    PROVE  SaidOf(p)'
<1>1. /\ pc[u] # "idle" /\ job' = job /\ files' = files /\ now' = now
      /\ \A v \in Workers \ {u} : pc'[v] = pc[v] /\ frame'[v] = frame[v]
  BY DEF Step, FilesChanged, ResolveConfig, ResolveOwners, ReadTerms, CountEvents,
         FindComment, PostComment, WriteEvent, Raise, github, Basic, TypeOK
<1>2. ~Working(u, p)' /\ \A v \in Workers \ {u} : Working(v, p)' <=> Working(v, p)
  BY <1>1 DEF Working
<1>3. steady[p] /\ events' = events
  BY DEF Step, FilesChanged, ResolveConfig, ResolveOwners, ReadTerms, CountEvents,
         FindComment, PostComment, WriteEvent, Raise, Spoil, history, Basic, TypeOK
<1>4. comments'[p] = comments[p]
  <2>1. CASE PostComment(u)
    <3>1. job[u] \in PullTask
      BY <2>1, PostedComment
    <3>2. job[u].subject # p
      BY <1>1, <3>1 DEF Working, PullTask
    <3> QED
      BY <2>1, <3>2, PostedComment
  <2>2. CASE ~PostComment(u)
    BY <2>2 DEF Step, FilesChanged, ResolveConfig, ResolveOwners, ReadTerms, CountEvents,
                FindComment, WriteEvent, Raise, github
  <2> QED
    BY <2>1, <2>2
<1>5. ASSUME NEW w \in Workers, Working(w, p), ReadsAgain(w)
      PROVE  RowIsOwn(p)
  <2>1. w # u
    BY <1>5
  <2>2. CASE ResolveConfig(u)
    <3>1. p \notin Overwrites(u)
      BY <2>2 DEF ResolveConfig, Spoil
    <3> QED
      BY <1>5, <2>1, <2>2, <3>1, RowKept DEF RowIsOwn
  <2>3. CASE ~ResolveConfig(u)
    <3>1. tenant_config' = tenant_config
      BY <2>3 DEF Step, FilesChanged, ResolveOwners, ReadTerms, CountEvents,
                  FindComment, PostComment, WriteEvent, Raise
    <3> QED
      BY <3>1 DEF RowIsOwn
  <2> QED
    BY <2>2, <2>3
<1>6. SaidOf(p)
  BY <1>3
<1>7. \A v \in Workers : Working(v, p) => pc'[v] = pc[v] /\ frame'[v] = frame[v]
  BY <1>1
<1>8. \A v \in Workers : Working(v, p)' <=> Working(v, p)
  BY <1>2
<1> QED
  BY <1>1, <1>3, <1>4, <1>5, <1>6, <1>7, <1>8, SaidUntouched

\* A step of the child that works on p, which is then the only one.
LEMMA SaidOwn ==
    ASSUME QuoteInv, NEW w \in Workers, NEW p \in Pulls, steady'[p], steady[p] => SaidOf(p),
           Working(w, p), Step(w) \/ Raise(w)
    PROVE  SaidOf(p)'
<1>1. Basic
  BY DEF QuoteInv, IInv, Basic
<1>2. ~Raise(w) /\ ~Begin(w)
  BY <1>1 DEF Raise, Spoil, Begin, Working, Basic, TypeOK
<1>3. ~WriteEvent(w)
  BY <1>1, WorkingEvaluates DEF WriteEvent, Evaluating
<1> DEFINE Reads == FilesChanged(w) \/ ResolveConfig(w) \/ ResolveOwners(w) \/ ReadTerms(w)
<1>4. Reads \/ CountEvents(w) \/ FindComment(w) \/ PostComment(w)
  BY <1>2, <1>3 DEF Step
<1>5. steady[p]
  BY <1>4 DEF FilesChanged, ResolveConfig, ResolveOwners, ReadTerms, CountEvents,
              FindComment, PostComment, Spoil, history
<1>6. ReadingFresh(w, p) /\ \A v \in Workers \ {w} : ~Working(v, p)
  BY <1>5 DEF SaidOf
<1>7. CASE Reads \/ CountEvents(w)
  <2>1. Working(w, p)' /\ ReadingFresh(w, p)'
    BY <1>6, <1>7, SaidReading, SaidCount
  <2>2. \A v \in Workers \ {w} : ~Working(v, p)'
    BY <1>1, <1>6, <1>7 DEF FilesChanged, ResolveConfig, ResolveOwners, ReadTerms, CountEvents,
                            Working, Basic, TypeOK
  <2> QED
    BY <2>1, <2>2 DEF SaidOf
<1> QED
  BY <1>1, <1>4, <1>6, <1>7, SaidFind, SaidPost

LEMMA FreshStep ==
    ASSUME FreshInv, [Next]_vars
    PROVE  EvaluationsFresh'
<1> SUFFICES ASSUME NEW p \in Pulls, steady'[p]
             PROVE  SaidOf(p)'
  BY DEF EvaluationsFresh, SaidOf
<1>1. Basic /\ QuoteInv
  BY DEF FreshInv, QuoteInv, IInv, Basic
<1>2. steady[p] => SaidOf(p)
  BY DEF FreshInv, EvaluationsFresh, SaidOf
<1>3. ASSUME steady[p], files'[p] = files[p],
             UNCHANGED <<events, tenant_config, now, comments, pc, job, frame>>
      PROVE  SaidOf(p)'
  BY <1>2, <1>3, SaidUntouched DEF Working, RowIsOwn
<1>4. CASE UNCHANGED vars
  BY <1>3, <1>4 DEF vars, history
<1>5. CASE \E q \in Pulls : Trigger(q)
  <2>1. PICK q \in Pulls : Trigger(q)
    BY <1>5
  <2>2. q # p /\ steady[p]
    BY <1>1, <2>1 DEF Trigger, Basic, TypeOK
  <2>3. files'[p] = files[p]
    BY <1>1, <2>1, <2>2 DEF Trigger, Basic, TypeOK
  <2> QED
    BY <1>3, <2>1, <2>2, <2>3 DEF Trigger
<1>6. CASE \E task \in Activity : QueueActivity(task)
  BY <1>3, <1>6 DEF QueueActivity, github, history
<1>7. CASE Tick
  BY <1>7 DEF Tick
<1>8. ASSUME NEW u \in Workers, Step(u) \/ Raise(u)
      PROVE  SaidOf(p)'
  BY <1>1, <1>2, <1>8, SaidBegin, SaidOwn, SaidOthers
<1> QED
  BY <1>4, <1>5, <1>6, <1>7, <1>8 DEF Next

\* However many children work, and whatever raised, died, raced or was overwritten
\* before: when all tasks are done, the comment of a pull request whose last evaluation
\* had it to itself, and was not disturbed, says what is so.
THEOREM CommentsAreFresh == Spec => []CommentFresh
<1>1. Init => FreshInv
  <2>1. Init => EvaluationsFresh
    BY DEF Init, EvaluationsFresh
  <2> QED
    BY <2>1, QuoteInvInit DEF FreshInv
<1>2. FreshInv /\ [Next]_vars => FreshInv'
  BY QuoteInvStep, FreshStep DEF FreshInv
<1>3. FreshInv => CommentFresh
  BY DEF FreshInv, EvaluationsFresh, CommentFresh, Quiet, Working
<1> QED
  BY <1>1, <1>2, <1>3, PTL DEF Spec

===============================================================================
