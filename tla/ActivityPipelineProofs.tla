------------------------ MODULE ActivityPipelineProofs ------------------------
(***************************************************************************)
(* Proofs about ActivityPipeline for every number of workers, payloads,    *)
(* deliveries and failures.  IInv is inductive; RowsJustified, KeptCharges *)
(* and the other invariants are among its conjuncts.                       *)
(***************************************************************************)
EXTENDS ActivityPipeline, EventStoreProofs, MergencyConfigProofs, WellFoundedInduction

-------------------------------------------------------------------------------
\* Classification and ownership.

\* A non-empty set of positions has a first one.
LEMMA FirstIn ==
    ASSUME NEW S \in SUBSET Nat, S # {}
    PROVE  First(S) \in S
<1>1. PICK x \in S : \A y \in S : <<y, x>> \notin OpToRel(<, Nat)
  BY NatLessThanWellFounded, WFMin, Zenon
<1>2. \A y \in S : ~(y < x)
  BY <1>1, Zenon DEF OpToRel
<1>3. \A y \in S : x <= y
  BY <1>2
<1> QED
  BY <1>3 DEF First

\* The event the classifier makes of a payload is well-typed, has no owner yet, and
\* stands for the failed run or for a revert commit of that payload.
LEMMA ClassifySound ==
    ASSUME NEW p \in Payload, p # Malformed, classify(p) # NoEvent
    PROVE  /\ classify(p) \in ActivityEvent
           /\ \/ /\ p \in CheckRunSignal
                 /\ classify(p).event_type = "build_failure"
                 /\ Failed(p)
                 /\ IsFailureRow(classify(p), p)
              \/ /\ p \in PushSignal
                 /\ classify(p).event_type = "revert"
                 /\ First(RevertsIn(p)) \in RevertsIn(p)
                 /\ First(RevertsIn(p)) \in Reverting(p)
                 /\ IsRevertRow(classify(p), p, First(RevertsIn(p)))
<1>1. CASE p \in CheckRunSignal
  <2>1. p.kind = "check_run" /\ is_failure(p)
    BY <1>1 DEF CheckRunSignal, classify, classify_check_run
  <2>2. classify(p) = [installation_id |-> p.installation_id,
                       repo            |-> p.repo,
                       sha             |-> p.sha,
                       event_type      |-> "build_failure",
                       owner           |-> NoOwner,
                       ts              |-> p.completed_at,
                       check_name      |-> p.check_name]
    BY <2>1 DEF classify, classify_check_run
  <2>3. Failed(p)
    BY <2>1 DEF Failed, OnDefaultBranch, is_failure, CompletedOnDefault
  <2>4. p.completed_at \in Int
    BY <1>1, <2>1 DEF is_failure, CompletedOnDefault, CheckRunSignal
  <2>5. classify(p) \in ActivityEvent
    BY <1>1, <2>2, <2>4 DEF CheckRunSignal, ActivityEvent, ActivityEventType
  <2>6. IsFailureRow(classify(p), p)
    BY <2>2 DEF IsFailureRow
  <2> QED
    BY <1>1, <2>2, <2>3, <2>5, <2>6
<1>2. CASE p \in PushSignal
  <2>1. p.kind = "push" /\ RevertsIn(p) # {}
    BY <1>2 DEF PushSignal, classify, classify_push
  <2>2. RevertsIn(p) \in SUBSET Nat
    BY <1>2 DEF RevertsIn, PushSignal
  <2> DEFINE i == First(RevertsIn(p))
  <2>3. i \in RevertsIn(p)
    BY <2>1, <2>2, FirstIn
  <2>4. i \in Reverting(p)
    BY <2>1, <2>3 DEF RevertsIn, Reverting, looks_like_revert
  <2>5. classify(p) = [installation_id |-> p.installation_id,
                       repo            |-> p.repo,
                       sha             |-> p.commits[i].sha,
                       event_type      |-> "revert",
                       owner           |-> NoOwner,
                       ts              |-> p.commits[i].timestamp,
                       check_name      |-> NoCheck]
    BY <2>1 DEF classify, classify_push
  <2>6. p.commits[i] \in PushCommit
    BY <1>2, <2>3 DEF RevertsIn, PushSignal
  <2>7. classify(p) \in ActivityEvent
    BY <1>2, <2>5, <2>6 DEF PushSignal, PushCommit, ActivityEvent, ActivityEventType
  <2>8. IsRevertRow(classify(p), p, i)
    BY <2>5 DEF IsRevertRow
  <2> QED
    BY <1>2, <2>3, <2>4, <2>5, <2>7, <2>8
<1> QED
  BY <1>1, <1>2 DEF Payload, Signal

\* The files a classified payload is said to change are files.
LEMMA ChangedFiles ==
    ASSUME NEW p \in Payload, p # Malformed, classify(p) # NoEvent
    PROVE  changed_files_for(p) \subseteq Files
<1>1. CASE p \in CheckRunSignal
  BY <1>1, PipelineAssumption DEF CheckRunSignal, changed_files_for
<1>2. CASE p \in PushSignal
  <2>1. First(RevertsIn(p)) \in RevertsIn(p)
    BY <1>2, ClassifySound DEF PushSignal, CheckRunSignal
  <2>2. p.commits[First(RevertsIn(p))] \in PushCommit
    BY <1>2, <2>1 DEF RevertsIn, PushSignal
  <2> QED
    BY <1>2, <2>2 DEF PushSignal, PushCommit, changed_files_for
<1> QED
  BY <1>1, <1>2 DEF Payload, Signal

\* resolve_owners charges teams of CODEOWNERS or the default team, nobody else, and
\* always somebody.
LEMMA OwnersCharged ==
    ASSUME NEW files \in SUBSET Files,
           NEW read \in [files -> CodeownersVersions],
           NEW team \in Teams
    PROVE  /\ resolve_owners(files, read, team) \subseteq TeamsCharged \cap Names
           /\ resolve_owners(files, read, team) # {}
  BY PipelineAssumption DEF resolve_owners, TeamsCharged

\* The fan-out of an event differs from it in the owner only.
LEMMA ChargesRows ==
    ASSUME NEW event \in ActivityEvent,
           NEW owners \in SUBSET (TeamsCharged \cap Names)
    PROVE  \A e \in Charges(event, owners) :
              /\ e \in Row
              /\ e.owner \in TeamsCharged
              /\ e.installation_id = event.installation_id
              /\ e.repo = event.repo
              /\ e.sha = event.sha
              /\ e.event_type = event.event_type
              /\ e.ts = event.ts
              /\ e.check_name = event.check_name
  BY NoOwnerAssumption DEF Charges, ActivityEvent, Row

-------------------------------------------------------------------------------
\* Types, and what a task may hold at each place.

Routing == TypeOK /\ TasksSeen /\ EventsClassified /\ CandidatesFlaky

\* A payload that was delivered is a payload.
LEMMA SeenPayload ==
    ASSUME NEW p \in Payloads
    PROVE  p \in Payload
  BY PipelineAssumption

\* Deliveries only add to what was seen.
LEMMA SeenGrows ==
    ASSUME TypeOK, [Next]_vars
    PROVE  Seen \subseteq Seen'
<1>1. ASSUME NEW p \in Payloads, Deliver(p)
      PROVE  Seen \subseteq Seen'
  BY <1>1 DEF TypeOK, Deliver, Seen
<1>2. CASE UNCHANGED delivered
  BY <1>2 DEF Seen
<1> QED
  BY <1>1, <1>2 DEF Next, Step, vars, Begin, ResolveConfig, ResolveOwners, SaveRow,
                    FindRecent, RetypeRow, Raise

LEMMA RoutingDeliver ==
    ASSUME Routing, NEW p \in Payloads, Deliver(p)
    PROVE  Routing'
<1>1. Seen \subseteq Seen' /\ p \in Seen'
  BY DEF Routing, TypeOK, Deliver, Seen
<1>2. TypeOK'
  BY DEF Routing, TypeOK, Deliver, locals, history
<1>3. \A i \in DOMAIN queue' : queue'[i] \in Seen'
  <2>1. DOMAIN queue' = 1..(Len(queue) + 1)
    BY DEF Routing, TypeOK, Deliver
  <2>2. \A i \in 1..Len(queue) : queue'[i] = queue[i] /\ i \in DOMAIN queue
    BY DEF Routing, TypeOK, Deliver
  <2>3. queue'[Len(queue) + 1] = p
    BY DEF Routing, TypeOK, Deliver
  <2>4. Len(queue) \in Nat
    BY DEF Routing, TypeOK
  <2> QED
    BY <1>1, <2>1, <2>2, <2>3, <2>4 DEF Routing, TasksSeen
<1>4. TasksSeen'
  BY <1>1, <1>3 DEF Routing, TasksSeen, Deliver, locals
<1>5. EventsClassified' /\ CandidatesFlaky'
  BY DEF Routing, EventsClassified, CandidatesFlaky, Deliver, locals
<1> QED
  BY <1>2, <1>4, <1>5 DEF Routing

LEMMA RoutingBegin ==
    ASSUME Routing, NEW w \in Workers, Begin(w)
    PROVE  Routing'
<1>1. /\ Len(queue) \in Nat \ {0}
      /\ Head(queue) = queue[1]
      /\ 1 \in DOMAIN queue
      /\ queue' \in Seq(Payloads)
      /\ DOMAIN queue' = 1..(Len(queue) - 1)
      /\ \A i \in DOMAIN queue' : queue'[i] = queue[i + 1] /\ i + 1 \in DOMAIN queue
  BY DEF Routing, TypeOK, Begin
<1>2. Head(queue) \in Seen /\ Head(queue) \in Payload
  BY <1>1, SeenPayload DEF Routing, TasksSeen, Seen
<1>3. Seen' = Seen
  BY DEF Begin, Seen
<1>4. Route(Head(queue)) \in {"idle", "config", "find"}
  BY DEF Route
<1>5. TypeOK'
  BY <1>1, <1>2, <1>4 DEF Routing, TypeOK, Begin, history
<1>6. /\ pc' = [pc EXCEPT ![w] = Route(Head(queue))]
      /\ job' = [job EXCEPT ![w] = Head(queue)]
      /\ pc \in [Workers -> {"idle", "config", "owners", "save", "find", "retype"}]
      /\ job \in [Workers -> Payload]
  BY DEF Routing, TypeOK, Begin
<1>7. TasksSeen'
  <2>1. \A i \in DOMAIN queue' : queue'[i] \in Seen'
    BY <1>1, <1>3 DEF Routing, TasksSeen
  <2>2. ASSUME NEW v \in Workers, pc'[v] # "idle"
        PROVE  job'[v] \in Seen' /\ job'[v] # Malformed
    BY <1>2, <1>3, <1>6, <2>2 DEF Routing, TasksSeen, Route
  <2> QED
    BY <2>1, <2>2 DEF TasksSeen
<1>8. EventsClassified'
  BY <1>6 DEF Routing, EventsClassified, Route
<1>9. CandidatesFlaky'
  BY <1>6 DEF Routing, CandidatesFlaky, Route
<1> QED
  BY <1>5, <1>7, <1>8, <1>9 DEF Routing

LEMMA RoutingResolveConfig ==
    ASSUME Routing, NEW w \in Workers, ResolveConfig(w)
    PROVE  Routing'
<1>1. PICK file \in ConfigFiles :
        /\ Storable(parse_config(file))
        /\ tenant_config' = [tenant_config EXCEPT ![job[w].installation_id] = parse_config(file)]
        /\ default_team' = [default_team EXCEPT ![w] = parse_config(file).default_team]
  BY DEF ResolveConfig
<1>2. parse_config(file) \in TenantConfig
  BY <1>1, StorableConfig, PipelineAssumption
<1>3. TypeOK'
  BY <1>1, <1>2 DEF Routing, TypeOK, ResolveConfig, history, TenantConfig
<1>4. Seen' = Seen
  BY DEF ResolveConfig, Seen
<1>5. TasksSeen' /\ EventsClassified' /\ CandidatesFlaky'
  BY <1>4 DEF Routing, TypeOK, TasksSeen, EventsClassified, CandidatesFlaky, ResolveConfig
<1> QED
  BY <1>3, <1>5 DEF Routing

\* What ResolveOwners puts in the loop of w.
LEMMA FanOut ==
    ASSUME Routing, NEW w \in Workers, ResolveOwners(w)
    PROVE  \E owners \in SUBSET (TeamsCharged \cap Names) :
                /\ owners # {}
                /\ loop' = [loop EXCEPT ![w] = Charges(classify(job[w]), owners)]
                /\ todo' = [todo EXCEPT ![w] = Charges(classify(job[w]), owners)]
<1>1. /\ job[w] \in Payload
      /\ job[w] # Malformed
      /\ classify(job[w]) # NoEvent
      /\ default_team[w] \in Teams
  BY DEF Routing, TypeOK, TasksSeen, EventsClassified, ResolveOwners
<1> DEFINE files == changed_files_for(job[w])
<1>2. files \in SUBSET Files
  BY <1>1, ChangedFiles
<1>3. PICK read \in [files -> CodeownersVersions] :
        LET owners == resolve_owners(files, read, default_team[w])
        IN  /\ loop' = [loop EXCEPT ![w] = Charges(classify(job[w]), owners)]
            /\ todo' = [todo EXCEPT ![w] = Charges(classify(job[w]), owners)]
  BY DEF ResolveOwners
<1>4. /\ resolve_owners(files, read, default_team[w]) \subseteq TeamsCharged \cap Names
      /\ resolve_owners(files, read, default_team[w]) # {}
  BY <1>1, <1>2, OwnersCharged
<1> QED
  BY <1>3, <1>4

LEMMA RoutingResolveOwners ==
    ASSUME Routing, NEW w \in Workers, ResolveOwners(w)
    PROVE  Routing'
<1>1. PICK owners \in SUBSET (TeamsCharged \cap Names) :
        /\ loop' = [loop EXCEPT ![w] = Charges(classify(job[w]), owners)]
        /\ todo' = [todo EXCEPT ![w] = Charges(classify(job[w]), owners)]
  BY FanOut
<1>2. classify(job[w]) \in ActivityEvent
  BY ClassifySound DEF Routing, TypeOK, TasksSeen, EventsClassified, ResolveOwners
<1>3. Charges(classify(job[w]), owners) \subseteq Row
  BY <1>2, ChargesRows
<1>4. TypeOK'
  BY <1>1, <1>3 DEF Routing, TypeOK, ResolveOwners, history
<1>5. Seen' = Seen
  BY DEF ResolveOwners, Seen
<1>6. TasksSeen' /\ EventsClassified' /\ CandidatesFlaky'
  BY <1>5 DEF Routing, TypeOK, TasksSeen, EventsClassified, CandidatesFlaky, ResolveOwners
<1> QED
  BY <1>4, <1>6 DEF Routing

LEMMA RoutingSaveRow ==
    ASSUME Routing, NEW w \in Workers, SaveRow(w)
    PROVE  Routing'
<1>1. PICK e \in todo[w] :
        /\ events' = save_if_new(events, e)
        /\ Advance(w, e)
        /\ kept' = IF todo[w] = {e} THEN kept \cup loop[w] ELSE kept
  BY DEF SaveRow
<1>2. events \in SUBSET Row /\ e \in Row
  BY DEF Routing, TypeOK
<1>3. events' \subseteq Row
  BY <1>1, <1>2, SaveKeeps
<1>4. TypeOK'
  BY <1>1, <1>3 DEF Routing, TypeOK, SaveRow, Advance
<1>5. Seen' = Seen
  BY DEF SaveRow, Seen
<1>6. TasksSeen' /\ EventsClassified' /\ CandidatesFlaky'
  BY <1>1, <1>5 DEF Routing, TypeOK, TasksSeen, EventsClassified, CandidatesFlaky, SaveRow, Advance
<1> QED
  BY <1>4, <1>6 DEF Routing

LEMMA RoutingFindRecent ==
    ASSUME Routing, NEW w \in Workers, FindRecent(w)
    PROVE  Routing'
<1>1. PriorFailures(job[w]) \subseteq Row
  BY DEF Routing, TypeOK, PriorFailures, find_recent
<1>2. TypeOK'
  BY <1>1 DEF Routing, TypeOK, FindRecent, history
<1>3. Seen' = Seen
  BY DEF FindRecent, Seen
<1>4. TasksSeen' /\ EventsClassified' /\ CandidatesFlaky'
  BY <1>3 DEF Routing, TypeOK, TasksSeen, EventsClassified, CandidatesFlaky, FindRecent
<1> QED
  BY <1>2, <1>4 DEF Routing

LEMMA RoutingRetypeRow ==
    ASSUME Routing, UniqueKey, NEW w \in Workers, RetypeRow(w)
    PROVE  Routing'
<1>1. PICK e \in todo[w] :
        /\ events' = retype(events, e, "flaky_test")
        /\ Advance(w, e)
        /\ excused' = IF todo[w] = {e} THEN excused \cup loop[w] ELSE excused
  BY DEF RetypeRow
<1>2. events \in SUBSET Row /\ e \in Row /\ "flaky_test" \in ActivityEventType
  BY DEF Routing, TypeOK, ActivityEventType
<1>3. events' \subseteq Row
  BY <1>1, <1>2, RetypeCases, RetypedRow DEF UniqueKey
<1>4. TypeOK'
  BY <1>1, <1>3 DEF Routing, TypeOK, RetypeRow, Advance
<1>5. Seen' = Seen
  BY DEF RetypeRow, Seen
<1>6. TasksSeen' /\ EventsClassified' /\ CandidatesFlaky'
  BY <1>1, <1>5 DEF Routing, TypeOK, TasksSeen, EventsClassified, CandidatesFlaky, RetypeRow, Advance
<1> QED
  BY <1>4, <1>6 DEF Routing

LEMMA RoutingRaise ==
    ASSUME Routing, NEW w \in Workers, Raise(w)
    PROVE  Routing'
<1>1. TypeOK'
  BY DEF Routing, TypeOK, Raise, locals, history
<1>2. Seen' = Seen
  BY DEF Raise, Seen
<1>3. TasksSeen' /\ EventsClassified' /\ CandidatesFlaky'
  BY <1>2 DEF Routing, TypeOK, TasksSeen, EventsClassified, CandidatesFlaky, Raise, locals
<1> QED
  BY <1>1, <1>3 DEF Routing

-------------------------------------------------------------------------------
\* How the table changes.

\* Every row of before is in after, as it was or excused.
Grows(before, after) ==
    \A r \in before :
        \/ r \in after
        \/ r.event_type = "build_failure" /\ Retyped(r, "flaky_test") \in after

LEMMA SaveGrows ==
    ASSUME NEW table \in SUBSET Row, NEW e \in Row
    PROVE  Grows(table, save_if_new(table, e))
<1>1. table \subseteq save_if_new(table, e)
  BY SaveKeeps
<1> QED
  BY <1>1 DEF Grows

LEMMA RetypeGrows ==
    ASSUME NEW table \in SUBSET Row, UniqueKeys(table),
           NEW e \in Row, e.event_type = "build_failure"
    PROVE  Grows(table, retype(table, e, "flaky_test"))
<1>1. "flaky_test" \in ActivityEventType
  BY DEF ActivityEventType
<1>2. \A r \in table : DedupeKey(r) = DedupeKey(e) => r.event_type = "build_failure"
  BY DEF DedupeKey
<1>3. CASE retype(table, e, "flaky_test") = table
  BY <1>3 DEF Grows
<1>4. ASSUME NEW r \in table,
             DedupeKey(r) = DedupeKey(e),
             retype(table, e, "flaky_test") = (table \ {r}) \cup {Retyped(r, "flaky_test")}
      PROVE  Grows(table, retype(table, e, "flaky_test"))
  BY <1>2, <1>4 DEF Grows
<1> QED
  BY <1>1, <1>3, <1>4, RetypeCases

\* A flaky row stays; a charge stays or is excused; a failure stays as it is until
\* it has a flaky twin.
LEMMA GrowsKeeps ==
    ASSUME NEW before \in SUBSET Row, NEW after \in SUBSET Row, Grows(before, after),
           NEW e \in Row, e.event_type \in {"build_failure", "revert"}
    PROVE  /\ HasKey(before, Retyped(e, "flaky_test")) => HasKey(after, Retyped(e, "flaky_test"))
           /\ e \in before \/ HasKey(before, Retyped(e, "flaky_test"))
              => e \in after \/ HasKey(after, Retyped(e, "flaky_test"))
           /\ HasKey(before, e) \/ HasKey(before, Retyped(e, "flaky_test"))
              => HasKey(after, e) \/ HasKey(after, Retyped(e, "flaky_test"))
<1> DEFINE twin == Retyped(e, "flaky_test")
<1>0. "flaky_test" \in ActivityEventType
  BY DEF ActivityEventType
<1>1. ASSUME HasKey(before, twin)
      PROVE  HasKey(after, twin)
  <2>1. PICK r \in before : DedupeKey(r) = DedupeKey(twin)
    BY <1>1 DEF HasKey
  <2>2. r.event_type = "flaky_test"
    BY <1>0, <2>1, RetypedRow DEF DedupeKey
  <2>3. r \in after
    BY <2>2 DEF Grows
  <2> QED
    BY <2>1, <2>3 DEF HasKey
<1>2. ASSUME e \in before
      PROVE  e \in after \/ HasKey(after, twin)
  BY <1>2 DEF Grows, HasKey
<1>3. ASSUME HasKey(before, e)
      PROVE  HasKey(after, e) \/ HasKey(after, twin)
  <2>1. PICK r \in before : DedupeKey(r) = DedupeKey(e)
    BY <1>3 DEF HasKey
  <2>2. DedupeKey(Retyped(r, "flaky_test")) = DedupeKey(twin)
    BY <1>0, <2>1, RetypedKey
  <2> QED
    BY <2>1, <2>2 DEF Grows, HasKey
<1> QED
  BY <1>1, <1>2, <1>3

\* Every step grows the table and keeps its keys unique, and what a task of w is
\* about to write is a charge, or a failure to excuse.
LEMMA TableStep ==
    ASSUME IInv, [Next]_vars
    PROVE  Grows(events, events') /\ UniqueKey'
<1> USE DEF IInv, TypeOK, UniqueKey
<1>1. CASE UNCHANGED events
  BY <1>1 DEF Grows, UniqueKeys
<1>2. ASSUME NEW w \in Workers, SaveRow(w)
      PROVE  Grows(events, events') /\ UniqueKey'
  <2>1. PICK e \in todo[w] : events' = save_if_new(events, e)
    BY <1>2 DEF SaveRow
  <2>2. e \in Row /\ events \in SUBSET Row
    OBVIOUS
  <2>3. Grows(events, events')
    BY <2>1, <2>2, SaveGrows
  <2>4. UniqueKey'
    BY <2>1, <2>2, SaveUnique
  <2> QED
    BY <2>3, <2>4
<1>3. ASSUME NEW w \in Workers, RetypeRow(w)
      PROVE  Grows(events, events') /\ UniqueKey'
  <2>1. PICK e \in todo[w] : events' = retype(events, e, "flaky_test")
    BY <1>3 DEF RetypeRow
  <2>2. e \in Row /\ e.event_type = "build_failure"
    BY <1>3 DEF Loops, RetypeLoop, RetypeRow
  <2>3. "flaky_test" \in ActivityEventType
    BY DEF ActivityEventType
  <2>4. Grows(events, events')
    BY <2>1, <2>2, RetypeGrows
  <2>5. UniqueKey'
    BY <2>1, <2>2, <2>3, RetypeUnique
  <2> QED
    BY <2>4, <2>5
<1> QED
  BY <1>1, <1>2, <1>3 DEF Next, Step, vars, Deliver, Begin, ResolveConfig, ResolveOwners,
                          FindRecent, Raise

\* The justification of a row survives every step.
LEMMA JustificationStays ==
    ASSUME Seen \subseteq Seen', NEW r
    PROVE  /\ JustifiedFailure(r) => JustifiedFailure(r)'
           /\ JustifiedFlaky(r) => JustifiedFlaky(r)'
           /\ JustifiedRevert(r) => JustifiedRevert(r)'
<1>1. JustifiedFailure(r) => JustifiedFailure(r)'
  BY DEF JustifiedFailure
<1>2. JustifiedFlaky(r) => JustifiedFlaky(r)'
  BY DEF JustifiedFlaky
<1>3. JustifiedRevert(r) => JustifiedRevert(r)'
  BY DEF JustifiedRevert
<1> QED
  BY <1>1, <1>2, <1>3

\* The loop of a worker whose own place and rows do not change stays right,
\* whatever the others do to the table.
LEMMA LoopStays ==
    ASSUME IInv, [Next]_vars, Routing', NEW v \in Workers,
           pc'[v] = pc[v], job'[v] = job[v], loop'[v] = loop[v], todo'[v] = todo[v]
    PROVE  /\ pc'[v] = "save" => SaveLoop(v)'
           /\ pc'[v] = "retype" => RetypeLoop(v)'
<1>1. Seen \subseteq Seen' /\ Grows(events, events')
  BY SeenGrows, TableStep DEF IInv
<1>2. events \in SUBSET Row /\ events' \in SUBSET Row /\ loop[v] \in SUBSET Row
  BY DEF IInv, Routing, TypeOK
<1>3. ASSUME pc[v] = "save"
      PROVE  SaveLoop(v)'
  <2>1. SaveLoop(v)
    BY <1>3 DEF IInv, Loops
  <2>2. ASSUME NEW e \in loop[v]
        PROVE  /\ e.owner \in TeamsCharged
               /\ \/ e.event_type = "build_failure" /\ JustifiedFailure(e)'
                  \/ e.event_type = "revert" /\ JustifiedRevert(e)'
    BY <1>1, <2>1, JustificationStays DEF SaveLoop
  <2>3. ASSUME NEW e \in loop[v] \ todo[v]
        PROVE  HasKey(events', e) \/ HasKey(events', Retyped(e, "flaky_test"))
    <3>1. e.event_type \in {"build_failure", "revert"}
      BY <2>1 DEF SaveLoop
    <3>2. HasKey(events, e) \/ HasKey(events, Retyped(e, "flaky_test"))
      BY <2>1 DEF SaveLoop
    <3> QED
      BY <1>1, <1>2, <3>1, <3>2, GrowsKeeps
  <2> QED
    BY <2>1, <2>2, <2>3 DEF SaveLoop
<1>4. ASSUME pc[v] = "retype"
      PROVE  RetypeLoop(v)'
  <2>1. RetypeLoop(v)
    BY <1>4 DEF IInv, Loops
  <2>2. ASSUME NEW e \in loop[v]
        PROVE  e \in events' \/ HasKey(events', Retyped(e, "flaky_test"))
    BY <1>1, <1>2, <2>1, GrowsKeeps DEF RetypeLoop
  <2>3. ASSUME NEW e \in loop[v] \ todo[v]
        PROVE  HasKey(events', Retyped(e, "flaky_test"))
    BY <1>1, <1>2, <2>1, GrowsKeeps DEF RetypeLoop
  <2> QED
    BY <2>1, <2>2, <2>3 DEF RetypeLoop
<1> QED
  BY <1>3, <1>4

-------------------------------------------------------------------------------
\* The loops.

LEMMA LoopsStep ==
    ASSUME IInv, [Next]_vars, Routing'
    PROVE  Loops'
<1> DEFINE Right(v) == /\ pc'[v] = "save" => SaveLoop(v)'
                       /\ pc'[v] = "retype" => RetypeLoop(v)'
<1>0. SUFFICES ASSUME NEW v \in Workers
               PROVE  Right(v)
  BY DEF Loops
<1>1. ASSUME pc'[v] = pc[v], job'[v] = job[v], loop'[v] = loop[v], todo'[v] = todo[v]
      PROVE  Right(v)
  BY <1>1, LoopStays
<1>2. CASE pc'[v] \notin {"save", "retype"}
  BY <1>2
<1>3. CASE ResolveOwners(v)
  <2>1. PICK owners \in SUBSET (TeamsCharged \cap Names) :
          /\ loop' = [loop EXCEPT ![v] = Charges(classify(job[v]), owners)]
          /\ todo' = [todo EXCEPT ![v] = Charges(classify(job[v]), owners)]
    BY <1>3, FanOut DEF IInv, Routing
  <2>2. /\ pc'[v] = "save"
        /\ loop'[v] = Charges(classify(job[v]), owners)
        /\ todo'[v] = loop'[v]
    BY <1>3, <2>1 DEF IInv, TypeOK, ResolveOwners
  <2>3. /\ job[v] \in Seen
        /\ job[v] \in Payload
        /\ job[v] # Malformed
        /\ classify(job[v]) # NoEvent
    BY <1>3 DEF IInv, TypeOK, TasksSeen, EventsClassified, ResolveOwners
  <2> DEFINE event == classify(job[v])
  <2>4. event \in ActivityEvent
    BY <2>3, ClassifySound
  <2>5. ASSUME NEW e \in loop'[v]
        PROVE  /\ e.owner \in TeamsCharged
               /\ e.event_type = event.event_type
               /\ e.installation_id = event.installation_id
               /\ e.repo = event.repo
               /\ e.sha = event.sha
               /\ e.ts = event.ts
               /\ e.check_name = event.check_name
    BY <2>2, <2>4, ChargesRows
  <2>6. \/ event.event_type = "build_failure" /\ \A e \in loop'[v] : JustifiedFailure(e)
        \/ event.event_type = "revert" /\ \A e \in loop'[v] : JustifiedRevert(e)
    <3>1. CASE /\ event.event_type = "build_failure"
               /\ Failed(job[v])
               /\ IsFailureRow(event, job[v])
      BY <2>3, <2>5, <3>1 DEF JustifiedFailure, IsFailureRow
    <3>2. CASE /\ event.event_type = "revert"
               /\ First(RevertsIn(job[v])) \in Reverting(job[v])
               /\ IsRevertRow(event, job[v], First(RevertsIn(job[v])))
      BY <2>3, <2>5, <3>2 DEF JustifiedRevert, IsRevertRow
    <3> QED
      BY <2>3, <3>1, <3>2, ClassifySound
  <2>7. Seen' = Seen
    BY <1>3 DEF ResolveOwners, Seen
  <2>8. \A e : /\ JustifiedFailure(e) => JustifiedFailure(e)'
               /\ JustifiedRevert(e) => JustifiedRevert(e)'
    BY <2>7, JustificationStays
  <2>9. SaveLoop(v)'
    BY <2>2, <2>5, <2>6, <2>8 DEF SaveLoop
  <2> QED
    BY <2>2, <2>9
<1>4. CASE SaveRow(v)
  <2>1. PICK e \in todo[v] : events' = save_if_new(events, e) /\ Advance(v, e)
    BY <1>4 DEF SaveRow
  <2>2. /\ pc[v] = "save"
        /\ pc'[v] \in {"idle", "save"}
        /\ loop'[v] = loop[v]
        /\ todo'[v] = todo[v] \ {e}
        /\ job'[v] = job[v]
    BY <1>4, <2>1 DEF IInv, TypeOK, SaveRow, Advance
  <2>3. SaveLoop(v)
    BY <2>2 DEF IInv, Loops
  <2>4. /\ events \in SUBSET Row
        /\ events' \in SUBSET Row
        /\ loop[v] \in SUBSET Row
        /\ e \in Row
    BY DEF IInv, Routing, TypeOK
  <2>5. Grows(events, events') /\ Seen' = Seen
    BY <1>4, TableStep DEF SaveRow, Seen
  <2>6. \A r : /\ JustifiedFailure(r) => JustifiedFailure(r)'
               /\ JustifiedRevert(r) => JustifiedRevert(r)'
    BY <2>5, JustificationStays
  <2>7. HasKey(events', e)
    BY <2>1, <2>4, SaveKeeps
  <2>8. ASSUME NEW r \in loop[v] \ todo'[v]
        PROVE  HasKey(events', r) \/ HasKey(events', Retyped(r, "flaky_test"))
    <3>1. CASE r = e
      BY <2>7, <3>1
    <3>2. CASE r # e
      <4>1. r \in loop[v] \ todo[v] /\ r.event_type \in {"build_failure", "revert"}
        BY <2>2, <2>3, <3>2 DEF SaveLoop
      <4>2. HasKey(events, r) \/ HasKey(events, Retyped(r, "flaky_test"))
        BY <2>3, <4>1 DEF SaveLoop
      <4> QED
        BY <2>4, <2>5, <4>1, <4>2, GrowsKeeps
    <3> QED
      BY <3>1, <3>2
  <2>9. SaveLoop(v)'
    BY <2>2, <2>3, <2>6, <2>8 DEF SaveLoop
  <2> QED
    BY <2>2, <2>9
<1>5. CASE FindRecent(v)
  <2>1. /\ pc'[v] \in {"idle", "retype"}
        /\ loop'[v] = PriorFailures(job[v])
        /\ todo'[v] = loop'[v]
        /\ job' = job
        /\ events' = events
    BY <1>5 DEF IInv, TypeOK, FindRecent
  <2>2. RetypeLoop(v)'
    BY <2>1 DEF RetypeLoop, PriorFailures, find_recent
  <2> QED
    BY <2>1, <2>2
<1>6. CASE RetypeRow(v)
  <2>1. PICK e \in todo[v] : events' = retype(events, e, "flaky_test") /\ Advance(v, e)
    BY <1>6 DEF RetypeRow
  <2>2. /\ pc[v] = "retype"
        /\ pc'[v] \in {"idle", "retype"}
        /\ loop'[v] = loop[v]
        /\ todo'[v] = todo[v] \ {e}
        /\ job'[v] = job[v]
    BY <1>6, <2>1 DEF IInv, TypeOK, RetypeRow, Advance
  <2>3. RetypeLoop(v)
    BY <2>2 DEF IInv, Loops
  <2>4. /\ events \in SUBSET Row
        /\ events' \in SUBSET Row
        /\ loop[v] \in SUBSET Row
        /\ e \in Row
        /\ "flaky_test" \in ActivityEventType
    BY DEF IInv, Routing, TypeOK, ActivityEventType
  <2>5. Grows(events, events')
    BY TableStep
  <2>6. \A r \in loop[v] :
          /\ r \in events' \/ HasKey(events', Retyped(r, "flaky_test"))
          /\ HasKey(events, Retyped(r, "flaky_test")) => HasKey(events', Retyped(r, "flaky_test"))
    BY <2>3, <2>4, <2>5, GrowsKeeps DEF RetypeLoop
  <2>7. HasKey(events', Retyped(e, "flaky_test"))
    BY <2>1, <2>3, <2>4, RetypeTwin DEF IInv, UniqueKey, RetypeLoop
  <2>8. RetypeLoop(v)'
    BY <2>2, <2>3, <2>6, <2>7 DEF RetypeLoop
  <2> QED
    BY <2>2, <2>8
<1>7. ASSUME NEW w \in Workers, w # v, Step(w) \/ Raise(w)
      PROVE  Right(v)
  <2>1. /\ pc'[v] = pc[v]
        /\ job'[v] = job[v]
        /\ loop'[v] = loop[v]
        /\ todo'[v] = todo[v]
    BY <1>7 DEF IInv, TypeOK, Step, Begin, ResolveConfig, ResolveOwners, SaveRow, FindRecent,
                RetypeRow, Raise, Advance, locals
  <2> QED
    BY <1>1, <2>1
<1>8. CASE Begin(v) \/ ResolveConfig(v) \/ Raise(v)
  <2>1. pc'[v] \notin {"save", "retype"}
    BY <1>8 DEF IInv, TypeOK, Begin, ResolveConfig, Raise, Route
  <2> QED
    BY <2>1, <1>2
<1>9. CASE (\E p \in Payloads : Deliver(p)) \/ UNCHANGED vars
  BY <1>1, <1>9 DEF Deliver, vars, locals
<1> QED
  BY <1>3, <1>4, <1>5, <1>6, <1>7, <1>8, <1>9 DEF Next, Step

-------------------------------------------------------------------------------
\* The table and the history.

\* What retype excuses was a failure of the check that job[w] saw pass.
LEMMA ExcusedRow ==
    ASSUME IInv, NEW w \in Workers, NEW e \in todo[w], pc[w] = "retype",
           NEW r \in events, DedupeKey(r) = DedupeKey(e),
           ~HasKey(events, Retyped(r, "flaky_test"))
    PROVE  /\ r = e
           /\ r.owner \in TeamsCharged
           /\ JustifiedFlaky(Retyped(r, "flaky_test"))
           /\ \E p \in Seen : /\ Failed(p)
                             /\ IsFailureRow(Retyped(r, "flaky_test"), p)
                             /\ Recovers(job[w], p)
<1>1. /\ events \in SUBSET Row
      /\ e \in Row
      /\ "flaky_test" \in ActivityEventType
      /\ RetypeLoop(w)
      /\ e \in loop[w]
  BY DEF IInv, TypeOK, Loops, RetypeLoop, ActivityEventType
<1>2. DedupeKey(Retyped(r, "flaky_test")) = DedupeKey(Retyped(e, "flaky_test"))
  BY <1>1, RetypedKey
<1>3. ~HasKey(events, Retyped(e, "flaky_test"))
  BY <1>2 DEF HasKey
<1>4. e \in events
  BY <1>1, <1>3 DEF RetypeLoop
<1>5. r = e
  BY <1>4 DEF IInv, UniqueKey, UniqueKeys
<1>6. e.event_type = "build_failure"
  BY <1>1 DEF RetypeLoop
<1>7. e.owner \in TeamsCharged /\ JustifiedFailure(e)
  BY <1>4, <1>6 DEF IInv, RowsJustified
<1>8. PICK p \in Seen : Failed(p) /\ IsFailureRow(e, p)
  BY <1>7 DEF JustifiedFailure
<1>9. job[w] \in Seen /\ is_flaky_candidate(job[w]) /\ job[w] # Malformed
  BY DEF IInv, TasksSeen, CandidatesFlaky
<1>10. Passed(job[w])
  BY <1>9 DEF Passed, OnDefaultBranch, is_flaky_candidate, CompletedOnDefault
<1>11. /\ e.installation_id = job[w].installation_id
       /\ e.repo = job[w].repo
       /\ e.sha = job[w].sha
       /\ e.check_name = job[w].check_name
       /\ e.ts >= job[w].completed_at - CorrelationWindow
  BY <1>1 DEF RetypeLoop
<1>12. /\ e.installation_id = p.installation_id
       /\ e.repo = p.repo
       /\ e.sha = p.sha
       /\ e.check_name = p.check_name
       /\ e.ts = p.completed_at
  BY <1>8 DEF IsFailureRow
<1>13. job[w].completed_at - CorrelationWindow <= e.ts
  BY <1>11
<1>14. Recovers(job[w], p)
  BY <1>10, <1>11, <1>12, <1>13 DEF Recovers
<1>15. IsFailureRow(Retyped(e, "flaky_test"), p)
  BY <1>1, <1>12, RetypedRow DEF IsFailureRow
<1>16. JustifiedFlaky(Retyped(e, "flaky_test"))
  BY <1>8, <1>9, <1>14, <1>15 DEF JustifiedFlaky
<1> QED
  BY <1>5, <1>7, <1>8, <1>14, <1>15, <1>16

LEMMA RowsJustifiedStep ==
    ASSUME IInv, [Next]_vars
    PROVE  RowsJustified'
<1> DEFINE Fair(r) == /\ r.owner \in TeamsCharged
                      /\ r.event_type \in {"build_failure", "flaky_test", "revert"}
                      /\ r.event_type = "build_failure" => JustifiedFailure(r)'
                      /\ r.event_type = "flaky_test" => JustifiedFlaky(r)'
                      /\ r.event_type = "revert" => JustifiedRevert(r)'
<1>1. Seen \subseteq Seen'
  BY SeenGrows DEF IInv
<1>2. \A r \in events : Fair(r)
  BY <1>1, JustificationStays DEF IInv, RowsJustified
<1>3. CASE UNCHANGED events
  BY <1>2, <1>3 DEF RowsJustified
<1>4. ASSUME NEW w \in Workers, SaveRow(w)
      PROVE  RowsJustified'
  <2>1. PICK e \in todo[w] : events' = save_if_new(events, e)
    BY <1>4 DEF SaveRow
  <2>2. events \in SUBSET Row /\ e \in Row
    BY DEF IInv, TypeOK
  <2>3. events' \subseteq events \cup {e}
    BY <2>1, <2>2, SaveKeeps
  <2>4. SaveLoop(w) /\ e \in loop[w]
    BY <1>4 DEF IInv, Loops, SaveLoop, SaveRow
  <2>5. Fair(e)
    BY <1>1, <2>4, JustificationStays DEF SaveLoop
  <2> QED
    BY <1>2, <2>3, <2>5 DEF RowsJustified
<1>5. ASSUME NEW w \in Workers, RetypeRow(w)
      PROVE  RowsJustified'
  <2>1. PICK e \in todo[w] : events' = retype(events, e, "flaky_test")
    BY <1>5 DEF RetypeRow
  <2>2. /\ events \in SUBSET Row
        /\ UniqueKeys(events)
        /\ e \in Row
        /\ "flaky_test" \in ActivityEventType
        /\ pc[w] = "retype"
    BY <1>5 DEF IInv, TypeOK, UniqueKey, ActivityEventType, RetypeRow
  <2>3. CASE events' = events
    BY <1>3, <2>3
  <2>4. ASSUME NEW r \in events,
               DedupeKey(r) = DedupeKey(e),
               ~HasKey(events, Retyped(r, "flaky_test")),
               events' = (events \ {r}) \cup {Retyped(r, "flaky_test")}
        PROVE  RowsJustified'
    <3>1. r.owner \in TeamsCharged /\ JustifiedFlaky(Retyped(r, "flaky_test"))
      BY <2>2, <2>4, ExcusedRow
    <3>2. JustifiedFlaky(Retyped(r, "flaky_test"))'
      BY <1>1, <3>1, JustificationStays
    <3>3. /\ Retyped(r, "flaky_test").owner = r.owner
          /\ Retyped(r, "flaky_test").event_type = "flaky_test"
      BY <2>2, RetypedRow
    <3>4. Fair(Retyped(r, "flaky_test"))
      BY <3>1, <3>2, <3>3
    <3> QED
      BY <1>2, <2>4, <3>4 DEF RowsJustified
  <2> QED
    BY <2>1, <2>2, <2>3, <2>4, RetypeCases
<1> QED
  BY <1>3, <1>4, <1>5 DEF Next, Step, vars, Deliver, Begin, ResolveConfig, ResolveOwners,
                          FindRecent, Raise

LEMMA HistoryStep ==
    ASSUME IInv, [Next]_vars, Routing', Loops'
    PROVE  KindsRight' /\ KeptCharges' /\ ExcusedFailures'
<1>1. /\ Grows(events, events')
      /\ events \in SUBSET Row
      /\ events' \in SUBSET Row
      /\ kept \in SUBSET Row
      /\ excused \in SUBSET Row
  BY TableStep DEF IInv, Routing, TypeOK
<1>2. \A r \in kept :
        /\ r.event_type \in {"build_failure", "revert"}
        /\ HasKey(events', r) \/ HasKey(events', Retyped(r, "flaky_test"))
  BY <1>1, GrowsKeeps DEF IInv, KindsRight, KeptCharges
<1>3. \A r \in excused :
        /\ r.event_type = "build_failure"
        /\ HasKey(events', Retyped(r, "flaky_test"))
  BY <1>1, GrowsKeeps DEF IInv, KindsRight, ExcusedFailures
<1>4. CASE UNCHANGED history
  BY <1>2, <1>3, <1>4 DEF history, KindsRight, KeptCharges, ExcusedFailures
<1>5. ASSUME NEW w \in Workers, SaveRow(w)
      PROVE  KindsRight' /\ KeptCharges' /\ ExcusedFailures'
  <2>1. PICK e \in todo[w] :
          /\ events' = save_if_new(events, e)
          /\ kept' = IF todo[w] = {e} THEN kept \cup loop[w] ELSE kept
    BY <1>5 DEF SaveRow
  <2>2. excused' = excused /\ e \in Row
    BY <1>5 DEF IInv, TypeOK, SaveRow
  <2>3. SaveLoop(w)
    BY <1>5 DEF IInv, Loops, SaveRow
  <2>4. HasKey(events', e)
    BY <1>1, <2>1, <2>2, SaveKeeps
  <2>5. ASSUME todo[w] = {e}, NEW r \in loop[w]
        PROVE  /\ r.event_type \in {"build_failure", "revert"}
               /\ HasKey(events', r) \/ HasKey(events', Retyped(r, "flaky_test"))
    <3>1. r \in Row /\ r.event_type \in {"build_failure", "revert"}
      BY <2>3 DEF IInv, TypeOK, SaveLoop
    <3>2. CASE r = e
      BY <2>4, <3>1, <3>2
    <3>3. CASE r # e
      <4>1. HasKey(events, r) \/ HasKey(events, Retyped(r, "flaky_test"))
        BY <2>3, <2>5, <3>3 DEF SaveLoop
      <4> QED
        BY <1>1, <3>1, <4>1, GrowsKeeps
    <3> QED
      BY <3>2, <3>3
  <2> QED
    BY <1>2, <1>3, <2>1, <2>2, <2>5 DEF KindsRight, KeptCharges, ExcusedFailures
<1>6. ASSUME NEW w \in Workers, RetypeRow(w)
      PROVE  KindsRight' /\ KeptCharges' /\ ExcusedFailures'
  <2>1. PICK e \in todo[w] :
          /\ events' = retype(events, e, "flaky_test")
          /\ excused' = IF todo[w] = {e} THEN excused \cup loop[w] ELSE excused
    BY <1>6 DEF RetypeRow
  <2>2. /\ kept' = kept
        /\ e \in Row
        /\ "flaky_test" \in ActivityEventType
    BY <1>6 DEF IInv, TypeOK, RetypeRow, ActivityEventType
  <2>3. RetypeLoop(w)
    BY <1>6 DEF IInv, Loops, RetypeRow
  <2>4. HasKey(events', Retyped(e, "flaky_test"))
    BY <1>1, <2>1, <2>2, <2>3, RetypeTwin DEF IInv, UniqueKey, RetypeLoop
  <2>5. ASSUME todo[w] = {e}, NEW r \in loop[w]
        PROVE  /\ r.event_type = "build_failure"
               /\ HasKey(events', Retyped(r, "flaky_test"))
    <3>1. r \in Row /\ r.event_type = "build_failure"
      BY <2>3 DEF IInv, TypeOK, RetypeLoop
    <3>2. CASE r = e
      BY <2>4, <3>1, <3>2
    <3>3. CASE r # e
      BY <1>1, <2>3, <2>5, <3>1, <3>3, GrowsKeeps DEF RetypeLoop
    <3> QED
      BY <3>2, <3>3
  <2> QED
    BY <1>2, <1>3, <2>1, <2>2, <2>5 DEF KindsRight, KeptCharges, ExcusedFailures
<1> QED
  BY <1>4, <1>5, <1>6 DEF Next, Step, vars, history, Deliver, Begin, ResolveConfig,
                          ResolveOwners, FindRecent, Raise

-------------------------------------------------------------------------------
\* The theorems.

LEMMA RoutingStep ==
    ASSUME IInv, [Next]_vars
    PROVE  Routing'
<1>1. Routing /\ UniqueKey
  BY DEF IInv, Routing
<1>2. CASE UNCHANGED vars
  BY <1>1, <1>2 DEF vars, Routing, TypeOK, TasksSeen, EventsClassified, CandidatesFlaky, Seen
<1>3. ASSUME NEW w \in Workers, Step(w)
      PROVE  Routing'
  BY <1>1, <1>3, RoutingBegin, RoutingResolveConfig, RoutingResolveOwners, RoutingSaveRow,
     RoutingFindRecent, RoutingRetypeRow DEF Step
<1> QED
  BY <1>1, <1>2, <1>3, RoutingDeliver, RoutingRaise DEF Next

\* The invariant holds at the start.
LEMMA IInvInit == Init => IInv
<1> SUFFICES ASSUME Init
             PROVE  IInv
  OBVIOUS
<1>1. Malformed \in Payload /\ Unassigned \in Teams
  BY ConfigAssumption DEF Payload
<1>2. TypeOK
  BY <1>1 DEF Init, TypeOK
<1>3. TasksSeen /\ EventsClassified /\ CandidatesFlaky /\ Loops
  BY DEF Init, TasksSeen, EventsClassified, CandidatesFlaky, Loops
<1>4. KindsRight /\ UniqueKey /\ RowsJustified /\ KeptCharges /\ ExcusedFailures
  BY DEF Init, KindsRight, UniqueKey, UniqueKeys, RowsJustified, KeptCharges, ExcusedFailures
<1> QED
  BY <1>2, <1>3, <1>4 DEF IInv

\* Every step keeps the invariant.
LEMMA IInvStep == IInv /\ [Next]_vars => IInv'
<1> SUFFICES ASSUME IInv, [Next]_vars
             PROVE  IInv'
  OBVIOUS
<1>1. Routing'
  BY RoutingStep
<1>2. Loops'
  BY <1>1, LoopsStep
<1>3. UniqueKey'
  BY TableStep
<1>4. RowsJustified'
  BY RowsJustifiedStep
<1>5. KindsRight' /\ KeptCharges' /\ ExcusedFailures'
  BY <1>1, <1>2, HistoryStep
<1> QED
  BY <1>1, <1>2, <1>3, <1>4, <1>5 DEF IInv, Routing

\* IInv is an invariant of the pipeline.
THEOREM Invariance == Spec => []IInv
  BY IInvInit, IInvStep, PTL DEF Spec

\* The state of the broker, the tables and the tasks is always well-typed: no value
\* of a wrong type in mergency.yml gets into tenant_config, and no event without an
\* owner into events.
THEOREM TypeCorrect == Spec => []TypeOK
<1>1. IInv => TypeOK
  BY DEF IInv
<1> QED
  BY <1>1, Invariance, PTL

\* Every row of the table records something delivered, charged to a team; a row is
\* a flaky test only if its own check passed on the same commit within the window,
\* although find_recent and retype are two transactions and retype's key leaves
\* check_name out.
THEOREM Justification == Spec => []RowsJustified
<1>1. IInv => RowsJustified
  BY DEF IInv
<1> QED
  BY <1>1, Invariance, PTL

\* What a save loop that ran to its end charged stays on the books of every owner.
THEOREM ChargesKept == Spec => []KeptCharges
<1>1. IInv => KeptCharges
  BY DEF IInv
<1> QED
  BY <1>1, Invariance, PTL

\* What a flaky test task that ran to its end found is excused for every owner.
THEOREM FailuresExcused == Spec => []ExcusedFailures
<1>1. IInv => ExcusedFailures
  BY DEF IInv
<1> QED
  BY <1>1, Invariance, PTL

-------------------------------------------------------------------------------
\* The refinement of the ledger.

LEMMA EntryOf ==
    ASSUME NEW r \in Row
    PROVE  /\ Account(r) \in Installations \X Repos \X Shas \X Names
           /\ r.event_type \in Ledger!Kinds
  BY DEF Row, ActivityEvent, ActivityEventType, Account, Ledger!Kinds

\* Two rows have one entry exactly when they have one key.
LEMMA EntryKey ==
    ASSUME NEW r, NEW s
    PROVE  (<<Account(r), r.event_type>> = <<Account(s), s.event_type>>)
           <=> DedupeKey(r) = DedupeKey(s)
  BY DEF Account, DedupeKey

\* An insert charges, or leaves the ledger as it was.
LEMMA SaveCharges ==
    ASSUME IInv, NEW w \in Workers, SaveRow(w)
    PROVE  Ledger!Charge \/ LedgerOf(events)' = LedgerOf(events)
<1>1. PICK e \in todo[w] : events' = save_if_new(events, e)
  BY DEF SaveRow
<1>2. e \in Row /\ e.event_type \in {"build_failure", "revert"}
  BY DEF IInv, TypeOK, Loops, SaveLoop, SaveRow
<1>3. CASE events' = events
  BY <1>3 DEF LedgerOf
<1>4. CASE events' = events \cup {e}
  <2>1. LedgerOf(events)' = LedgerOf(events) \cup {<<Account(e), e.event_type>>}
    BY <1>4 DEF LedgerOf
  <2>2. /\ Account(e) \in Installations \X Repos \X Shas \X Names
        /\ e.event_type \in Ledger!Kinds \ {"flaky_test"}
    BY <1>2, EntryOf
  <2> QED
    BY <2>1, <2>2 DEF Ledger!Charge
<1> QED
  BY <1>1, <1>3, <1>4 DEF save_if_new

\* A retype excuses, or leaves the ledger as it was.
LEMMA RetypeExcuses ==
    ASSUME IInv, NEW w \in Workers, RetypeRow(w)
    PROVE  Ledger!Excuse \/ LedgerOf(events)' = LedgerOf(events)
<1>1. PICK e \in todo[w] : events' = retype(events, e, "flaky_test")
  BY DEF RetypeRow
<1>2. /\ events \in SUBSET Row
      /\ UniqueKeys(events)
      /\ e \in Row
      /\ e.event_type = "build_failure"
      /\ "flaky_test" \in ActivityEventType
  BY DEF IInv, TypeOK, Loops, RetypeLoop, RetypeRow, UniqueKey, ActivityEventType
<1>3. CASE events' = events
  BY <1>3 DEF LedgerOf
<1>4. ASSUME NEW r \in events,
             DedupeKey(r) = DedupeKey(e),
             ~HasKey(events, Retyped(r, "flaky_test")),
             events' = (events \ {r}) \cup {Retyped(r, "flaky_test")}
      PROVE  Ledger!Excuse
  <2> DEFINE twin == Retyped(r, "flaky_test")
             a == Account(r)
  <2>1. r.event_type = "build_failure"
    BY <1>2, <1>4 DEF DedupeKey
  <2>2. Account(twin) = a /\ twin.event_type = "flaky_test"
    BY <1>2, RetypedRow DEF Account
  <2>3. <<a, "build_failure">> \in LedgerOf(events)
    BY <2>1 DEF LedgerOf
  <2>4. <<a, "flaky_test">> \notin LedgerOf(events)
    BY <1>4, <2>2, EntryKey DEF LedgerOf, HasKey
  <2>5. \A s \in events \ {r} : <<Account(s), s.event_type>> # <<a, "build_failure">>
    BY <1>2, <2>1, EntryKey DEF UniqueKeys
  <2>6. LedgerOf(events)' = (LedgerOf(events) \ {<<a, "build_failure">>}) \cup {<<a, "flaky_test">>}
    <3>1. LedgerOf(events \ {r}) = LedgerOf(events) \ {<<a, "build_failure">>}
      BY <2>1, <2>5 DEF LedgerOf
    <3>2. LedgerOf(events)' = LedgerOf(events \ {r}) \cup {<<Account(twin), twin.event_type>>}
      BY <1>4 DEF LedgerOf
    <3> QED
      BY <2>2, <3>1, <3>2
  <2>7. a \in Installations \X Repos \X Shas \X Names
    BY <1>2, EntryOf
  <2> QED
    BY <2>3, <2>4, <2>6, <2>7 DEF Ledger!Excuse
<1> QED
  BY <1>1, <1>2, <1>3, <1>4, RetypeCases

\* The pipeline implements the ledger: whatever is delivered, repeated, reordered or
\* lost, charges are never dropped or changed, but for a failure excused once.
THEOREM LedgerRefinement == Spec => ImplementsLedger
<1>1. Init => Ledger!Init
  BY DEF Init, Ledger!Init, LedgerOf
<1>2. IInv /\ [Next]_vars => [Ledger!Next]_(LedgerOf(events))
  <2> SUFFICES ASSUME IInv, [Next]_vars
               PROVE  Ledger!Next \/ LedgerOf(events)' = LedgerOf(events)
    OBVIOUS
  <2>1. CASE UNCHANGED events
    BY <2>1 DEF LedgerOf
  <2>2. ASSUME NEW w \in Workers, SaveRow(w) \/ RetypeRow(w)
        PROVE  Ledger!Next \/ LedgerOf(events)' = LedgerOf(events)
    BY <2>2, SaveCharges, RetypeExcuses DEF Ledger!Next
  <2> QED
    BY <2>1, <2>2 DEF Next, Step, vars, Deliver, Begin, ResolveConfig, ResolveOwners,
                      FindRecent, Raise
<1> QED
  BY <1>1, <1>2, Invariance, PTL DEF Spec, ImplementsLedger, Ledger!Spec

-------------------------------------------------------------------------------
\* What a task does with a failed and with a successful run.

LEMMA FailureClassified ==
    ASSUME NEW p \in Payload, Failed(p)
    PROVE  /\ p # Malformed
           /\ classify(p) \in ActivityEvent
           /\ classify(p).event_type = "build_failure"
           /\ IsFailureRow(classify(p), p)
           /\ ~is_flaky_candidate(p)
           /\ Route(p) = "config"
<1>1. p # Malformed /\ p.kind = "check_run" /\ is_failure(p) /\ ~is_flaky_candidate(p)
  BY DEF Failed, OnDefaultBranch, is_failure, is_flaky_candidate, CompletedOnDefault
<1>2. classify(p) = [installation_id |-> p.installation_id,
                     repo            |-> p.repo,
                     sha             |-> p.sha,
                     event_type      |-> "build_failure",
                     owner           |-> NoOwner,
                     ts              |-> p.completed_at,
                     check_name      |-> p.check_name]
  BY <1>1 DEF classify, classify_check_run
<1>3. p \in CheckRunSignal /\ p.completed_at \in Int
  BY <1>1 DEF Payload, Signal, PushSignal, CheckRunSignal, is_failure, CompletedOnDefault
<1>4. classify(p) \in ActivityEvent
  BY <1>2, <1>3 DEF CheckRunSignal, ActivityEvent, ActivityEventType
<1>5. Route(p) = "config"
  BY <1>1, <1>4, ClassifierAssumption DEF Route
<1> QED
  BY <1>1, <1>2, <1>4, <1>5 DEF IsFailureRow

LEMMA SuccessRouted ==
    ASSUME NEW q \in Payload, Passed(q)
    PROVE  Route(q) = "find"
<1>1. q # Malformed /\ q.kind = "check_run" /\ ~is_failure(q) /\ is_flaky_candidate(q)
  BY DEF Passed, OnDefaultBranch, is_failure, is_flaky_candidate, CompletedOnDefault
<1> QED
  BY <1>1 DEF Route, classify, classify_check_run

\* A run of the fan-out of an event differs from it in the owner only.
LEMMA ChargeFields ==
    ASSUME NEW event \in ActivityEvent, NEW e \in Charges(event, Names)
    PROVE  /\ e.installation_id = event.installation_id
           /\ e.repo = event.repo
           /\ e.sha = event.sha
           /\ e.event_type = event.event_type
           /\ e.ts = event.ts
           /\ e.check_name = event.check_name
  BY DEF Charges, ActivityEvent

\* A delivery puts the payload behind all others; a child takes the first.
LEMMA QueueDeliver ==
    ASSUME TypeOK, NEW p \in Payloads, Deliver(p)
    PROVE  /\ Len(queue) \in Nat
           /\ DOMAIN queue = 1..Len(queue)
           /\ DOMAIN queue' = 1..(Len(queue) + 1)
           /\ \A i \in DOMAIN queue : queue'[i] = queue[i]
           /\ queue'[Len(queue) + 1] = p
  BY DEF TypeOK, Deliver

LEMMA QueueBegin ==
    ASSUME TypeOK, NEW w \in Workers, Begin(w)
    PROVE  /\ Len(queue) \in Nat \ {0}
           /\ DOMAIN queue = 1..Len(queue)
           /\ DOMAIN queue' = 1..(Len(queue) - 1)
           /\ \A i \in DOMAIN queue' : queue'[i] = queue[i + 1]
           /\ queue[1] \in Payloads
           /\ job' = [job EXCEPT ![w] = queue[1]]
           /\ pc' = [pc EXCEPT ![w] = Route(queue[1])]
  BY DEF TypeOK, Begin

\* What stays in the queue, and what leaves it.
LEMMA QueuedStep ==
    ASSUME TypeOK, [Next]_vars
    PROVE  /\ \A p \in Payloads : Deliver(p) =>
                 \A q : Queued(q)' <=> (Queued(q) \/ q = p)
           /\ \A w \in Workers : Begin(w) =>
                 \A q : Queued(q) <=> (Queued(q)' \/ q = queue[1])
           /\ (\A p \in Payloads : ~Deliver(p)) /\ (\A w \in Workers : ~Begin(w)) =>
                 queue' = queue
<1>1. ASSUME NEW p \in Payloads, Deliver(p), NEW q
      PROVE  Queued(q)' <=> (Queued(q) \/ q = p)
  <2>1. \A i \in DOMAIN queue' : i \in DOMAIN queue \/ i = Len(queue) + 1
    BY <1>1, QueueDeliver
  <2>2. DOMAIN queue \subseteq DOMAIN queue' /\ Len(queue) + 1 \in DOMAIN queue'
    BY <1>1, QueueDeliver
  <2> QED
    BY <1>1, <2>1, <2>2, QueueDeliver DEF Queued
<1>2. ASSUME NEW w \in Workers, Begin(w), NEW q
      PROVE  Queued(q) <=> (Queued(q)' \/ q = queue[1])
  <2>1. ASSUME Queued(q)
        PROVE  Queued(q)' \/ q = queue[1]
    <3>1. PICK i \in DOMAIN queue : queue[i] = q
      BY <2>1 DEF Queued
    <3>2. CASE i = 1
      BY <3>1, <3>2
    <3>3. CASE i # 1
      <4>1. i - 1 \in DOMAIN queue' /\ (i - 1) + 1 = i
        BY <1>2, <3>3, QueueBegin
      <4> QED
        BY <1>2, <3>1, <4>1, QueueBegin DEF Queued
    <3> QED
      BY <3>2, <3>3
  <2>2. ASSUME Queued(q)'
        PROVE  Queued(q)
    <3>1. PICK i \in DOMAIN queue' : queue'[i] = q
      BY <2>2 DEF Queued
    <3>2. i + 1 \in DOMAIN queue /\ queue[i + 1] = q
      BY <1>2, <3>1, QueueBegin
    <3> QED
      BY <3>2 DEF Queued
  <2>3. 1 \in DOMAIN queue
    BY <1>2, QueueBegin
  <2> QED
    BY <2>1, <2>2, <2>3 DEF Queued
<1>3. ASSUME \A p \in Payloads : ~Deliver(p), \A w \in Workers : ~Begin(w)
      PROVE  queue' = queue
  BY <1>3 DEF Next, Step, vars, ResolveConfig, ResolveOwners, SaveRow, FindRecent, RetypeRow, Raise
<1> QED
  BY <1>1, <1>2, <1>3

\* Every step but Deliver leaves what was seen; tasks that raised stay raised.
LEMMA SeenStep ==
    ASSUME TypeOK, [Next]_vars
    PROVE  /\ \A p \in Payloads : Deliver(p) =>
                 Seen' = Seen \cup {p} /\ delivered[p] < MaxDeliveries
           /\ (\A p \in Payloads : ~Deliver(p)) => Seen' = Seen /\ delivered' = delivered
           /\ raised' = 0 => raised = 0 /\ \A w \in Workers : ~Raise(w)
<1>1. ASSUME NEW p \in Payloads, Deliver(p)
      PROVE  Seen' = Seen \cup {p} /\ delivered[p] < MaxDeliveries
  BY <1>1 DEF TypeOK, Deliver, Seen
<1>2. ASSUME \A p \in Payloads : ~Deliver(p)
      PROVE  Seen' = Seen /\ delivered' = delivered
  BY <1>2 DEF Seen, Next, Step, vars, Begin, ResolveConfig, ResolveOwners, SaveRow,
              FindRecent, RetypeRow, Raise
<1>3. ASSUME raised' = 0
      PROVE  raised = 0 /\ \A w \in Workers : ~Raise(w)
  BY <1>3 DEF TypeOK, Next, Step, vars, Deliver, Begin, ResolveConfig, ResolveOwners, SaveRow,
              FindRecent, RetypeRow, Raise
<1> QED
  BY <1>1, <1>2, <1>3

-------------------------------------------------------------------------------
\* Genuine failures are counted.

LEMMA SavesItsEventStep ==
    ASSUME IInv, SavesItsEvent, [Next]_vars
    PROVE  SavesItsEvent'
<1> SUFFICES ASSUME NEW v \in Workers, pc'[v] = "save"
             PROVE  /\ classify(job'[v]) # NoEvent
                    /\ todo'[v] # {}
                    /\ todo'[v] \subseteq Charges(classify(job'[v]), Names)
  BY DEF SavesItsEvent
<1>1. CASE pc'[v] = pc[v] /\ job'[v] = job[v] /\ todo'[v] = todo[v]
  BY <1>1 DEF SavesItsEvent
<1>2. CASE ResolveOwners(v)
  <2>1. PICK owners \in SUBSET (TeamsCharged \cap Names) :
          /\ owners # {}
          /\ todo' = [todo EXCEPT ![v] = Charges(classify(job[v]), owners)]
    BY <1>2, FanOut DEF IInv, Routing
  <2>2. todo'[v] = Charges(classify(job[v]), owners) /\ job' = job
    BY <1>2, <2>1 DEF IInv, TypeOK, ResolveOwners
  <2> QED
    <3>1. classify(job[v]) # NoEvent
      BY <1>2 DEF IInv, EventsClassified, ResolveOwners
    <3> QED
      BY <2>1, <2>2, <3>1 DEF Charges
<1>3. CASE SaveRow(v)
  <2>1. PICK e \in todo[v] : Advance(v, e)
    BY <1>3 DEF SaveRow
  <2>2. /\ pc[v] = "save"
        /\ job' = job
        /\ todo'[v] = todo[v] \ {e}
        /\ todo[v] # {e}
    BY <1>3, <2>1 DEF IInv, TypeOK, SaveRow, Advance
  <2> QED
    BY <2>1, <2>2 DEF SavesItsEvent
<1>4. CASE Begin(v) \/ ResolveConfig(v) \/ FindRecent(v) \/ RetypeRow(v) \/ Raise(v)
  BY <1>4 DEF IInv, TypeOK, Begin, ResolveConfig, FindRecent, RetypeRow, Raise, Route, Advance
<1>5. ASSUME NEW w \in Workers, w # v, Step(w) \/ Raise(w)
      PROVE  pc'[v] = pc[v] /\ job'[v] = job[v] /\ todo'[v] = todo[v]
  BY <1>5 DEF IInv, TypeOK, Step, Begin, ResolveConfig, ResolveOwners, SaveRow, FindRecent,
              RetypeRow, Raise, Advance, locals
<1>6. CASE (\E p \in Payloads : Deliver(p)) \/ UNCHANGED vars
  BY <1>1, <1>6 DEF Deliver, vars, locals
<1> QED
  BY <1>1, <1>2, <1>3, <1>4, <1>5, <1>6 DEF Next, Step

\* A failure in a child's hands is on its way to the save loop.
LEMMA FailureInHand ==
    ASSUME IInv, NEW w \in Workers, pc[w] # "idle", Failed(job[w])
    PROVE  pc[w] \in {"config", "owners", "save"}
<1>1. job[w] \in Payload
  BY DEF IInv, TypeOK
<1>2. ~is_flaky_candidate(job[w])
  BY <1>1, FailureClassified
<1> QED
  BY <1>2 DEF IInv, TypeOK, CandidatesFlaky

\* The row of a commit whose failures nothing excuses is not retyped.
LEMMA CommitRowStays ==
    ASSUME IInv, ExcusedTogether, [Next]_vars,
           NEW p \in Seen, Failed(p), \A q \in Seen : ~Recovers(q, p),
           HasRowOf(p.installation_id, p.repo, p.sha, {"build_failure"})
    PROVE  HasRowOf(p.installation_id, p.repo, p.sha, {"build_failure"})'
<1>1. PICK s \in events : /\ s.installation_id = p.installation_id
                          /\ s.repo = p.repo
                          /\ s.sha = p.sha
                          /\ s.event_type = "build_failure"
  BY DEF HasRowOf
<1>2. SUFFICES s \in events'
  BY <1>1 DEF HasRowOf
<1>3. CASE UNCHANGED events
  BY <1>3
<1>4. ASSUME NEW w \in Workers, SaveRow(w)
      PROVE  s \in events'
  BY <1>4, SaveKeeps DEF IInv, TypeOK, SaveRow
<1>5. ASSUME NEW w \in Workers, RetypeRow(w)
      PROVE  s \in events'
  <2>1. PICK e \in todo[w] : events' = retype(events, e, "flaky_test")
    BY <1>5 DEF RetypeRow
  <2>2. /\ events \in SUBSET Row
        /\ UniqueKeys(events)
        /\ e \in Row
        /\ "flaky_test" \in ActivityEventType
        /\ pc[w] = "retype"
    BY <1>5 DEF IInv, TypeOK, UniqueKey, ActivityEventType, RetypeRow
  <2>3. CASE events' = events
    BY <2>3
  <2>4. ASSUME NEW r \in events,
               DedupeKey(r) = DedupeKey(e),
               ~HasKey(events, Retyped(r, "flaky_test")),
               events' = (events \ {r}) \cup {Retyped(r, "flaky_test")}
        PROVE  s \in events'
    <3>1. PICK p1 \in Seen : /\ Failed(p1)
                             /\ IsFailureRow(Retyped(r, "flaky_test"), p1)
                             /\ \E q \in Seen : Recovers(q, p1)
      BY <2>2, <2>4, ExcusedRow DEF JustifiedFlaky
    <3>2. SUFFICES ASSUME s = r
                   PROVE  FALSE
      BY <2>4
    <3>3. SameCommit(p1, p)
      BY <1>1, <2>2, <3>1, <3>2, RetypedRow DEF SameCommit, IsFailureRow
    <3>4. PICK q \in Seen : Recovers(q, p1)
      BY <3>1
    <3>5. p \in Failures /\ p1 \in Failures /\ q \in Payloads
      BY <3>1 DEF Failures, Seen
    <3>6. Recovers(q, p)
      BY <3>3, <3>4, <3>5 DEF ExcusedTogether, ExcusesCommitOf
    <3> QED
      BY <3>6
  <2> QED
    BY <2>1, <2>2, <2>3, <2>4, RetypeCases
<1> QED
  BY <1>3, <1>4, <1>5 DEF Next, Step, vars, Deliver, Begin, ResolveConfig, ResolveOwners,
                          FindRecent, Raise

\* The first turn of a failure's save loop puts a row of its commit on the books, or
\* finds one there.
LEMMA SaveCounts ==
    ASSUME IInv, SavesItsEvent, NEW w \in Workers, SaveRow(w), Failed(job[w])
    PROVE  HasRowOf(job[w].installation_id, job[w].repo, job[w].sha, {"build_failure"})'
<1>1. PICK e \in todo[w] : events' = save_if_new(events, e)
  BY DEF SaveRow
<1> DEFINE p == job[w]
<1>2. /\ classify(p) \in ActivityEvent
      /\ classify(p).event_type = "build_failure"
      /\ IsFailureRow(classify(p), p)
  BY FailureClassified DEF IInv, TypeOK
<1>3. e \in Charges(classify(p), Names) /\ job' = job
  BY DEF SavesItsEvent, SaveRow
<1>4. /\ e.installation_id = p.installation_id
      /\ e.repo = p.repo
      /\ e.sha = p.sha
      /\ e.event_type = "build_failure"
  BY <1>2, <1>3, ChargeFields DEF IsFailureRow
<1>5. HasKey(events', e)
  BY <1>1, SaveKeeps DEF IInv, TypeOK
<1>6. PICK r \in events' : DedupeKey(r) = DedupeKey(e)
  BY <1>5 DEF HasKey
<1> QED
  BY <1>3, <1>4, <1>6 DEF HasRowOf, DedupeKey

LEMMA CountedStep ==
    ASSUME CountInv, ExcusedTogether, [Next]_vars
    PROVE  CountedInTheEnd'
<1> DEFINE Counted(p) == HasRowOf(p.installation_id, p.repo, p.sha, {"build_failure"})
<1> SUFFICES ASSUME raised' = 0,
                    NEW p \in Seen', Failed(p), \A q \in Seen' : ~Recovers(q, p)
             PROVE  Queued(p)' \/ InHand(p)' \/ Counted(p)'
  BY DEF CountedInTheEnd
<1> USE DEF CountInv
<1>1. TypeOK /\ Seen \subseteq Seen' /\ raised = 0 /\ \A w \in Workers : ~Raise(w)
  BY SeenGrows, SeenStep DEF IInv
<1>2. p \in Payloads /\ p \in Payload
  BY SeenPayload DEF Seen
<1>3. ASSUME NEW q \in Payloads, Deliver(q)
      PROVE  Queued(p)' \/ InHand(p)' \/ Counted(p)'
  <2>1. CASE p = q
    BY <1>1, <1>3, <2>1, QueuedStep
  <2>2. CASE p # q
    <3>1. p \in Seen
      BY <1>1, <1>3, <2>2, SeenStep
    <3>2. Queued(p) \/ InHand(p) \/ Counted(p)
      BY <1>1, <3>1 DEF CountedInTheEnd
    <3>3. Queued(p) => Queued(p)'
      BY <1>1, <1>3, QueuedStep
    <3>4. /\ InHand(p) => InHand(p)'
          /\ Counted(p) => Counted(p)'
      BY <1>3 DEF Deliver, locals, InHand, HasRowOf
    <3> QED
      BY <3>2, <3>3, <3>4
  <2> QED
    BY <2>1, <2>2
<1>4. ASSUME NEW w \in Workers, Step(w)
      PROVE  Queued(p)' \/ InHand(p)' \/ Counted(p)'
  <2>1. p \in Seen
    BY <1>4 DEF Seen, Step, Begin, ResolveConfig, ResolveOwners, SaveRow, FindRecent, RetypeRow
  <2>2. Queued(p) \/ InHand(p) \/ Counted(p)
    BY <1>1, <2>1 DEF CountedInTheEnd
  <2>3. Counted(p) => Counted(p)'
    BY <1>1, <2>1, CommitRowStays
  <2>4. ASSUME Queued(p)
        PROVE  Queued(p)' \/ InHand(p)'
    <3>1. CASE Begin(w)
      <4>1. Queued(p)' \/ p = queue[1]
        BY <1>1, <2>4, <3>1, QueuedStep
      <4>2. job' = [job EXCEPT ![w] = queue[1]] /\ pc' = [pc EXCEPT ![w] = Route(queue[1])]
        BY <1>1, <3>1, QueueBegin
      <4>3. job'[w] = queue[1] /\ pc'[w] = Route(queue[1])
        BY <1>1, <4>2 DEF TypeOK
      <4>4. Route(p) # "idle"
        BY <1>2, FailureClassified
      <4>5. p = queue[1] => InHand(p)'
        BY <4>3, <4>4 DEF InHand
      <4> QED
        BY <4>1, <4>5
    <3>2. CASE ~Begin(w)
      <4>1. queue' = queue
        BY <1>4, <3>2 DEF Step, ResolveConfig, ResolveOwners, SaveRow, FindRecent, RetypeRow
      <4> QED
        BY <2>4, <4>1 DEF Queued
    <3> QED
      BY <3>1, <3>2
  <2>5. ASSUME InHand(p)
        PROVE  InHand(p)' \/ Counted(p)'
    <3>1. PICK v \in Workers : pc[v] # "idle" /\ job[v] = p
      BY <2>5 DEF InHand
    <3>2. pc[v] \in {"config", "owners", "save"}
      BY <3>1, FailureInHand
    <3>3. CASE UNCHANGED <<pc, job>>
      BY <3>1, <3>3 DEF InHand
    <3>4. CASE w # v /\ Step(w)
      <4>1. pc'[v] = pc[v] /\ job'[v] = job[v]
        BY <1>1, <3>4 DEF TypeOK, Step, Begin, ResolveConfig, ResolveOwners, SaveRow,
                          FindRecent, RetypeRow, Advance
      <4> QED
        BY <3>1, <4>1 DEF InHand
    <3>5. CASE w = v /\ (ResolveConfig(v) \/ ResolveOwners(v))
      <4>1. pc'[v] # "idle" /\ job' = job
        BY <1>1, <3>5 DEF TypeOK, ResolveConfig, ResolveOwners
      <4> QED
        BY <3>1, <4>1 DEF InHand
    <3>6. CASE w = v /\ SaveRow(v)
      <4>1. HasRowOf(job[v].installation_id, job[v].repo, job[v].sha, {"build_failure"})'
        BY <3>1, <3>6, SaveCounts
      <4>2. job' = job
        BY <3>6 DEF SaveRow
      <4> QED
        BY <3>1, <4>1, <4>2
    <3> QED
      BY <1>4, <3>2, <3>3, <3>4, <3>5, <3>6 DEF Step, Begin, FindRecent, RetypeRow
  <2> QED
    BY <2>2, <2>3, <2>4, <2>5
<1>5. CASE UNCHANGED vars
  BY <1>1, <1>5 DEF vars, CountedInTheEnd, Seen, Queued, InHand, HasRowOf
<1> QED
  BY <1>1, <1>3, <1>4, <1>5 DEF Next

\* If the failures of a commit are only ever excused together, a failure whose check
\* never passed counts against somebody once everything is worked off and no task
\* raised: for any number of children, and in whatever order and however often GitHub
\* delivers.
THEOREM GenuineFailuresAreCounted ==
    ASSUME ExcusedTogether
    PROVE  Spec => []GenuineFailuresCounted
<1>1. Init => CountInv
  BY IInvInit DEF Init, CountInv, SavesItsEvent, CountedInTheEnd, Seen
<1>2. CountInv /\ [Next]_vars => CountInv'
  BY IInvStep, SavesItsEventStep, CountedStep DEF CountInv
<1>3. CountInv => GenuineFailuresCounted
  BY DEF CountInv, CountedInTheEnd, GenuineFailuresCounted, Undisturbed, Quiet, Queued, InHand
<1> QED
  BY <1>1, <1>2, <1>3, PTL DEF Spec

-------------------------------------------------------------------------------
\* Failures are excused, and only once on the books, when successes come last.

\* A step that neither delivers nor begins a task leaves queue and tasks in place.
LEMMA PlacesStep ==
    ASSUME TypeOK, [Next]_vars,
           \A p \in Payloads : ~Deliver(p), \A w \in Workers : ~Begin(w)
    PROVE  /\ queue' = queue
           /\ job' = job
           /\ Seen' = Seen
           /\ delivered' = delivered
           /\ \A w \in Workers : pc'[w] # "idle" => pc[w] # "idle"
           /\ \A q : Queued(q)' <=> Queued(q)
           /\ \A q : InHand(q)' => InHand(q)
<1>1. queue' = queue /\ Seen' = Seen /\ delivered' = delivered
  BY QueuedStep, SeenStep
<1>2. job' = job
  BY DEF Next, Step, vars, ResolveConfig, ResolveOwners, SaveRow, FindRecent, RetypeRow,
         Raise, locals
<1>3. \A w \in Workers : pc'[w] # "idle" => pc[w] # "idle"
  BY DEF TypeOK, Next, Step, vars, ResolveConfig, ResolveOwners, SaveRow, FindRecent,
         RetypeRow, Raise, Advance
<1> QED
  BY <1>1, <1>2, <1>3 DEF Queued, InHand

\* A delivered payload is a new one, and leaves the tasks in place.
LEMMA NewDelivery ==
    ASSUME TypeOK, SentOnce, [Next]_vars, NEW x \in Payloads, Deliver(x)
    PROVE  /\ x \notin Seen
           /\ delivered[x] = 0
           /\ delivered' = [delivered EXCEPT ![x] = 1]
           /\ Seen' = Seen \cup {x}
           /\ SentAfter[x] \subseteq Seen
           /\ pc' = pc
           /\ job' = job
           /\ events' = events
           /\ todo' = todo
           /\ \A q : Queued(q)' <=> (Queued(q) \/ q = x)
           /\ \A q : InHand(q)' <=> InHand(q)
<1>1. delivered[x] = 0
  BY DEF TypeOK, SentOnce, Deliver
<1>2. /\ delivered' = [delivered EXCEPT ![x] = 1]
      /\ pc' = pc
      /\ job' = job
      /\ events' = events
      /\ todo' = todo
  BY <1>1 DEF TypeOK, Deliver, locals
<1>3. SentAfter[x] \subseteq Seen
  BY PipelineAssumption DEF Deliver, Seen
<1>4. x \notin Seen
  BY <1>1 DEF Seen
<1> QED
  BY <1>1, <1>2, <1>3, <1>4, QueuedStep, SeenStep DEF InHand

LEMMA HandledOnceStep ==
    ASSUME IInv, HandledOnce, SentOnce, [Next]_vars
    PROVE  HandledOnce'
<1>0. TypeOK
  BY DEF IInv
<1>1. ASSUME NEW x \in Payloads, Deliver(x)
      PROVE  HandledOnce'
  <2>1. x \notin Seen /\ job' = job /\ pc' = pc /\ delivered' = [delivered EXCEPT ![x] = 1]
    BY <1>0, <1>1, NewDelivery
  <2>2. \A p \in Payloads : delivered'[p] <= 1
    BY <1>0, <2>1 DEF TypeOK, HandledOnce
  <2>3. ~Queued(x)
    BY <2>1 DEF IInv, TasksSeen, Queued
  <2>4. ASSUME NEW i \in DOMAIN queue', NEW j \in DOMAIN queue', queue'[i] = queue'[j]
        PROVE  i = j
    <3> DEFINE last == Len(queue) + 1
    <3>1. \A k \in DOMAIN queue' : k = last \/ (k \in DOMAIN queue /\ queue'[k] = queue[k])
      BY <1>0, <1>1, QueueDeliver
    <3>2. queue'[last] = x
      BY <1>0, <1>1, QueueDeliver
    <3>3. \A k \in DOMAIN queue : queue[k] # x
      BY <2>3 DEF Queued
    <3> HIDE DEF last
    <3> QED
      BY <2>4, <3>1, <3>2, <3>3 DEF HandledOnce
  <2>5. ASSUME NEW w \in Workers, pc'[w] # "idle", NEW q, q = job'[w]
        PROVE  ~Queued(q)'
    <3>1. q # x /\ ~Queued(q)
      BY <2>1, <2>5 DEF IInv, TasksSeen, HandledOnce
    <3> QED
      BY <1>0, <1>1, <3>1, QueuedStep
  <2> QED
    BY <2>1, <2>2, <2>4, <2>5 DEF HandledOnce, Queued
<1>2. ASSUME NEW v \in Workers, Begin(v)
      PROVE  HandledOnce'
  <2>1. \A p \in Payloads : delivered'[p] <= 1
    BY <1>2 DEF Begin, HandledOnce
  <2>2. \A i \in DOMAIN queue' : i + 1 \in DOMAIN queue /\ queue'[i] = queue[i + 1] /\ i \in Nat \ {0}
    BY <1>0, <1>2, QueueBegin
  <2>3. \A i, j \in DOMAIN queue' : queue'[i] = queue'[j] => i = j
    <3> SUFFICES ASSUME NEW i \in DOMAIN queue', NEW j \in DOMAIN queue',
                        queue'[i] = queue'[j]
                 PROVE  i = j
      OBVIOUS
    <3>1. i + 1 = j + 1
      BY <2>2 DEF HandledOnce
    <3> QED
      BY <2>2, <3>1
  <2>4. \A i \in DOMAIN queue' : queue'[i] # queue[1]
    <3> SUFFICES ASSUME NEW i \in DOMAIN queue', queue'[i] = queue[1]
                 PROVE  FALSE
      OBVIOUS
    <3>1. 1 \in DOMAIN queue
      BY <1>0, <1>2, QueueBegin
    <3>2. i + 1 = 1
      BY <2>2, <3>1 DEF HandledOnce
    <3> QED
      BY <2>2, <3>2
  <2>5. ASSUME NEW w \in Workers, pc'[w] # "idle", NEW q, q = job'[w]
        PROVE  ~Queued(q)'
    <3>1. CASE w = v
      <4>1. q = queue[1]
        BY <1>0, <1>2, <2>5, <3>1, QueueBegin DEF TypeOK
      <4> QED
        BY <2>4, <4>1 DEF Queued
    <3>2. CASE w # v
      <4>1. pc[w] # "idle" /\ q = job[w]
        BY <1>0, <1>2, <2>5, <3>2, QueueBegin DEF TypeOK
      <4> QED
        BY <1>0, <1>2, <4>1, QueuedStep DEF HandledOnce
    <3> QED
      BY <3>1, <3>2
  <2> QED
    BY <2>1, <2>3, <2>5 DEF HandledOnce, Queued
<1>3. CASE (\A p \in Payloads : ~Deliver(p)) /\ (\A w \in Workers : ~Begin(w))
  BY <1>0, <1>3, PlacesStep DEF HandledOnce, Queued
<1> QED
  BY <1>1, <1>2, <1>3

LEMMA ArrivedInOrderStep ==
    ASSUME TypeOK, ArrivedInOrder, SentOnce, [Next]_vars
    PROVE  ArrivedInOrder'
<1>1. ASSUME NEW x \in Payloads, Deliver(x)
      PROVE  ArrivedInOrder'
  BY <1>1, NewDelivery DEF ArrivedInOrder
<1>2. CASE \A p \in Payloads : ~Deliver(p)
  BY <1>2, SeenStep DEF ArrivedInOrder
<1> QED
  BY <1>1, <1>2

\* A success is no failure.
LEMMA ExcuserPassed ==
    ASSUME NEW p \in Failures, NEW q, ExcusesCommitOf(q, p)
    PROVE  q # p
  BY DEF Failures, ExcusesCommitOf, Recovers, Passed, Failed

LEMMA SuccessesWaitStep ==
    ASSUME IInv, ArrivedInOrder, SuccessesWait, Ordered, [Next]_vars
    PROVE  SuccessesWait'
<1> SUFFICES ASSUME NEW p \in Failures, NEW q \in Seen', ExcusesCommitOf(q, p)
             PROVE  /\ \A i \in DOMAIN queue' :
                          queue'[i] = p => \E j \in DOMAIN queue' : i < j /\ queue'[j] = q
                    /\ InHand(p)' => Queued(q)'
  BY DEF SuccessesWait
<1>0. /\ TypeOK /\ OneAtATime /\ SentOnce
      /\ q # p
      /\ p \in Payloads /\ q \in Payloads
      /\ p \in SentAfter[q]
  BY ExcuserPassed DEF IInv, Ordered, Failures, Seen, ExcusedLast
<1>1. ASSUME NEW x \in Payloads, Deliver(x)
      PROVE  /\ \A i \in DOMAIN queue' :
                   queue'[i] = p => \E j \in DOMAIN queue' : i < j /\ queue'[j] = q
             /\ InHand(p)' => Queued(q)'
  <2> DEFINE last == Len(queue) + 1
  <2>1. /\ last \in DOMAIN queue'
        /\ queue'[last] = x
        /\ \A k \in DOMAIN queue' : k = last \/ (k \in DOMAIN queue /\ k < last)
        /\ \A k \in DOMAIN queue : k \in DOMAIN queue' /\ queue'[k] = queue[k]
    BY <1>0, <1>1, QueueDeliver
  <2> HIDE DEF last
  <2>2. x # p
    BY <1>0, <1>1, NewDelivery, ExcuserPassed DEF ArrivedInOrder
  <2>3. CASE q = x
    BY <1>0, <1>1, <2>1, <2>2, <2>3, QueuedStep
  <2>4. CASE q # x
    <3>1. q \in Seen
      BY <1>0, <1>1, <2>4, NewDelivery
    <3>2. /\ \A i \in DOMAIN queue :
                queue[i] = p => \E j \in DOMAIN queue : i < j /\ queue[j] = q
          /\ InHand(p) => Queued(q)
      BY <3>1 DEF SuccessesWait
    <3>3. InHand(p)' => Queued(q)'
      BY <1>0, <1>1, <3>2, NewDelivery
    <3> QED
      BY <2>1, <2>2, <3>2, <3>3
  <2> QED
    BY <2>3, <2>4
<1>2. ASSUME NEW w \in Workers, Begin(w)
      PROVE  /\ \A i \in DOMAIN queue' :
                   queue'[i] = p => \E j \in DOMAIN queue' : i < j /\ queue'[j] = q
             /\ InHand(p)' => Queued(q)'
  <2>1. q \in Seen
    BY <1>2 DEF Begin, Seen
  <2>2. \A i \in DOMAIN queue :
            queue[i] = p => \E j \in DOMAIN queue : i < j /\ queue[j] = q
    BY <2>1 DEF SuccessesWait
  <2>3. \A i \in DOMAIN queue' :
            /\ i + 1 \in DOMAIN queue
            /\ queue'[i] = queue[i + 1]
            /\ i \in Nat
    BY <1>0, <1>2, QueueBegin
  <2>4. \A j \in DOMAIN queue :
            j \in Nat /\ (1 < j => j - 1 \in DOMAIN queue' /\ queue'[j - 1] = queue[j])
    BY <1>0, <1>2, QueueBegin
  <2>5. ASSUME NEW i \in DOMAIN queue', queue'[i] = p
        PROVE  \E j \in DOMAIN queue' : i < j /\ queue'[j] = q
    <3>1. PICK j \in DOMAIN queue : i + 1 < j /\ queue[j] = q
      BY <2>2, <2>3, <2>5
    <3>2. j - 1 \in DOMAIN queue' /\ queue'[j - 1] = q /\ i < j - 1
      BY <2>3, <2>4, <3>1
    <3> QED
      BY <3>2
  <2>6. ASSUME InHand(p)'
        PROVE  Queued(q)'
    <3>1. queue[1] = p /\ 1 \in DOMAIN queue
      BY <1>0, <1>2, <2>6, QueueBegin DEF InHand, OneAtATime, TypeOK
    <3>2. PICK j \in DOMAIN queue : 1 < j /\ queue[j] = q
      BY <2>2, <3>1
    <3> QED
      BY <2>4, <3>2 DEF Queued
  <2> QED
    BY <2>5, <2>6
<1>3. CASE (\A x \in Payloads : ~Deliver(x)) /\ (\A w \in Workers : ~Begin(w))
  BY <1>0, <1>3, PlacesStep DEF SuccessesWait
<1> QED
  BY <1>1, <1>2, <1>3

\* What a save loop inserts as a failure is the failed run that the task is about.
LEMMA SavedFailure ==
    ASSUME IInv, SavesItsEvent, NEW w \in Workers, pc[w] = "save",
           NEW e \in todo[w], e.event_type = "build_failure"
    PROVE  job[w] \in Failures /\ IsFailureRow(e, job[w]) /\ InHand(job[w])
<1>1. /\ job[w] \in Seen
      /\ job[w] \in Payload
      /\ job[w] # Malformed
      /\ classify(job[w]) # NoEvent
      /\ e \in Charges(classify(job[w]), Names)
  BY DEF IInv, TypeOK, TasksSeen, SavesItsEvent
<1>2. classify(job[w]) \in ActivityEvent
  BY <1>1, ClassifySound
<1>3. classify(job[w]).event_type = "build_failure"
  BY <1>1, <1>2, ChargeFields
<1>4. Failed(job[w]) /\ IsFailureRow(classify(job[w]), job[w])
  BY <1>1, <1>3, ClassifySound
<1>5. IsFailureRow(e, job[w])
  BY <1>1, <1>2, <1>4, ChargeFields DEF IsFailureRow
<1> QED
  BY <1>1, <1>4, <1>5 DEF Failures, Seen, InHand

\* Once a success has left the queue, no failure of its commit is inserted any more.
LEMMA NoLateFailure ==
    ASSUME IInv, SavesItsEvent, SuccessesWait,
           NEW w \in Workers, pc[w] = "save", NEW e \in todo[w],
           e.event_type = "build_failure",
           NEW p \in Failures, NEW q \in Seen, Recovers(q, p),
           e.installation_id = p.installation_id, e.repo = p.repo, e.sha = p.sha
    PROVE  Queued(q)
<1>1. job[w] \in Failures /\ IsFailureRow(e, job[w]) /\ InHand(job[w])
  BY SavedFailure
<1>2. ExcusesCommitOf(q, job[w])
  BY <1>1 DEF ExcusesCommitOf, SameCommit, IsFailureRow
<1> QED
  BY <1>1, <1>2 DEF SuccessesWait

LEMMA ExcuserTakenStep ==
    ASSUME IInv, HandledOnce, ExcuserTaken, SentOnce, [Next]_vars
    PROVE  ExcuserTaken'
<1> DEFINE Taken(r) == \E p, q \in Seen : /\ Failed(p)
                                          /\ IsFailureRow(r, p)
                                          /\ Recovers(q, p)
                                          /\ ~Queued(q)
<1>0. TypeOK /\ Seen \subseteq Seen'
  BY SeenGrows DEF IInv
<1>1. \A q \in Seen : Queued(q)' => Queued(q)
  <2>1. ASSUME NEW x \in Payloads, Deliver(x)
        PROVE  \A q \in Seen : Queued(q)' => Queued(q)
    BY <1>0, <2>1, NewDelivery
  <2>2. ASSUME NEW w \in Workers, Begin(w)
        PROVE  \A q \in Seen : Queued(q)' => Queued(q)
    BY <1>0, <2>2, QueuedStep
  <2>3. CASE (\A x \in Payloads : ~Deliver(x)) /\ (\A w \in Workers : ~Begin(w))
    BY <1>0, <2>3, PlacesStep
  <2> QED
    BY <2>1, <2>2, <2>3
<1>2. \A r : Taken(r) => Taken(r)'
  BY <1>0, <1>1
<1>3. \A r \in events : r.event_type = "flaky_test" => Taken(r)'
  BY <1>2 DEF ExcuserTaken
<1> HIDE DEF Taken
<1>4. SUFFICES \A r \in events' \ events : r.event_type = "flaky_test" => Taken(r)'
  BY <1>3 DEF ExcuserTaken, Taken
<1>5. CASE UNCHANGED events
  BY <1>5
<1>6. ASSUME NEW w \in Workers, SaveRow(w)
      PROVE  \A r \in events' \ events : r.event_type = "flaky_test" => Taken(r)'
  <2>1. PICK e \in todo[w] : events' = save_if_new(events, e)
    BY <1>6 DEF SaveRow
  <2>2. e.event_type # "flaky_test"
    BY <1>6 DEF IInv, Loops, SaveLoop, SaveRow
  <2> QED
    BY <1>0, <2>1, <2>2, SaveKeeps DEF TypeOK
<1>7. ASSUME NEW w \in Workers, RetypeRow(w)
      PROVE  \A r \in events' \ events : r.event_type = "flaky_test" => Taken(r)'
  <2>1. PICK e \in todo[w] : events' = retype(events, e, "flaky_test")
    BY <1>7 DEF RetypeRow
  <2>2. /\ events \in SUBSET Row
        /\ UniqueKeys(events)
        /\ e \in Row
        /\ "flaky_test" \in ActivityEventType
        /\ pc[w] = "retype"
    BY <1>7 DEF IInv, TypeOK, UniqueKey, ActivityEventType, RetypeRow
  <2>3. job[w] \in Seen /\ ~Queued(job[w])
    BY <2>2 DEF IInv, TasksSeen, HandledOnce
  <2>4. ASSUME NEW r \in events,
               DedupeKey(r) = DedupeKey(e),
               ~HasKey(events, Retyped(r, "flaky_test")),
               events' = (events \ {r}) \cup {Retyped(r, "flaky_test")}
        PROVE  Taken(Retyped(r, "flaky_test"))
    BY <2>2, <2>3, <2>4, ExcusedRow DEF Taken
  <2> QED
    BY <1>2, <2>1, <2>2, <2>4, RetypeCases
<1> QED
  BY <1>5, <1>6, <1>7 DEF Next, Step, vars, Deliver, Begin, ResolveConfig, ResolveOwners,
                          FindRecent, Raise

LEMMA KindsApartStep ==
    ASSUME IInv, SavesItsEvent, SuccessesWait, ExcuserTaken, KindsApart, [Next]_vars
    PROVE  KindsApart'
<1>1. CASE UNCHANGED events
  BY <1>1 DEF KindsApart
<1>2. ASSUME NEW w \in Workers, SaveRow(w)
      PROVE  KindsApart'
  <2>1. PICK e \in todo[w] : events' = save_if_new(events, e)
    BY <1>2 DEF SaveRow
  <2>2. pc[w] = "save" /\ events' \subseteq events \cup {e} /\ e.event_type # "flaky_test"
    BY <1>2, <2>1, SaveKeeps DEF IInv, TypeOK, Loops, SaveLoop, SaveRow
  <2>3. ASSUME e.event_type = "build_failure",
               NEW r \in events, r.event_type = "flaky_test", Account(e) = Account(r)
        PROVE  FALSE
    <3>1. PICK p \in Seen, q \in Seen : /\ Failed(p)
                                        /\ IsFailureRow(r, p)
                                        /\ Recovers(q, p)
                                        /\ ~Queued(q)
      BY <2>3 DEF ExcuserTaken
    <3>2. p \in Failures
      BY <3>1 DEF Failures, Seen
    <3>3. e.installation_id = p.installation_id /\ e.repo = p.repo /\ e.sha = p.sha
      BY <2>3, <3>1 DEF Account, IsFailureRow
    <3> QED
      BY <2>2, <2>3, <3>1, <3>2, <3>3, NoLateFailure
  <2> QED
    BY <2>2, <2>3 DEF KindsApart
<1>3. ASSUME NEW w \in Workers, RetypeRow(w)
      PROVE  KindsApart'
  <2>1. PICK e \in todo[w] : events' = retype(events, e, "flaky_test")
    BY <1>3 DEF RetypeRow
  <2>2. /\ events \in SUBSET Row
        /\ UniqueKeys(events)
        /\ e \in Row
        /\ "flaky_test" \in ActivityEventType
        /\ e.event_type = "build_failure"
    BY <1>3 DEF IInv, TypeOK, UniqueKey, ActivityEventType, RetypeRow, Loops, RetypeLoop
  <2>3. CASE events' = events
    BY <1>1, <2>3
  <2>4. ASSUME NEW r \in events,
               DedupeKey(r) = DedupeKey(e),
               events' = (events \ {r}) \cup {Retyped(r, "flaky_test")}
        PROVE  KindsApart'
    <3> DEFINE twin == Retyped(r, "flaky_test")
    <3>1. /\ twin.event_type = "flaky_test"
          /\ Account(twin) = Account(r)
          /\ r.event_type = "build_failure"
      BY <2>2, <2>4, RetypedRow DEF Account, DedupeKey
    <3>2. \A s \in events \ {r} :
            s.event_type = "build_failure" => Account(s) # Account(r)
      BY <2>2, <3>1 DEF UniqueKeys, DedupeKey, Account
    <3> HIDE DEF twin
    <3> QED
      BY <2>4, <3>1, <3>2 DEF KindsApart, twin
  <2> QED
    BY <2>1, <2>2, <2>3, <2>4, RetypeCases
<1> QED
  BY <1>1, <1>2, <1>3 DEF Next, Step, vars, Deliver, Begin, ResolveConfig, ResolveOwners,
                          FindRecent, Raise

\* A turn of the retype loop leaves no failure under the key it is about.
LEMMA RetypeClears ==
    ASSUME IInv, KindsApart, NEW w \in Workers, pc[w] = "retype", NEW e \in todo[w],
           events' = retype(events, e, "flaky_test")
    PROVE  /\ e \notin events'
           /\ \A r \in events' : r.event_type = "build_failure" => r \in events
<1>1. /\ events \in SUBSET Row
      /\ UniqueKeys(events)
      /\ e \in Row
      /\ "flaky_test" \in ActivityEventType
      /\ e.event_type = "build_failure"
  BY DEF IInv, TypeOK, UniqueKey, ActivityEventType, Loops, RetypeLoop
<1>2. CASE HasKey(events, Retyped(e, "flaky_test")) /\ events' = events
  <2>1. PICK r \in events : DedupeKey(r) = DedupeKey(Retyped(e, "flaky_test"))
    BY <1>2 DEF HasKey
  <2>2. r.event_type = "flaky_test" /\ Account(r) = Account(e)
    BY <1>1, <2>1, RetypedRow DEF DedupeKey, Account
  <2> QED
    BY <1>1, <1>2, <2>2 DEF KindsApart
<1>3. CASE ~HasKey(events, e) /\ events' = events
  BY <1>3 DEF HasKey
<1>4. ASSUME NEW r \in events,
             DedupeKey(r) = DedupeKey(e),
             events' = (events \ {r}) \cup {Retyped(r, "flaky_test")}
      PROVE  /\ e \notin events'
             /\ \A s \in events' : s.event_type = "build_failure" => s \in events
  <2>1. Retyped(r, "flaky_test").event_type = "flaky_test"
    BY <1>1, RetypedRow
  <2>2. e \in events => e = r
    BY <1>1, <1>4 DEF UniqueKeys
  <2> QED
    BY <1>1, <1>4, <2>1, <2>2
<1> QED
  BY <1>1, <1>2, <1>3, <1>4, RetypeCases

\* The rows of a failure only get fewer once its excuser has left the queue.
LEMMA FailureRowsShrink ==
    ASSUME IInv, SavesItsEvent, SuccessesWait, KindsApart, [Next]_vars,
           NEW p \in Failures, NEW q \in Seen, Recovers(q, p), ~Queued(q)
    PROVE  FailureRows(p)' \subseteq FailureRows(p)
<1> SUFFICES ASSUME NEW r \in events', r.event_type = "build_failure", IsFailureRow(r, p)
             PROVE  r \in events
  BY DEF FailureRows
<1>1. CASE UNCHANGED events
  BY <1>1
<1>2. ASSUME NEW w \in Workers, SaveRow(w)
      PROVE  r \in events
  <2>1. PICK e \in todo[w] : events' = save_if_new(events, e)
    BY <1>2 DEF SaveRow
  <2>2. pc[w] = "save" /\ events' \subseteq events \cup {e}
    BY <1>2, <2>1, SaveKeeps DEF IInv, TypeOK, SaveRow
  <2>3. CASE r = e
    BY <2>2, <2>3, NoLateFailure DEF IsFailureRow
  <2> QED
    BY <2>2, <2>3
<1>3. ASSUME NEW w \in Workers, RetypeRow(w)
      PROVE  r \in events
  BY <1>3, RetypeClears DEF RetypeRow
<1> QED
  BY <1>1, <1>2, <1>3 DEF Next, Step, vars, Deliver, Begin, ResolveConfig, ResolveOwners,
                          FindRecent, Raise

\* find_recent finds every row of a failure that the success excuses.
LEMMA FindsFailureRows ==
    ASSUME NEW p \in Failures, NEW q, Recovers(q, p)
    PROVE  FailureRows(p) \subseteq PriorFailures(q)
  BY DEF FailureRows, PriorFailures, find_recent, IsFailureRow, Recovers

LEMMA ExcusedInTheEndStep ==
    ASSUME OrderInv, Ordered, [Next]_vars
    PROVE  ExcusedInTheEnd'
<1> DEFINE Due(p, q) == \/ Queued(q)
                        \/ \E w \in Workers : job[w] = q /\ pc[w] = "find"
                        \/ \E w \in Workers : /\ job[w] = q
                                              /\ pc[w] = "retype"
                                              /\ FailureRows(p) \subseteq todo[w]
                        \/ FailureRows(p) = {}
<1> SUFFICES ASSUME raised' = 0, NEW p \in Failures, NEW q \in Seen', Recovers(q, p)
             PROVE  Due(p, q)'
  BY DEF ExcusedInTheEnd
<1>1. /\ TypeOK /\ IInv /\ SentOnce /\ OneAtATime
      /\ raised = 0 /\ \A w \in Workers : ~Raise(w)
  BY SeenStep DEF OrderInv, IInv, Ordered
<1>2. ASSUME NEW x \in Payloads, Deliver(x)
      PROVE  Due(p, q)'
  <2>1. FailureRows(p)' = FailureRows(p)
    BY <1>2 DEF Deliver, FailureRows
  <2>2. CASE q = x
    BY <1>1, <1>2, <2>2, NewDelivery
  <2>3. CASE q # x
    <3>1. q \in Seen
      BY <1>1, <1>2, <2>3, NewDelivery
    <3>2. Due(p, q)
      BY <1>1, <3>1 DEF OrderInv, ExcusedInTheEnd
    <3> QED
      BY <1>1, <1>2, <2>1, <3>2, NewDelivery
  <2> QED
    BY <2>2, <2>3
<1>3. CASE UNCHANGED vars
  <2>1. q \in Seen
    BY <1>3 DEF vars, Seen
  <2>2. Due(p, q)
    BY <1>1, <2>1 DEF OrderInv, ExcusedInTheEnd
  <2> QED
    BY <1>3, <2>2 DEF vars, Queued, FailureRows
<1>4. ASSUME NEW w \in Workers, Step(w)
      PROVE  Due(p, q)'
  <2>1. q \in Seen /\ q \in Payloads /\ q \in Payload
    BY <1>4, SeenPayload DEF Seen, Step, Begin, ResolveConfig, ResolveOwners, SaveRow,
                             FindRecent, RetypeRow
  <2>2. Due(p, q)
    BY <1>1, <2>1 DEF OrderInv, ExcusedInTheEnd
  <2>3. CASE Queued(q) /\ Begin(w)
    <3>1. Queued(q)' \/ q = queue[1]
      BY <1>1, <2>3, QueuedStep
    <3>2. q = queue[1] => job'[w] = q /\ pc'[w] = "find"
      BY <1>1, <2>1, <2>3, QueueBegin, SuccessRouted DEF TypeOK, Recovers
    <3> QED
      BY <3>1, <3>2
  <2>4. CASE Queued(q) /\ ~Begin(w)
    <3>1. queue' = queue
      BY <1>4, <2>4 DEF Step, ResolveConfig, ResolveOwners, SaveRow, FindRecent, RetypeRow
    <3> QED
      BY <2>4, <3>1 DEF Queued
  <2>5. CASE ~Queued(q)
    <3>1. FailureRows(p)' \subseteq FailureRows(p)
      BY <2>1, <2>5, FailureRowsShrink DEF OrderInv
    <3>2. CASE FailureRows(p) = {}
      BY <3>1, <3>2
    <3>3. ASSUME NEW v \in Workers, job[v] = q, pc[v] = "find"
          PROVE  Due(p, q)'
      <4>1. FindRecent(v)
        BY <1>1, <1>4, <3>3 DEF OneAtATime, Step, Begin, ResolveConfig, ResolveOwners,
                                SaveRow, RetypeRow
      <4>2. FailureRows(p) \subseteq PriorFailures(q)
        BY FindsFailureRows
      <4>3. /\ job' = job
            /\ todo'[v] = PriorFailures(q)
            /\ pc'[v] = IF PriorFailures(q) = {} THEN "idle" ELSE "retype"
        BY <1>1, <3>3, <4>1 DEF TypeOK, FindRecent
      <4> QED
        BY <3>1, <3>3, <4>2, <4>3
    <3>4. ASSUME NEW v \in Workers, job[v] = q, pc[v] = "retype",
                 FailureRows(p) \subseteq todo[v]
          PROVE  Due(p, q)'
      <4>1. RetypeRow(v)
        BY <1>1, <1>4, <3>4 DEF OneAtATime, Step, Begin, ResolveConfig, ResolveOwners,
                                SaveRow, FindRecent
      <4>2. PICK e \in todo[v] : events' = retype(events, e, "flaky_test") /\ Advance(v, e)
        BY <4>1 DEF RetypeRow
      <4>3. e \notin events'
        BY <3>4, <4>2, RetypeClears DEF OrderInv
      <4>4. FailureRows(p)' \subseteq todo[v] \ {e}
        BY <3>1, <3>4, <4>3 DEF FailureRows
      <4>5. /\ job' = job
            /\ todo'[v] = todo[v] \ {e}
            /\ pc'[v] = IF todo[v] = {e} THEN "idle" ELSE "retype"
        BY <1>1, <3>4, <4>1, <4>2 DEF TypeOK, RetypeRow, Advance
      <4> QED
        BY <3>4, <4>4, <4>5
    <3> QED
      BY <2>2, <2>5, <3>2, <3>3, <3>4
  <2> QED
    BY <2>3, <2>4, <2>5
<1> QED
  BY <1>1, <1>2, <1>3, <1>4 DEF Next

LEMMA OrderInvariance ==
    ASSUME Ordered
    PROVE  Spec => []OrderInv
<1>1. Init => OrderInv
  <2> SUFFICES ASSUME Init PROVE OrderInv
    OBVIOUS
  <2>1. HandledOnce /\ ArrivedInOrder /\ SavesItsEvent /\ SuccessesWait
    BY DEF Init, HandledOnce, ArrivedInOrder, SavesItsEvent, SuccessesWait, Seen
  <2>2. ExcuserTaken /\ KindsApart /\ ExcusedInTheEnd
    BY DEF Init, ExcuserTaken, KindsApart, ExcusedInTheEnd, Seen
  <2> QED
    BY <2>1, <2>2, IInvInit DEF OrderInv
<1>2. OrderInv /\ [Next]_vars => OrderInv'
  <2> SUFFICES ASSUME OrderInv, [Next]_vars PROVE OrderInv'
    OBVIOUS
  <2>1. IInv' /\ SavesItsEvent'
    BY IInvStep, SavesItsEventStep DEF OrderInv
  <2>2. HandledOnce' /\ ArrivedInOrder' /\ SuccessesWait'
    BY HandledOnceStep, ArrivedInOrderStep, SuccessesWaitStep DEF OrderInv, IInv, Ordered
  <2>3. ExcuserTaken' /\ KindsApart' /\ ExcusedInTheEnd'
    BY ExcuserTakenStep, KindsApartStep, ExcusedInTheEndStep DEF OrderInv, Ordered
  <2> QED
    BY <2>1, <2>2, <2>3 DEF OrderInv
<1> QED
  BY <1>1, <1>2, PTL DEF Spec

\* With one child, nothing delivered twice and every success behind the failures of
\* the commit it excuses, no owner is charged, at the end of any run in which no task
\* raised, for a failure whose check then passed.
THEOREM FlakyFailuresAreExcused ==
    ASSUME Ordered
    PROVE  Spec => []FlakyFailuresExcused
<1>1. OrderInv => FlakyFailuresExcused
  <2> SUFFICES ASSUME OrderInv, Undisturbed,
                      NEW p \in Seen, NEW q \in Seen, Failed(p), Recovers(q, p)
               PROVE  FailureRows(p) = {}
    BY DEF FlakyFailuresExcused, FailureRows
  <2>1. raised = 0 /\ ~Queued(q) /\ \A w \in Workers : pc[w] = "idle"
    BY DEF Undisturbed, Quiet, Queued
  <2>2. p \in Failures
    BY DEF Failures, Seen
  <2> QED
    BY <2>1, <2>2 DEF OrderInv, ExcusedInTheEnd
<1> QED
  BY <1>1, OrderInvariance, PTL

\* Under the same deliveries, and tasks that may raise or die at any time, no owner
\* ever has a failure both counted and excused.
THEOREM CountedOrExcusedAlways ==
    ASSUME Ordered
    PROVE  Spec => []CountedOrExcused
<1>1. OrderInv => CountedOrExcused
  <2> SUFFICES ASSUME OrderInv, NEW r1 \in events, NEW r2 \in events,
                      r1.event_type = "build_failure", r2 = Retyped(r1, "flaky_test")
               PROVE  FALSE
    BY DEF CountedOrExcused
  <2>1. r1 \in Row /\ "flaky_test" \in ActivityEventType
    BY DEF OrderInv, IInv, TypeOK, ActivityEventType
  <2>2. r2.event_type = "flaky_test" /\ Account(r2) = Account(r1)
    BY <2>1, RetypedRow DEF Account
  <2> QED
    BY <2>2 DEF OrderInv, KindsApart
<1> QED
  BY <1>1, OrderInvariance, PTL

===============================================================================
