--------------------------- MODULE EventClassifier ----------------------------
(***************************************************************************)
(* The two activity signals, domain/event_classifier.py, and               *)
(* domain/ownership_resolver.py.  A payload the parsers raise on is        *)
(* Malformed; any other payload is the signal it parses to.  The text of a *)
(* commit message is reduced to the two patterns the classifier looks for, *)
(* and "cancelled" stands for every conclusion but those named.            *)
(***************************************************************************)
EXTENDS EventStore, Sequences

CONSTANTS
    Branches,
    Files,
    NoTime,         \* completed_at: null
    NoEvent,        \* classify returned None
    Malformed       \* a payload without a field the parser reads

CheckRunSignal ==
    [kind            : {"check_run"},
     installation_id : Installations,
     repo            : Repos,
     sha             : Shas,
     check_name      : Checks,
     action          : {"created", "completed", "rerequested"},
     conclusion      : {"none", "success", "failure", "timed_out", "cancelled"},
     head_branch     : Branches,
     default_branch  : Branches,
     completed_at    : Int \cup {NoTime}]

PushCommit ==
    [sha       : Shas,
     message   : {"plain", "revert_subject", "revert_mention"},
     timestamp : Int,
     files     : SUBSET Files]

PushSignal ==
    [kind            : {"push"},
     installation_id : Installations,
     repo            : Repos,
     ref             : {"heads", "tags"} \X Branches,
     default_branch  : Branches,
     commits         : Seq(PushCommit)]

Signal == CheckRunSignal \cup PushSignal
Payload == Signal \cup {Malformed}

ASSUME ClassifierAssumption ==
    /\ NoTime \notin Int
    /\ NoEvent \notin ActivityEvent
    /\ Malformed \notin Signal

-------------------------------------------------------------------------------

\* The completed-on-the-default-branch part the two check_run tests share.
CompletedOnDefault(signal) ==
    /\ signal.action = "completed"
    /\ signal.head_branch = signal.default_branch
    /\ signal.completed_at # NoTime

MutFailsOnFailureOnly(signal) ==
    /\ signal.kind = "check_run"
    /\ CompletedOnDefault(signal)
    /\ signal.conclusion = "failure"

\* _classify_check_run returns an event.
is_failure(signal) ==
    /\ signal.kind = "check_run"
    /\ CompletedOnDefault(signal)
    /\ signal.conclusion \in {"failure", "timed_out"}

is_flaky_candidate(signal) ==
    /\ signal.kind = "check_run"
    /\ CompletedOnDefault(signal)
    /\ signal.conclusion = "success"

classify_check_run(signal) ==
    IF is_failure(signal)
    THEN [installation_id |-> signal.installation_id,
          repo            |-> signal.repo,
          sha             |-> signal.sha,
          event_type      |-> "build_failure",
          owner           |-> NoOwner,
          ts              |-> signal.completed_at,
          check_name      |-> signal.check_name]
    ELSE NoEvent

MutLooksAtSubject(message) == message = "revert_subject"

looks_like_revert(message) == message \in {"revert_subject", "revert_mention"}

\* Where the commits of a push to the default branch revert something.
RevertsIn(signal) ==
    {i \in DOMAIN signal.commits :
        /\ signal.ref = <<"heads", signal.default_branch>>
        /\ looks_like_revert(signal.commits[i].message)}

First(indices) == CHOOSE i \in indices : \A j \in indices : i <= j

\* Only the first revert commit of a push becomes an event.
classify_push(signal) ==
    IF RevertsIn(signal) # {}
    THEN LET commit == signal.commits[First(RevertsIn(signal))]
         IN  [installation_id |-> signal.installation_id,
              repo            |-> signal.repo,
              sha             |-> commit.sha,
              event_type      |-> "revert",
              owner           |-> NoOwner,
              ts              |-> commit.timestamp,
              check_name      |-> NoCheck]
    ELSE NoEvent

classify(signal) ==
    IF signal.kind = "check_run" THEN classify_check_run(signal) ELSE classify_push(signal)

-------------------------------------------------------------------------------

\* One reading of CODEOWNERS: the typed entries each path matches.
OwnerType == {"TEAM", "USERNAME", "EMAIL"}
Codeowners == [Files -> SUBSET (OwnerType \X Names)]

MutKeepIndividuals(changed_files, read, default_team) ==
    LET named == {n \in Names : \E f \in changed_files, t \in OwnerType : <<t, n>> \in read[f][f]}
    IN  IF named = {} THEN {default_team} ELSE named

\* read[f] is the version of CODEOWNERS that owners_for returned for path f: the
\* cached one may expire between two paths of one loop.
resolve_owners(changed_files, read, default_team) ==
    LET teams == {n \in Names : \E f \in changed_files : <<"TEAM", n>> \in read[f][f]}
    IN  IF teams = {} THEN {default_team} ELSE teams

\* replace(event, owner=owner), for each owner the failure is charged to.
Charges(event, owners) == {[event EXCEPT !.owner = o] : o \in owners}

===============================================================================
