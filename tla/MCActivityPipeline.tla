-------------------------- MODULE MCActivityPipeline --------------------------
(***************************************************************************)
(* Values for the constants of ActivityPipeline.  One installation and one *)
(* repository carry everything: rows of two installations or repositories  *)
(* never share a key.                                                      *)
(***************************************************************************)
EXTENDS ActivityPipeline

CONSTANTS i1, r1, s1, s2, s3, payments, search, unassigned, alice, unit, lint, f1, f2, w1, w2

MCInstallations == {i1}
MCRepos == {r1}
MCShas == {s1, s2, s3}
MCNames == {payments, search, unassigned, alice}
MCTeams == {payments, search, unassigned}
MCChecks == {unit, lint}
MCBranches == {"main", "feature"}
MCFiles == {f1, f2}

\* s1 touches both files, the others one.
MCCommitFiles == [s \in MCShas |-> IF s = s1 THEN {f1, f2} ELSE {f1}]

\* Two readings: both files owned by teams, or one by a person and one by nobody.
OwnedByTeams ==
    [f \in MCFiles |-> IF f = f1 THEN {<<"TEAM", payments>>} ELSE {<<"TEAM", search>>}]
OwnedByPeople ==
    [f \in MCFiles |-> IF f = f1 THEN {<<"USERNAME", alice>>} ELSE {}]
TeamsOnly == {OwnedByTeams}
TeamsOrPeople == {OwnedByTeams, OwnedByPeople}

\* mergency.yml: absent, naming a default team, or with a value the table refuses.
Naming(team) ==
    [rolling_window_days |-> 7, default_team |-> team,
     max_events_per_window |-> Unset, warn_threshold_pct |-> Unset]
NoFileOnly == {NoFile}
AnyFile == {NoFile, NotAMapping, Naming(payments), Naming(Mistyped)}

-------------------------------------------------------------------------------

Run(check, sha, conclusion, at) ==
    [kind |-> "check_run", installation_id |-> i1, repo |-> r1, sha |-> sha,
     check_name |-> check, action |-> "completed", conclusion |-> conclusion,
     head_branch |-> "main", default_branch |-> "main", completed_at |-> at]

Commit(sha, message) ==
    [sha |-> sha, message |-> message, timestamp |-> 50, files |-> {f1}]

Push(ref, commits) ==
    [kind |-> "push", installation_id |-> i1, repo |-> r1, ref |-> ref,
     default_branch |-> "main", commits |-> commits]

\* The window is 24: the success of the one check comes as late as it may, and that of
\* the other just too late.
UnitFails == Run(unit, s1, "failure", 10)
UnitFailsAgain == Run(unit, s1, "failure", 12)
LintFails == Run(lint, s1, "timed_out", 11)
OtherFails == Run(unit, s2, "failure", 10)
UnitPasses == Run(unit, s1, "success", 34)
OtherPassesLate == Run(unit, s2, "success", 35)
UnitCancelled == Run(unit, s1, "cancelled", 20)
OnFeature == [UnitFails EXCEPT !.head_branch = "feature"]
Unfinished == [UnitFails EXCEPT !.completed_at = NoTime]
TwoReverts ==
    Push(<<"heads", "main">>,
         <<Commit(s1, "plain"), Commit(s2, "revert_mention"), Commit(s3, "revert_subject")>>)
RevertElsewhere == Push(<<"heads", "feature">>, <<Commit(s1, "revert_subject")>>)

AtAnyTime == [p \in Payloads |-> {}]

\* A check passes again only after it failed.
InOrder == [p \in Payloads |-> {q \in Payloads : Failed(q) /\ Recovers(p, q)}]

\* What the task ignores comes first, in a fixed order.
Noise == <<Malformed, OnFeature, Unfinished, UnitCancelled, RevertElsewhere>>
IsNoise(p) == \E i \in 1..Len(Noise) : Noise[i] = p
NoiseFirst ==
    [p \in Payloads |->
        IF IsNoise(p)
        THEN {Noise[i] : i \in {j \in 1..Len(Noise) : \E k \in 1..Len(Noise) : j < k /\ Noise[k] = p}}
        ELSE InOrder[p] \cup {q \in Payloads : IsNoise(q)}]

OneCheck == {UnitFails, UnitPasses}
TwoChecks == {UnitFails, LintFails, UnitPasses}
Mixed == {UnitFails, UnitFailsAgain, OtherFails, UnitCancelled, UnitPasses, OtherPassesLate, TwoReverts,
          Malformed, OnFeature, Unfinished, RevertElsewhere}

===============================================================================
