--------------------------- MODULE MCIncidentReports ---------------------------
(***************************************************************************)
(* Values for the constants of IncidentReports: two installations with a   *)
(* repository of the same name, and three commits, s1 before s2 before s3. *)
(***************************************************************************)
EXTENDS IncidentReports

CONSTANTS i1, i2, r1, s1, s2, s3, payments, search, unassigned, alice, f1, f2, w1, w2

MCInstallations == {i1, i2}
MCRepos == {r1}
MCShas == {s1, s2, s3}
MCNames == {payments, search, unassigned, alice}
MCTeams == {payments, search, unassigned}
MCFiles == {f1, f2}

\* i1 comes, goes and comes back; of i2 GitHub also sends what is of no use.
MCLifecycle ==
    [i \in MCInstallations |->
        IF i = i1 THEN <<"created", "suspend", "unsuspend", "deleted">>
        ELSE <<"created", "other", "malformed">>]

MCCommitsBetween ==
    [range \in MCShas \X MCShas |->
        CASE range = <<s1, s2>> -> <<s2>>
          [] range = <<s1, s3>> -> <<s2, s3>>
          [] range = <<s2, s3>> -> <<s3>>
          [] OTHER -> <<>>]

\* s3 touches both files, the others one.
MCCommitFiles == [s \in MCShas |-> IF s = s3 THEN {f1, f2} ELSE {f1}]

OwnedByTeams ==
    [f \in MCFiles |-> IF f = f1 THEN {<<"TEAM", payments>>, <<"USERNAME", alice>>}
                       ELSE {<<"TEAM", search>>}]
OwnedByNobody == [f \in MCFiles |-> {}]
TeamsOrNobody == {OwnedByTeams, OwnedByNobody}

Naming(team) ==
    [rolling_window_days |-> 7, default_team |-> team,
     max_events_per_window |-> Unset, warn_threshold_pct |-> Unset]
SearchOrMistyped == {Naming(search), Naming(Mistyped)}

Of(installation, base, head, time) ==
    [installation_id |-> installation, repo |-> r1, base_sha |-> base, head_sha |-> head,
     occurred_at |-> time]

\* A range, one of its commits at another time, a range the wrong way round, and a
\* report of the other tenant.
MCReports == {Of(i1, s1, s3, 10), Of(i1, s3, s3, NoTime), Of(i1, s3, s1, 10), Of(i2, s1, s2, 10)}

===============================================================================
