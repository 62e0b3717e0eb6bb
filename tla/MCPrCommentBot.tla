---------------------------- MODULE MCPrCommentBot ----------------------------
(***************************************************************************)
(* Values for the constants of PrCommentBot: one installation with four    *)
(* repositories whose mergency.yml differ; r4's has a value of the wrong   *)
(* type.  The pull request is one of r1.  The clock starts at day 0.       *)
(***************************************************************************)
EXTENDS PrCommentBot

CONSTANTS i1, r1, r2, r3, r4, s1, payments, search, unit, f1, w1, w2

MCInstallations == {i1}
MCRepos == {r1, r2, r3, r4}
MCShas == {s1}
MCNames == {payments, search}
MCTeams == {payments, search}
MCChecks == {unit}
MCBranches == {"main"}
MCFiles == {f1}

\* Two teams own the file.
Owners == [f \in MCFiles |-> {<<"TEAM", payments>>, <<"TEAM", search>>}]
MCCodeownersOf == [r \in MCRepos |-> Owners]

\* A single failure leaves a team of r1 at the threshold of 50 percent, until the next
\* day; r2 has no budget at all, and by the limit of r3 nobody is short.
MCConfigOf ==
    [r \in MCRepos |->
        CASE r = r1 -> [rolling_window_days |-> 0, default_team |-> search,
                        max_events_per_window |-> 2, warn_threshold_pct |-> Unset]
          [] r = r2 -> [rolling_window_days |-> 1, default_team |-> payments,
                        max_events_per_window |-> 0, warn_threshold_pct |-> 0]
          [] r = r3 -> [rolling_window_days |-> 0, default_team |-> payments,
                        max_events_per_window |-> 3, warn_threshold_pct |-> 0]
          [] r = r4 -> [rolling_window_days |-> 0, default_team |-> Mistyped,
                        max_events_per_window |-> 1, warn_threshold_pct |-> 0]]

Pull(repo) == [installation_id |-> i1, repo |-> repo, number |-> 1]
OnePull == {Pull(r1)}
OneFile == [p \in Pulls |-> {{f1}}]

\* A team's budget is of all repositories: a failure in r2 is one of its failures.
Failure(repo) ==
    [installation_id |-> i1, repo |-> repo, sha |-> s1, event_type |-> "build_failure",
     owner |-> payments, ts |-> 0, check_name |-> unit]
Charged(repo) == [kind |-> "charge", subject |-> Failure(repo)]
Excused(repo) == [kind |-> "excuse", subject |-> Failure(repo)]

OwnFailure == {Charged(r1)}
Strict == {Charged(r2), Charged(r4)}
Larger == {Charged(r1), Charged(r3), Excused(r3)}

===============================================================================
