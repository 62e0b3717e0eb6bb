---------------------------- MODULE MCBudgetHistory ----------------------------
(***************************************************************************)
(* Values for the constants of BudgetHistory.  A day is two units long, so *)
(* that a window may begin within one.                                     *)
(***************************************************************************)
EXTENDS BudgetHistory

CONSTANTS i1, i2, r1, s1, s2, payments, unit, lint

MCInstallations == {i1, i2}
MCRepos == {r1}
MCShas == {s1, s2}
MCNames == {payments}
MCChecks == {unit, lint}

At(installation, sha, type, ts, check) ==
    [installation_id |-> installation, repo |-> r1, sha |-> sha, event_type |-> type,
     owner |-> payments, ts |-> ts, check_name |-> check]

\* Failures of two checks of one commit, which share a key, on two days; a revert and
\* an incident of another commit; and a failure of another tenant.
UnitFails == At(i1, s1, "build_failure", 1, unit)
LintFails == At(i1, s1, "build_failure", 2, lint)
Reverted == At(i1, s2, "revert", 3, NoCheck)
Incident == At(i1, s2, "incident", 1, NoCheck)
Elsewhere == At(i2, s1, "build_failure", 1, unit)

MCArrivals == {UnitFails, LintFails, Reverted, Incident, Elsewhere}

Window(days) ==
    [rolling_window_days |-> days, default_team |-> payments, max_events_per_window |-> 2,
     warn_threshold_pct |-> 50]
MCConfigs == {Window(1), Window(2)}

\* A row, excused, for the dashboard.
OneFailure == {UnitFails}
OneConfig == {Window(2)}

===============================================================================
