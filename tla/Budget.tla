-------------------------------- MODULE Budget --------------------------------
(***************************************************************************)
(* The arithmetic of an error budget: domain/budget_calculator.py, the     *)
(* threshold of domain/pr_budget_evaluator.py and                          *)
(* domain/severity_resolver.py.  remaining_pct is a quotient that is only  *)
(* ever compared, so a comparison is cleared of its fraction here; the     *)
(* rounding of the floating-point quotient is not modelled.                *)
(***************************************************************************)
EXTENDS EventStore, MergencyConfig

CONSTANT NoConfig       \* no row of tenant_config

COUNTED_EVENT_TYPES == {"build_failure", "revert", "incident"}

FallbackConfig == [window_days |-> 28, limit |-> 5]

BudgetStatus == [owner : Names, window_days : Int, limit : Int, consumed : Nat]

\* The two values status_for takes from the tenant's row, or falls back to.
window_and_limit(row) ==
    IF row = NoConfig THEN FallbackConfig
    ELSE [window_days |-> row.rolling_window_days, limit |-> row.max_events_per_window]

status_for(owner, terms, consumed) ==
    [owner |-> owner, window_days |-> terms.window_days, limit |-> terms.limit,
     consumed |-> consumed]

MutStrictlyBelow(status, pct) ==
    IF status.limit <= 0 \/ status.consumed >= status.limit
    THEN 0 < pct
    ELSE (status.limit - status.consumed) * 100 < pct * status.limit

\* remaining_pct <= pct, where remaining_pct is
\* max(0, (limit - consumed) / limit * 100), and 0 for a limit that is not positive.
remaining_at_most(status, pct) ==
    IF status.limit <= 0 \/ status.consumed >= status.limit
    THEN 0 <= pct
    ELSE (status.limit - status.consumed) * 100 <= pct * status.limit

severity_for(status) == IF remaining_at_most(status, 0) THEN "breach" ELSE "warn"

worst_severity(statuses) ==
    IF \E s \in statuses : severity_for(s) = "breach" THEN "breach" ELSE "warn"

===============================================================================
