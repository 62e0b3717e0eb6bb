---------------------------- MODULE MergencyConfig ----------------------------
(***************************************************************************)
(* domain/config_resolver.py: what `_parse` makes of a repository's        *)
(* mergency.yml.  A file is absent, not a YAML mapping (a syntax error or   *)
(* another document), or a mapping whose entries may be unset or hold a    *)
(* value of the wrong type, which the parser passes through unchecked and  *)
(* the NOT NULL, typed columns of tenant_config refuse.                    *)
(***************************************************************************)
EXTENDS Integers

CONSTANTS
    Teams,         \* strings default_team can be
    Unassigned,    \* the default default_team
    NoFile, NotAMapping,
    Unset,         \* an entry the mapping does not have
    Mistyped       \* a value the column refuses: null, a list, a string for a number

ASSUME ConfigAssumption ==
    /\ Unassigned \in Teams
    /\ {Unset, Mistyped} \cap (Teams \cup Int) = {}
    /\ Unset # Mistyped

Entry(values) == values \cup {Unset, Mistyped}

Mapping ==
    [rolling_window_days   : Entry(Int),
     default_team          : Entry(Teams),
     max_events_per_window : Entry(Int),
     warn_threshold_pct    : Entry(Int)]

ConfigFile == {NoFile, NotAMapping} \cup Mapping

\* The row of tenant_config; installation_id is the index of the table.
TenantConfig ==
    [rolling_window_days   : Int,
     default_team          : Teams,
     max_events_per_window : Int,
     warn_threshold_pct    : Int]

DefaultConfig ==
    [rolling_window_days   |-> 28,
     default_team          |-> Unassigned,
     max_events_per_window |-> 5,
     warn_threshold_pct    |-> 50]

MutParseStrictly(file) ==
    IF file \in {NoFile, NotAMapping} THEN DefaultConfig ELSE file

\* `data.get(field, default)`, and `budget.get` for the two nested entries.
parse_config(file) ==
    [f \in DOMAIN DefaultConfig |->
        IF file \in {NoFile, NotAMapping} \/ file[f] = Unset
        THEN DefaultConfig[f]
        ELSE file[f]]

\* The upsert goes through: every value has the type of its column.
Storable(config) == \A f \in DOMAIN config : config[f] # Mistyped

===============================================================================
