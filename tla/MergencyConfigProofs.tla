------------------------- MODULE MergencyConfigProofs -------------------------
(***************************************************************************)
(* What parse_config makes of a mergency.yml.                              *)
(***************************************************************************)
EXTENDS MergencyConfig, TLAPS

\* mergency.yml parses to a row of tenant_config whenever the columns take it.
LEMMA StorableConfig ==
    ASSUME NEW file \in ConfigFile, Storable(parse_config(file))
    PROVE  parse_config(file) \in TenantConfig
<1> DEFINE fields == {"rolling_window_days", "default_team",
                      "max_events_per_window", "warn_threshold_pct"}
<1>1. DOMAIN DefaultConfig = fields
  BY DEF DefaultConfig
<1>2. DefaultConfig \in TenantConfig
  BY ConfigAssumption DEF DefaultConfig, TenantConfig
<1>3. CASE file \in {NoFile, NotAMapping}
  <2>1. parse_config(file) = [f \in fields |-> DefaultConfig[f]]
    BY <1>1, <1>3 DEF parse_config
  <2> QED
    BY <2>1, ConfigAssumption DEF TenantConfig, DefaultConfig
<1>4. CASE file \notin {NoFile, NotAMapping}
  <2>1. file \in Mapping
    BY <1>4 DEF ConfigFile
  <2>2. parse_config(file) =
            [f \in fields |-> IF file[f] = Unset THEN DefaultConfig[f] ELSE file[f]]
    BY <1>1, <1>4 DEF parse_config
  <2>3. \A f \in fields : parse_config(file)[f] # Mistyped
    BY <2>2 DEF Storable
  <2> QED
    BY <2>1, <2>2, <2>3, <1>2, ConfigAssumption DEF Mapping, Entry, TenantConfig, DefaultConfig
<1> QED
  BY <1>3, <1>4

===============================================================================
