---------------------------- MODULE ScoreSignals ----------------------------
(***************************************************************************)
(* score_gpu over every combination of signals, on both sides of every     *)
(* threshold.  From one poll to the next one signal changes; a poll that   *)
(* changes several is several such steps.                                  *)
(***************************************************************************)
EXTENDS Scoring

CONSTANT Domain   \* for every signal, the values it takes

VARIABLES
  telemetry_ok,   \* the verdict of the completeness gate
  x,              \* the signals
  out             \* gpu_score_result_t of the last poll

signalVars == << telemetry_ok, x, out >>

Signals == {"temp_p95", "hbm_p95", "clk_std", "saturated", "sbe_rate", "dbe",
            "retired", "remap_failures", "gen", "gen_max", "width", "width_max",
            "baseline_ok", "probe_available", "probe_stale", "drop"}

\* The values a signal can have: a statistic can be missing, a fraction has at
\* most 100 hundredths (a drop is 0 when the probe did better than the baseline
\* and all of it when the result is 0), and a link at most 16 lanes.
Possible(s) ==
  IF s \in {"temp_p95", "hbm_p95", "clk_std"} THEN Nat \cup {NaN}
  ELSE IF s \in {"saturated", "drop"} THEN 0 .. 100
  ELSE IF s \in {"gen", "gen_max", "width", "width_max"} THEN 0 .. 16
  ELSE IF s \in {"dbe", "baseline_ok", "probe_available", "probe_stale"} THEN BOOLEAN
  ELSE Nat

DomainTyped == \A s \in Signals : Domain[s] # {} /\ Domain[s] \subseteq Possible(s)

ASSUME DomainAssumption == DOMAIN Domain = Signals /\ DomainTyped

\* How bad a value is.  For a link more is better, and an unknown link (0) is
\* not charged; a drop counts only when it can be computed.
Badness(s, y) ==
  IF s \in {"gen", "width"} THEN (IF y[s] = 0 THEN 0 ELSE 16 - y[s])
  ELSE IF s \in {"dbe"} THEN (IF y[s] THEN 1 ELSE 0)
  ELSE y[s]

\* The measured quantities, as opposed to what can be compared with what.
Measured == {"temp_p95", "hbm_p95", "clk_std", "saturated", "sbe_rate", "dbe",
             "retired", "remap_failures", "gen", "width", "drop"}

SignalsInit ==
  /\ telemetry_ok = FALSE
  /\ x = [s \in Signals |-> CHOOSE v \in Domain[s] : TRUE]
  /\ out = score_gpu(FALSE, x)

\* The gate opens or closes.
TelemetryChanges ==
  /\ telemetry_ok' = ~ telemetry_ok
  /\ x' = x
  /\ out' = score_gpu(telemetry_ok', x)

SignalChanges(s) ==
  /\ \E v \in Domain[s] \ {x[s]} : x' = [x EXCEPT ![s] = v]
  /\ telemetry_ok' = telemetry_ok
  /\ out' = score_gpu(telemetry_ok, x')

SignalsNext == TelemetryChanges \/ \E s \in Signals : SignalChanges(s)

SignalsSpec == SignalsInit /\ [][SignalsNext]_signalVars

-----------------------------------------------------------------------------
Reasons ==
  {"TEMP_WARN", "TEMP_BAD", "HBM_TEMP_WARN", "HBM_TEMP_BAD", "CLK_STD_HIGH",
   "POWER_SATURATION", "ECC_SBE_HIGH", "ECC_DBE_ACTIVE", "PERF_DROP_WARN",
   "PERF_DROP_BAD", "PERF_DROP_SEVERE", "RETIRED_PAGES_WARN",
   "RETIRED_PAGES_BAD", "ROW_REMAP", "PCIE_GEN", "PCIE_WIDTH",
   "TELEMETRY_INCOMPLETE", "PROBE_STALE"}

\* What the properties need of the penalties, which the shipped ones have and
\* config_validate does not look at.
TiersOrdered ==
  /\ cfg.retired_pages_pen_warn <= cfg.retired_pages_pen_bad
  /\ cfg.perf_drop_pen_warn <= cfg.perf_drop_pen_bad
  /\ cfg.perf_drop_pen_bad <= cfg.perf_drop_pen_severe

EveryPenaltyCounts ==
  0 \notin {cfg.power_penalty_max, cfg.ecc_sbe_penalty, cfg.ecc_dbe_penalty,
            cfg.retired_pages_pen_warn, cfg.retired_pages_pen_bad,
            cfg.row_remap_failure_penalty, cfg.pcie_link_degraded_penalty,
            cfg.pcie_width_degraded_penalty, cfg.perf_drop_pen_warn,
            cfg.perf_drop_pen_bad, cfg.perf_drop_pen_severe}

CriticalPenalties ==
  /\ cfg.ecc_dbe_penalty > 15
  /\ cfg.row_remap_failure_penalty > 15
  /\ cfg.perf_drop_pen_severe > 15

\* The probe's result, which was positive, is 0.
FallsToZero == x.drop < Whole /\ x'.drop = Whole

(***************************************************************************)
(* A measurement that gets worse never raises the score: the tiers of      *)
(* scorer.c:170-339 replace one another downwards only, the scaled         *)
(* penalties grow with what they measure, and the clamp keeps the order.   *)
(*                                                                         *)
(* Excepted is a perf/W that falls to 0: state.c:203 accepts the result    *)
(* and scorer.c:302 does not compare it, so that the worst drop of all     *)
(* costs nothing and lifts the penalty of a smaller one.                   *)
(***************************************************************************)
WorseNeverHelps ==
  [][/\ telemetry_ok /\ telemetry_ok' /\ ~ FallsToZero
     /\ \E s \in Measured : Badness(s, x') > Badness(s, x)
     => out'.score <= out.score]_signalVars

(***************************************************************************)
(* The reasons account for the score: without one other than a stale probe *)
(* the score is full, and with one it is not, so that a dashboard never    *)
(* shows points lost for no reason or a reason that cost nothing.          *)
(***************************************************************************)
ReasonsExplainScore ==
  telemetry_ok =>
    (out.score = 100 * Unit <=> out.reasons \subseteq {"PROBE_STALE"})

(***************************************************************************)
(* With the shipped penalties, active corruption, failed row remapping, a  *)
(* severe perf/W drop that the code compares (not one to 0, which          *)
(* scorer.c:302 passes over) and a GPU or memory that is too hot each keep *)
(* a GPU from being called healthy, whatever its other signals say.        *)
(***************************************************************************)
CriticalNeverHealthy ==
  telemetry_ok
  /\ (x.dbe \/ x.remap_failures > 0 \/ x.temp_p95 > cfg.temp_p95_bad_c
      \/ x.hbm_p95 > cfg.hbm_temp_p95_bad_c
      \/ (PerfComparable(x) /\ x.drop > cfg.perf_drop_severe))
  => out.classification # "HEALTHY"
=============================================================================
