------------------------------ MODULE Scoring ------------------------------
(***************************************************************************)
(* scorer.c as operators: the statistics over the ring, the completeness   *)
(* gate, and score_gpu.  A window is the sequence of samples that module   *)
(* Ring shows a scan of the ring to visit, oldest first.                   *)
(*                                                                         *)
(* The code computes in doubles.  Here a point is divided into Unit parts, *)
(* temperatures, clocks and rates are integers, ratios are hundredths.     *)
(***************************************************************************)
EXTENDS Integers, Sequences, FiniteSets, FiniteSetsExt

CONSTANTS
  cfg,           \* gpu_config_t: the fields of the scorer, by their names
  StackSamples   \* the size of stack_buf in ring_p95, scaled down

ASSUME StackAssumption == StackSamples \in Nat

Unit == 100
(***************************************************************************)
(* What cfg_table and config_validate let through: penalties of 0 to 100   *)
(* points, thresholds that are not negative, a positive one for the clock, *)
(* and levels of the perf/W drop in their order.                           *)
(***************************************************************************)
ASSUME ConfigAssumption ==
  /\ {cfg.power_penalty_max, cfg.ecc_sbe_penalty, cfg.ecc_dbe_penalty,
      cfg.retired_pages_pen_warn, cfg.retired_pages_pen_bad,
      cfg.row_remap_failure_penalty, cfg.pcie_link_degraded_penalty,
      cfg.pcie_width_degraded_penalty, cfg.perf_drop_pen_warn,
      cfg.perf_drop_pen_bad, cfg.perf_drop_pen_severe} \subseteq 0 .. 100
  /\ {cfg.temp_p95_warn_c, cfg.temp_p95_bad_c, cfg.hbm_temp_p95_warn_c,
      cfg.hbm_temp_p95_bad_c, cfg.ecc_sbe_rate_warn_per_hour,
      cfg.retired_pages_warn, cfg.retired_pages_bad, cfg.perf_drop_warn,
      cfg.perf_drop_bad, cfg.perf_drop_severe} \subseteq Nat
  /\ cfg.clk_std_warn_mhz \in 1 .. 1000
  /\ cfg.temp_p95_warn_c < cfg.temp_p95_bad_c
  /\ cfg.hbm_temp_p95_warn_c < cfg.hbm_temp_p95_bad_c
  /\ cfg.perf_drop_warn < cfg.perf_drop_bad
  /\ cfg.perf_drop_bad < cfg.perf_drop_severe
  /\ cfg.retired_pages_warn <= cfg.retired_pages_bad

NaN == -1      \* a statistic that could not be computed; real ones are not negative

-----------------------------------------------------------------------------
(* Ring statistics.                                                        *)

\* Element k of a sequence after qsort, counting from 1.
Sorted(s, k) ==
  CHOOSE v \in {s[i] : i \in DOMAIN s} :
    /\ Cardinality({i \in DOMAIN s : s[i] < v}) < k
    /\ k <= Cardinality({i \in DOMAIN s : s[i] <= v})

\* (Mutated form: one is added to a quotient rounded down.)
Rank_RoundsUp(n) == (95 * n) \div 100 + 1

\* (int)ceil(0.95 * count), kept within 1 .. count.
Rank(n) ==
  LET r == (95 * n + 99) \div 100
  IN IF r < 1 THEN 1 ELSE IF r > n THEN n ELSE r

\* More samples than stack_buf holds are copied to the heap, if malloc gives
\* memory.
ring_p95(s, memory) ==
  IF s = << >> \/ (Len(s) > StackSamples /\ ~ memory) THEN NaN
  ELSE Sorted(s, Rank(Len(s)))

\* Twice the median, for its even case averages two values.
TwiceMedian(s) ==
  LET n == Len(s)
  IN IF n % 2 = 1 THEN 2 * Sorted(s, n \div 2 + 1)
     ELSE Sorted(s, n \div 2) + Sorted(s, n \div 2 + 1)

-----------------------------------------------------------------------------
\* The samples' timestamps come from CLOCK_MONOTONIC and never decrease.
Steps(w) == [i \in 1 .. Len(w) - 1 |-> w[i + 1].t - w[i].t]

Expected == cfg.window_s \div cfg.poll_interval_s

\* (Mutated form: the median step is not looked at.)
completeness_gate_NoMedian(w) ==
  /\ Len(w) >= cfg.min_samples_absolute
  /\ 100 * Len(w) >= cfg.min_sample_ratio * Expected
  /\ Len(w) >= 2

completeness_gate(w) ==
  /\ Len(w) >= cfg.min_samples_absolute
  /\ 100 * Len(w) >= cfg.min_sample_ratio * Expected
  /\ Len(w) >= 2
  /\ TwiceMedian(Steps(w)) <= 2 * cfg.max_median_step_s

\* (Mutated form: the two newest samples are compared.)
dbe_active_Adjacent(w) == w[Len(w)].dbe > w[Len(w) - 1].dbe

\* The volatile counter of the newest sample against that of the oldest.
dbe_active(w) == w[Len(w)].dbe > w[1].dbe

-----------------------------------------------------------------------------
(* score_gpu.  x holds the signals: the statistics of the window, the      *)
(* fields of gpu_state_t, and the perf/W inputs.                           *)

\* The drop, in hundredths of the baseline, that a probe result of 0 amounts to.
Whole == 100

Above(v, threshold) == v # NaN /\ v > threshold
Degraded(v, max) == v > 0 /\ max > 0 /\ v < max

\* The perf/W drop is computed from a valid baseline (baseline_ok: and one whose
\* perf_w_mean is a number, which is then positive, state.c:158) and a fresh probe
\* result that is a number other than 0 (scorer.c:302).
PerfComparable(x) ==
  /\ x.baseline_ok
  /\ x.probe_available
  /\ ~ x.probe_stale
  /\ x.drop < Whole

\* 15 points times the relative excess, at most 15.
ClockPenalty(x) ==
  Min({15 * Unit, (15 * Unit * (x.clk_std - cfg.clk_std_warn_mhz))
                    \div cfg.clk_std_warn_mhz})

Rule(reason, fires, penalty) == [reason |-> reason, fires |-> fires, penalty |-> penalty]

\* (Mutated form: the penalties of the two levels are swapped.)
ThermalRules_Swapped(x) ==
  << Rule("TEMP_BAD", Above(x.temp_p95, cfg.temp_p95_bad_c), 10 * Unit),
     Rule("TEMP_WARN", /\ ~ Above(x.temp_p95, cfg.temp_p95_bad_c)
                       /\ Above(x.temp_p95, cfg.temp_p95_warn_c), 25 * Unit) >>

ThermalRules(x) ==
  << Rule("TEMP_BAD", Above(x.temp_p95, cfg.temp_p95_bad_c), 25 * Unit),
     Rule("TEMP_WARN", /\ ~ Above(x.temp_p95, cfg.temp_p95_bad_c)
                       /\ Above(x.temp_p95, cfg.temp_p95_warn_c), 10 * Unit),
     Rule("HBM_TEMP_BAD", Above(x.hbm_p95, cfg.hbm_temp_p95_bad_c), 25 * Unit),
     Rule("HBM_TEMP_WARN", /\ ~ Above(x.hbm_p95, cfg.hbm_temp_p95_bad_c)
                           /\ Above(x.hbm_p95, cfg.hbm_temp_p95_warn_c), 10 * Unit) >>

\* (Mutated form: the saturated fraction is computed in integers.)
LoadRules_IntegerFraction(x) ==
  << Rule("CLK_STD_HIGH", Above(x.clk_std, cfg.clk_std_warn_mhz), ClockPenalty(x)),
     Rule("POWER_SATURATION", x.saturated > 0,
          cfg.power_penalty_max * Unit * (x.saturated \div 100)) >>

LoadRules(x) ==
  << Rule("CLK_STD_HIGH", Above(x.clk_std, cfg.clk_std_warn_mhz), ClockPenalty(x)),
     Rule("POWER_SATURATION", x.saturated > 0,
          (cfg.power_penalty_max * Unit * x.saturated) \div 100) >>

MemoryRules(x) ==
  << Rule("ECC_SBE_HIGH", x.sbe_rate > cfg.ecc_sbe_rate_warn_per_hour,
          cfg.ecc_sbe_penalty * Unit),
     Rule("ECC_DBE_ACTIVE", x.dbe, cfg.ecc_dbe_penalty * Unit),
     Rule("RETIRED_PAGES_BAD", x.retired >= cfg.retired_pages_bad,
          cfg.retired_pages_pen_bad * Unit),
     Rule("RETIRED_PAGES_WARN", /\ x.retired < cfg.retired_pages_bad
                                /\ x.retired >= cfg.retired_pages_warn,
          cfg.retired_pages_pen_warn * Unit),
     Rule("ROW_REMAP", x.remap_failures > 0, cfg.row_remap_failure_penalty * Unit) >>

LinkRules(x) ==
  << Rule("PCIE_GEN", Degraded(x.gen, x.gen_max), cfg.pcie_link_degraded_penalty * Unit),
     Rule("PCIE_WIDTH", Degraded(x.width, x.width_max),
          cfg.pcie_width_degraded_penalty * Unit) >>

PerfRules(x) ==
  << Rule("PERF_DROP_SEVERE", PerfComparable(x) /\ x.drop > cfg.perf_drop_severe,
          cfg.perf_drop_pen_severe * Unit),
     Rule("PERF_DROP_BAD", /\ PerfComparable(x)
                           /\ x.drop <= cfg.perf_drop_severe
                           /\ x.drop > cfg.perf_drop_bad,
          cfg.perf_drop_pen_bad * Unit),
     Rule("PERF_DROP_WARN", /\ PerfComparable(x)
                            /\ x.drop <= cfg.perf_drop_bad
                            /\ x.drop > cfg.perf_drop_warn,
          cfg.perf_drop_pen_warn * Unit),
     Rule("PROBE_STALE", x.probe_stale, 0) >>

\* What the rules of a category cost; no category has more than five.
Cost(rules, k) ==
  IF k \in DOMAIN rules /\ rules[k].fires THEN rules[k].penalty ELSE 0
Total(rules) ==
  Cost(rules, 1) + Cost(rules, 2) + Cost(rules, 3) + Cost(rules, 4) + Cost(rules, 5)

FiredIn(rules) == {rules[k] : k \in {j \in DOMAIN rules : rules[j].fires}}

Charged(x) ==
  Total(ThermalRules(x)) + Total(LoadRules(x)) + Total(MemoryRules(x))
    + Total(LinkRules(x)) + Total(PerfRules(x))

Fired(x) ==
  FiredIn(ThermalRules(x)) \cup FiredIn(LoadRules(x)) \cup FiredIn(MemoryRules(x))
    \cup FiredIn(LinkRules(x)) \cup FiredIn(PerfRules(x))

Clamp(score) == Max({0, score})

Classify(score) ==
  IF score >= 85 * Unit THEN "HEALTHY"
  ELSE IF score >= 70 * Unit THEN "MONITOR"
  ELSE IF score >= 50 * Unit THEN "DEGRADING"
  ELSE "DECOMMISSION"

Classes == {"NA", "HEALTHY", "MONITOR", "DEGRADING", "DECOMMISSION"}

\* The gate withholds the score; otherwise every rule that fires is charged.
score_gpu(telemetry_ok, x) ==
  IF ~ telemetry_ok
  THEN [telemetry_ok |-> FALSE, score |-> 0, classification |-> "NA",
        reasons |-> {"TELEMETRY_INCOMPLETE"}]
  ELSE LET score == Clamp(100 * Unit - Charged(x))
       IN [telemetry_ok |-> TRUE, score |-> score, classification |-> Classify(score),
           reasons |-> {r.reason : r \in Fired(x)}]
=============================================================================
