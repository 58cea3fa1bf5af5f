---------------------------- MODULE MCPollCycle -----------------------------
(***************************************************************************)
(* A poll cycle for TLC: what it collects and publishes (Telemetry), the   *)
(* score of every combination of signals (ScoreSignals), and the score     *)
(* over time (ScoreHistory), with the default thresholds and penalties of  *)
(* types.h.                                                                *)
(*                                                                         *)
(* The three parts share no variable and no property speaks of two of      *)
(* them, so only one of them takes steps in a behaviour: TLC explores the  *)
(* sum of the three state spaces and not their product.                    *)
(***************************************************************************)
EXTENDS Telemetry, ScoreSignals, ScoreHistory

\* The default configuration with a window of 20 polls, the shortest in which
\* the 95th percentile can differ from the maximum, and one sample in five
\* required, so that a window can be scored early.
MCcfg ==
  [window_s |-> 20, poll_interval_s |-> 1, min_samples_absolute |-> 2,
   min_sample_ratio |-> 20, max_median_step_s |-> 1,
   temp_p95_warn_c |-> 80, temp_p95_bad_c |-> 90,
   hbm_temp_p95_warn_c |-> 85, hbm_temp_p95_bad_c |-> 95,
   clk_std_warn_mhz |-> 120, power_penalty_max |-> 3,
   ecc_sbe_rate_warn_per_hour |-> 100, ecc_sbe_penalty |-> 5,
   ecc_dbe_penalty |-> 25, retired_pages_warn |-> 1, retired_pages_bad |-> 10,
   retired_pages_pen_warn |-> 5, retired_pages_pen_bad |-> 15,
   row_remap_failure_penalty |-> 25, pcie_link_degraded_penalty |-> 10,
   pcie_width_degraded_penalty |-> 15, perf_drop_warn |-> 3,
   perf_drop_bad |-> 7, perf_drop_severe |-> 12, perf_drop_pen_warn |-> 5,
   perf_drop_pen_bad |-> 15, perf_drop_pen_severe |-> 30]

ASSUME ShippedPenalties == TiersOrdered /\ EveryPenaltyCounts /\ CriticalPenalties

\* Values at and above each threshold, a missing statistic, a link that is not
\* known, and a probe result of 0.
MCDomain ==
  [temp_p95 |-> {80, 90, 91}, hbm_p95 |-> {NaN, 85, 95, 96},
   clk_std |-> {120, 180, 600}, saturated |-> {0, 50}, sbe_rate |-> {100, 101},
   dbe |-> {FALSE, TRUE}, retired |-> {0, 9, 10}, remap_failures |-> {0, 1},
   gen |-> {3, 4}, gen_max |-> {4}, width |-> {0, 8, 16}, width_max |-> {16},
   baseline_ok |-> {FALSE, TRUE}, probe_available |-> {FALSE, TRUE},
   probe_stale |-> {FALSE, TRUE}, drop |-> {3, 7, 12, 13, 100}]

\* The signals of a GPU with nothing to complain of, and how many may deviate
\* from them at a time: enough for penalties of more than 100 points.
Normal ==
  [temp_p95 |-> 80, hbm_p95 |-> 85, clk_std |-> 120, saturated |-> 0,
   sbe_rate |-> 100, dbe |-> FALSE, retired |-> 0, remap_failures |-> 0,
   gen |-> 4, gen_max |-> 4, width |-> 16, width_max |-> 16,
   baseline_ok |-> TRUE, probe_available |-> TRUE, probe_stale |-> FALSE,
   drop |-> 3]
MaxDeviating == 5
FewDeviate == Cardinality({s \in Signals : x[s] # Normal[s]}) <= MaxDeviating

\* Where a window begins: empty, or as 18 regular polls leave it, of which the
\* first k were hot and the first j before a double-bit error (j = 0: none).
Warm == 18
WarmWindow(k, j) ==
  [i \in 1 .. Warm |->
     [t |-> i, temp |-> IF i <= k THEN 85 ELSE 70,
      dbe |-> IF j \in 1 .. i - 1 THEN 1 ELSE 0]]

WarmInit ==
  \E k \in 0 .. 2, j \in 0 .. 2 :
    /\ now = Warm
    /\ window = WarmWindow(k, j)
    /\ dbe = IF j = 0 THEN 0 ELSE 1
    /\ dbe_times = {j} \ {0}
    /\ reload_time = -1
    /\ scored = score_gpu(completeness_gate(window), SignalsOf(window, TRUE))

\* The empty window is followed for the first polls, the warm one through the
\* filling of the ring and past it.
EarlyOrLate == now \notin 6 .. Warm - 1

Bounds == FewDeviate /\ EarlyOrLate

VARIABLE part   \* which of the three parts this behaviour is about

MCInit ==
  /\ part \in {"telemetry", "signals", "history"}
  /\ PollInit /\ (part # "telemetry" => dcgm_available = FALSE)
  /\ SignalsInit
  /\ HistoryInit \/ (part = "history" /\ WarmInit)

MCNext ==
  /\ \/ part = "telemetry" /\ PollNext /\ UNCHANGED << signalVars, historyVars >>
     \/ part = "signals" /\ SignalsNext /\ UNCHANGED << pollVars, historyVars >>
     \/ part = "history" /\ HistoryNext /\ UNCHANGED << pollVars, signalVars >>
  /\ part' = part

MCSpec == MCInit /\ [][MCNext]_<< pollVars, signalVars, historyVars, part >>
=============================================================================
