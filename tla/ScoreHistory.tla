---------------------------- MODULE ScoreHistory ----------------------------
(***************************************************************************)
(* The scorer over time: polls that succeed push a sample into the window  *)
(* and score it, polls that fail leave a gap, double-bit errors happen     *)
(* between polls, and a reload of the driver resets the volatile counter.  *)
(* A tick is a poll interval.  The signals that do not come from the       *)
(* window are left at their harmless values.                               *)
(***************************************************************************)
EXTENDS Scoring

CONSTANTS
  Temps,      \* the temperatures a sample can have
  MaxTime,    \* bound: ticks in one behaviour
  MaxEvents   \* bound: double-bit errors in one behaviour

ASSUME HistoryAssumption ==
  /\ Temps \subseteq Nat
  /\ MaxTime \in Nat
  /\ MaxEvents \in Nat
  \* cfg_table: a window is never shorter than a poll interval.
  /\ cfg.poll_interval_s \in Nat \ {0}
  /\ cfg.window_s \in Nat /\ cfg.window_s >= cfg.poll_interval_s
  /\ cfg.max_median_step_s \in Nat

VARIABLES
  now,
  window,       \* what the ring holds, oldest first
  dbe,          \* the driver's volatile double-bit error counter
  dbe_times,    \* when double-bit errors happened
  reload_time,  \* when the driver was last reloaded, -1 for never
  scored        \* gpu_score_result_t of the last poll that succeeded

historyVars == << now, window, dbe, dbe_times, reload_time, scored >>

Time == 0 .. MaxTime
ScoredSample == [t : Time, temp : Temps, dbe : 0 .. MaxEvents]

\* The ring has a slot for every poll of the window.
Window == INSTANCE Window WITH Sample <- ScoredSample, Capacity <- Expected

\* The signals of a window.
SignalsOf(w, memory) ==
  [temp_p95 |-> ring_p95([i \in 1 .. Len(w) |-> w[i].temp], memory), hbm_p95 |-> 0,
   clk_std |-> 0, saturated |-> 0, sbe_rate |-> 0, dbe |-> dbe_active(w),
   retired |-> 0, remap_failures |-> 0, gen |-> 0, gen_max |-> 0, width |-> 0,
   width_max |-> 0, baseline_ok |-> FALSE, probe_available |-> FALSE,
   probe_stale |-> FALSE, drop |-> 0]

HistoryInit ==
  /\ now = 0
  /\ window = << >>
  /\ dbe = 0
  /\ dbe_times = {}
  /\ reload_time = -1
  /\ scored = score_gpu(FALSE,
               SignalsOf(<< [t |-> 0, temp |-> 0, dbe |-> 0] >>, TRUE))

\* ring_push and score_gpu of a poll that succeeded.
Poll(temp) ==
  /\ now < MaxTime
  /\ now' = now + 1
  /\ Window!Push([t |-> now', temp |-> temp, dbe |-> dbe])
  /\ \E memory \in BOOLEAN :
       scored' = score_gpu(completeness_gate(window'), SignalsOf(window', memory))
  /\ UNCHANGED << dbe, dbe_times, reload_time >>

\* A poll interval in which nothing is pushed: the poll failed, or the GPU is
\* unavailable and backing off.
NoPoll ==
  /\ now < MaxTime
  /\ now' = now + 1
  /\ UNCHANGED << window, dbe, dbe_times, reload_time, scored >>

DoubleBitError ==
  /\ Cardinality(dbe_times) < MaxEvents
  /\ now \notin dbe_times
  /\ dbe' = dbe + 1
  /\ dbe_times' = dbe_times \cup {now}
  /\ UNCHANGED << now, window, reload_time, scored >>

DriverReload ==
  /\ reload_time = -1
  /\ dbe' = 0
  /\ reload_time' = now
  /\ UNCHANGED << now, window, dbe_times, scored >>

HistoryNext == (\E temp \in Temps : Poll(temp)) \/ NoPoll \/ DoubleBitError \/ DriverReload

HistorySpec == HistoryInit /\ [][HistoryNext]_historyVars

-----------------------------------------------------------------------------
Oldest == window[1].t
Newest == window[Len(window)].t

\* A double-bit error that both ends of the window have on record between
\* them: after the oldest sample was taken and before the newest was.
DbeInWindow == \E t \in dbe_times : Oldest <= t /\ t < Newest

ReloadInWindow == Oldest <= reload_time /\ reload_time < Newest

(***************************************************************************)
(* As long as the driver is not reloaded within the window, a double-bit   *)
(* error is reported for as long as it is inside the window and not after  *)
(* it has left it, whatever polls are missing (scorer.c:257-264).          *)
(***************************************************************************)
DbeReportedExactly ==
  scored.telemetry_ok /\ ~ ReloadInWindow =>
    ("ECC_DBE_ACTIVE" \in scored.reasons <=> DbeInWindow)

(***************************************************************************)
(* The p95 that the thermal penalties look at is the nearest-rank one: the *)
(* least temperature of the window that at least 95 of 100 samples do not  *)
(* exceed, so that from 20 samples on a single hot one is passed over      *)
(* (scorer.c:63-97; malloc permitting).                                    *)
(***************************************************************************)
P95IsNearestRank ==
  window # << >> =>
    LET temps == {window[i].temp : i \in DOMAIN window}
        AtMost(v) == Cardinality({i \in DOMAIN window : window[i].temp <= v})
        p95 == ring_p95([i \in DOMAIN window |-> window[i].temp], TRUE)
    IN /\ 100 * AtMost(p95) >= 95 * Len(window)
       /\ \A v \in temps : v < p95 => 100 * AtMost(v) < 95 * Len(window)

(***************************************************************************)
(* Telemetry that comes too slowly is not scored: when the score was       *)
(* computed, at least half of the steps of its window were no longer than  *)
(* max_median_step_s (scorer.c:118-138).                                   *)
(***************************************************************************)
ScoredMeansRegular ==
  scored.telemetry_ok =>
    2 * Cardinality({i \in 1 .. Len(window) - 1 :
                       window[i + 1].t - window[i].t <= cfg.max_median_step_s})
      >= Len(window) - 1
=============================================================================
