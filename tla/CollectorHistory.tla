-------------------------- MODULE CollectorHistory --------------------------
(***************************************************************************)
(* Module Collector with history variables that record what the thread did *)
(* and the counters of the code do not: how often an unavailable GPU was   *)
(* retried and for how long it has been unavailable.  They observe the     *)
(* thread and never restrict it.                                           *)
(***************************************************************************)
EXTENDS Collector

VARIABLES
  retries,          \* NVML attempts since the GPU became unavailable
  unavailable_for   \* ticks since the GPU became unavailable, up to a limit

history == << retries, unavailable_for >>

\* No behaviour has more retries than errors and the one that succeeds.
MaxElapsed == (MaxErrors + 1) * RetryInterval

HistoryInit ==
  /\ Init
  /\ retries = 0
  /\ unavailable_for = 0

RecordStep ==
  /\ retries' = IF gpu_available' THEN 0
                ELSE IF ~ gpu_available /\ pc = "top" /\ pc' = "nvml"
                     THEN retries + 1 ELSE retries
  /\ unavailable_for' = IF gpu_available' THEN 0 ELSE unavailable_for

RecordTick ==
  /\ unavailable_for' = IF gpu_available \/ unavailable_for = MaxElapsed
                        THEN unavailable_for ELSE unavailable_for + 1
  /\ UNCHANGED retries

HistoryNext ==
  \/ Thread /\ RecordStep
  \/ Tick /\ RecordTick
  \/ DriverChanges /\ UNCHANGED history
  \/ DriverRecovers /\ UNCHANGED history
  \/ RequestStop /\ UNCHANGED history
  \/ LinkChanges /\ UNCHANGED history
  \/ LinkDrains /\ UNCHANGED history

\* Recording restricts no step, so the fairness of module Collector stands.
HistorySpec == HistoryInit /\ [][HistoryNext]_<< vars, history >> /\ Fairness

-----------------------------------------------------------------------------
(***************************************************************************)
(* Back-off limits the load on a failing driver over any length of time:   *)
(* the first retry may come at once, and every further one is a whole      *)
(* retry interval after the one before, also when the thread is woken      *)
(* every poll interval in between (collector.c:315-324).                   *)
(***************************************************************************)
RetryRate ==
  retries > 0 => (retries - 1) * RetryInterval <= unavailable_for
=============================================================================
