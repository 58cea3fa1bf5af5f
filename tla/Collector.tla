------------------------------ MODULE Collector ------------------------------
(***************************************************************************)
(* One poll thread of collector.c: the error counters, the back-off of an  *)
(* unavailable GPU, the loss of a GPU, and what the thread publishes to    *)
(* the HTTP child.  Poll threads share nothing but the socket to the       *)
(* child and the inotify descriptor, so one thread is modelled here; the   *)
(* socket's life is the subject of module Supervisor.                      *)
(*                                                                         *)
(* Clock differences are kept, not clock values: the code only ever        *)
(* compares now - last_retry_ms with the retry interval, so the age of the *)
(* last retry is counted up to that interval and no further.               *)
(***************************************************************************)
EXTENDS Integers

CONSTANTS
  ErrorThreshold,      \* cfg->nvml_error_threshold
  HardErrorThreshold,  \* cfg->nvml_hard_error_threshold
  PollInterval,        \* cfg->poll_interval_s, in ticks
  RetryInterval,       \* cfg->nvml_retry_interval_s, in ticks
  dcgm_available,      \* exp->dcgm_available, settled before the threads start
  MaxErrors            \* bound: failing polls in one behaviour

ASSUME ConfigAssumption ==
  /\ ErrorThreshold \in Nat \ {0}
  /\ HardErrorThreshold \in Nat \ {0}
  /\ PollInterval \in Nat \ {0}
  /\ RetryInterval \in Nat \ {0}
  /\ dcgm_available \in BOOLEAN
  /\ MaxErrors \in Nat

VARIABLES
  pc,                       \* where the thread is in its loop
  stop,                     \* ctx->stop, set by collector_stop
  ready,                    \* ctx->ready, awaited by main at startup
  gpu_present,              \* ctx->gpu_present
  gpu_available,            \* ctx->gpu_available
  consecutive_errors,       \* ctx->consecutive_errors
  consecutive_hard_errors,  \* ctx->consecutive_hard_errors
  collector_errors_total,   \* ctx->collector_errors_total
  retry_age,                \* time_now_ms() - ctx->last_retry_ms, capped
  sleep_left,               \* what is left of poll_sleep
  snapshot,                 \* ctx->snapshot, the last one built
  delivered,                \* the last snapshot the socket accepted
  link,                     \* the socket to the HTTP child
  library                   \* the condition of the library the thread calls

errorVars == << gpu_present, gpu_available, consecutive_errors,
                consecutive_hard_errors, collector_errors_total >>
envVars == << link, library >>
vars == << pc, stop, ready, errorVars, retry_age, sleep_left, snapshot,
           delivered, envVars >>

Locations == {"top", "nvml", "dcgm", "send", "sleep", "exited"}
Links == {"up", "full", "broken"}
\* What the calls of a poll come to: success, an error, one of the errors that
\* NVML_IS_HARD_ERROR names, or no return at all.  The thread is in a call of
\* one library at a time, first NVML and then DCGM, so one variable has both.
Conditions == {"ok", "soft", "hard", "hung"}

\* The status fields of gpu_snapshot_t; built is FALSE in the zeroed one.
Snapshot == [built : BOOLEAN, gpu_present : BOOLEAN, gpu_available : BOOLEAN,
             errors : Nat]
NoSnapshot == [built |-> FALSE, gpu_present |-> FALSE, gpu_available |-> FALSE,
               errors |-> 0]

-----------------------------------------------------------------------------
\* The state collector_start leaves.  last_retry_ms is 0 on a clock that
\* counts from boot, so its age is whatever the uptime is.
Init ==
  /\ pc = "top"
  /\ stop = FALSE
  /\ ready = FALSE
  /\ gpu_present = TRUE
  /\ gpu_available = TRUE
  /\ consecutive_errors = 0
  /\ consecutive_hard_errors = 0
  /\ collector_errors_total = 0
  /\ retry_age \in 0 .. RetryInterval
  /\ sleep_left = 0
  /\ snapshot = NoSnapshot
  /\ delivered = NoSnapshot
  /\ link \in Links
  /\ library \in Conditions

MustWait_NeverRetries == ~ gpu_present \/ ~ gpu_available

\* The two reasons for which an iteration sleeps without touching NVML.
MustWait ==
  \/ ~ gpu_present
  \/ ~ gpu_available /\ retry_age < RetryInterval

-----------------------------------------------------------------------------
(* Mutated forms, used to confirm that the properties below can fail.      *)

BeginPoll_KeepsRetryAge ==
  /\ pc = "top"
  /\ ~ stop
  /\ ~ MustWait
  /\ pc' = "nvml"
  /\ UNCHANGED << stop, ready, errorVars, retry_age, sleep_left, snapshot,
                  delivered, envVars >>

Send_ReadyIfDelivered ==
  /\ pc = "send"
  /\ link # "full"
  /\ delivered' = IF link = "up" THEN snapshot ELSE delivered
  /\ ready' = (ready \/ link = "up")
  /\ sleep_left' = PollInterval
  /\ pc' = "sleep"
  /\ UNCHANGED << stop, errorVars, retry_age, snapshot, envVars >>

PollSucceeds_KeepsHardErrors ==
  /\ pc = "nvml"
  /\ library = "ok"
  /\ consecutive_errors' = 0
  /\ consecutive_hard_errors' = consecutive_hard_errors
  /\ gpu_available' = TRUE
  /\ pc' = "dcgm"
  /\ UNCHANGED << stop, ready, gpu_present, collector_errors_total, retry_age,
                  sleep_left, snapshot, delivered, envVars >>

\* The snapshot takes the errors since the one before it.
Update_ResetsTotal ==
  /\ pc = "dcgm"
  /\ dcgm_available => library # "hung"
  /\ snapshot' = [built |-> TRUE, gpu_present |-> gpu_present,
                  gpu_available |-> gpu_available,
                  errors |-> collector_errors_total]
  /\ collector_errors_total' = 0
  /\ pc' = "send"
  /\ UNCHANGED << stop, ready, consecutive_errors, consecutive_hard_errors, gpu_present,
                  gpu_available, retry_age, sleep_left, delivered, envVars >>

Send_RetriesForever ==
  /\ pc = "send"
  /\ link = "up"
  /\ delivered' = snapshot
  /\ ready' = TRUE
  /\ sleep_left' = PollInterval
  /\ pc' = "sleep"
  /\ UNCHANGED << stop, errorVars, retry_age, snapshot, envVars >>

-----------------------------------------------------------------------------
Exit ==
  /\ pc = "top"
  /\ stop
  /\ pc' = "exited"
  /\ UNCHANGED << stop, ready, errorVars, retry_age, sleep_left, snapshot,
                  delivered, envVars >>

BackOff ==
  /\ pc = "top"
  /\ ~ stop
  /\ MustWait
  /\ pc' = "sleep"
  /\ sleep_left' = PollInterval
  /\ UNCHANGED << stop, ready, errorVars, retry_age, snapshot, delivered,
                  envVars >>

\* Enter do_nvml_poll; an unavailable GPU is being retried.
BeginPoll ==
  /\ pc = "top"
  /\ ~ stop
  /\ ~ MustWait
  /\ pc' = "nvml"
  /\ retry_age' = IF gpu_available THEN retry_age ELSE 0
  /\ UNCHANGED << stop, ready, errorVars, sleep_left, snapshot, delivered,
                  envVars >>

\* A required NVML call failed with a code that NVML_IS_HARD_ERROR accepts,
\* often enough: the GPU is declared lost and the thread leaves its loop.
DeclareLost ==
  /\ pc = "nvml"
  /\ library = "hard"
  /\ collector_errors_total < MaxErrors
  /\ consecutive_hard_errors + 1 >= HardErrorThreshold
  /\ consecutive_errors' = consecutive_errors + 1
  /\ collector_errors_total' = collector_errors_total + 1
  /\ consecutive_hard_errors' = consecutive_hard_errors + 1
  /\ gpu_present' = FALSE
  /\ ready' = TRUE
  /\ pc' = "exited"
  /\ UNCHANGED << stop, gpu_available, retry_age, sleep_left, snapshot,
                  delivered, envVars >>

\* Any other failed poll: count it, mark the GPU unavailable at the
\* threshold, tell the startup waiter, sleep.
PollFails ==
  /\ pc = "nvml"
  /\ library \in {"soft", "hard"}
  /\ collector_errors_total < MaxErrors
  /\ consecutive_hard_errors' =
       consecutive_hard_errors + (IF library = "hard" THEN 1 ELSE 0)
  /\ library = "hard" => consecutive_hard_errors' < HardErrorThreshold
  /\ consecutive_errors' = consecutive_errors + 1
  /\ collector_errors_total' = collector_errors_total + 1
  /\ gpu_available' =
       IF consecutive_errors' >= ErrorThreshold THEN FALSE ELSE gpu_available
  /\ ready' = TRUE
  /\ sleep_left' = PollInterval
  /\ pc' = "sleep"
  /\ UNCHANGED << stop, gpu_present, retry_age, snapshot, delivered, envVars >>

\* An NVML poll that succeeded ends every streak of errors.
PollSucceeds ==
  /\ pc = "nvml"
  /\ library = "ok"
  /\ consecutive_errors' = 0
  /\ consecutive_hard_errors' = 0
  /\ gpu_available' = TRUE
  /\ pc' = "dcgm"
  /\ UNCHANGED << stop, ready, gpu_present, collector_errors_total, retry_age,
                  sleep_left, snapshot, delivered, envVars >>

\* dcgm_poll, if there is DCGM, and the rest of the cycle up to and including
\* snapshot_update.  An error of DCGM changes nothing here, and ring, state and
\* score are per-thread data that the counters do not depend on.
Update ==
  /\ pc = "dcgm"
  /\ dcgm_available => library # "hung"
  /\ snapshot' = [built |-> TRUE, gpu_present |-> gpu_present,
                  gpu_available |-> gpu_available,
                  errors |-> collector_errors_total]
  /\ pc' = "send"
  /\ UNCHANGED << stop, ready, errorVars, retry_age, sleep_left, delivered,
                  envVars >>

\* snapshot_send and what follows it.  A full socket blocks the write, a
\* broken one fails it and the snapshot is dropped; a write may fill the
\* socket.
Send ==
  /\ pc = "send"
  /\ link # "full"
  /\ link' \in IF link = "up" THEN {"up", "full"} ELSE {link}
  /\ delivered' = IF link = "up" THEN snapshot ELSE delivered
  /\ ready' = TRUE
  /\ sleep_left' = PollInterval
  /\ pc' = "sleep"
  /\ UNCHANGED << stop, errorVars, retry_age, snapshot, library >>

\* poll_sleep returns, at once when stop is set.
WakeUp ==
  /\ pc = "sleep"
  /\ stop \/ sleep_left = 0
  /\ sleep_left' = 0
  /\ pc' = "top"
  /\ UNCHANGED << stop, ready, errorVars, retry_age, snapshot, delivered,
                  envVars >>

-----------------------------------------------------------------------------
\* collector_stop and shutdown_all set the flag; the join is pc = "exited".
RequestStop ==
  /\ ~ stop
  /\ stop' = TRUE
  /\ UNCHANGED << pc, ready, errorVars, retry_age, sleep_left, snapshot,
                  delivered, envVars >>

Tick ==
  /\ retry_age < RetryInterval \/ sleep_left > 0
  /\ retry_age' = IF retry_age < RetryInterval THEN retry_age + 1 ELSE retry_age
  /\ sleep_left' = IF sleep_left > 0 THEN sleep_left - 1 ELSE 0
  /\ UNCHANGED << pc, stop, ready, errorVars, snapshot, delivered, envVars >>

\* A library changes its condition; the errors of one behaviour are bounded.
DriverChanges ==
  /\ library' \in Conditions \ {library}
  /\ library' \in {"ok", "hung"} \/ collector_errors_total < MaxErrors
  /\ UNCHANGED << pc, stop, ready, errorVars, retry_age, sleep_left, snapshot,
                  delivered, link >>

\* The bound on errors again: a library that has used them up recovers.
DriverRecovers ==
  /\ library \in {"soft", "hard"}
  /\ collector_errors_total >= MaxErrors
  /\ library' = "ok"
  /\ UNCHANGED << pc, stop, ready, errorVars, retry_age, sleep_left, snapshot,
                  delivered, link >>

\* The child falls behind, dies, or is respawned.
LinkChanges ==
  /\ link' \in Links \ {link}
  /\ UNCHANGED << pc, stop, ready, errorVars, retry_age, sleep_left, snapshot,
                  delivered, library >>

\* The receiver thread of a live child always drains its end; a dead child's
\* socket breaks.  Either way a full socket does not stay full.
LinkDrains ==
  /\ link = "full"
  /\ link' \in {"up", "broken"}
  /\ UNCHANGED << pc, stop, ready, errorVars, retry_age, sleep_left, snapshot,
                  delivered, library >>

Thread ==
  \/ Exit \/ BackOff \/ BeginPoll \/ DeclareLost \/ PollFails \/ PollSucceeds
  \/ Update \/ Send \/ WakeUp

Next ==
  \/ Exit
  \/ BackOff
  \/ BeginPoll
  \/ DeclareLost
  \/ PollFails
  \/ PollSucceeds
  \/ Update
  \/ Send
  \/ WakeUp
  \/ RequestStop
  \/ Tick
  \/ DriverChanges
  \/ DriverRecovers
  \/ LinkChanges
  \/ LinkDrains

Spec == Init /\ [][Next]_vars

(***************************************************************************)
(* Fairness.  The thread is scheduled, and a blocked write goes through    *)
(* once the socket has room infinitely often.  Time passes.  A full socket *)
(* is drained or breaks.  Nothing is assumed of NVML and DCGM beyond the   *)
(* bound on errors: a call that hangs may hang forever.                    *)
(***************************************************************************)
Fairness ==
  /\ WF_vars(Thread)
  /\ SF_vars(Send)
  /\ WF_vars(Tick)
  /\ WF_vars(LinkDrains)
  /\ WF_vars(DriverRecovers)

FairSpec == Spec /\ Fairness

-----------------------------------------------------------------------------
TypeOK ==
  /\ pc \in Locations
  /\ stop \in BOOLEAN
  /\ ready \in BOOLEAN
  /\ gpu_present \in BOOLEAN
  /\ gpu_available \in BOOLEAN
  /\ consecutive_errors \in Nat
  /\ consecutive_hard_errors \in Nat
  /\ collector_errors_total \in Nat
  /\ retry_age \in 0 .. RetryInterval
  /\ sleep_left \in 0 .. PollInterval
  /\ snapshot \in Snapshot
  /\ delivered \in Snapshot
  /\ link \in Links
  /\ library \in Conditions

(***************************************************************************)
(* The two flags other threads read say exactly what the private counters  *)
(* say: a GPU is lost iff the hard-error count reached its threshold (and  *)
(* then the thread is gone), and a GPU that is not lost is unavailable iff *)
(* the error streak reached its threshold.  collector.c updates flags and  *)
(* counters on three paths (347-378, 386-388) that must agree.             *)
(***************************************************************************)
StatusMatchesCounters ==
  /\ ~ gpu_present <=> consecutive_hard_errors >= HardErrorThreshold
  /\ ~ gpu_present => pc = "exited"
  /\ gpu_present => (~ gpu_available <=> consecutive_errors >= ErrorThreshold)
  /\ consecutive_hard_errors <= consecutive_errors
  /\ consecutive_errors <= collector_errors_total

(***************************************************************************)
(* Main's startup wait is released by an outcome, never by the thread      *)
(* merely having started: ready is set only after a failed poll was        *)
(* counted or a snapshot was built (361, 380, 449).                        *)
(***************************************************************************)
ReadyMeansPolled == ready => collector_errors_total > 0 \/ snapshot.built

(***************************************************************************)
(* The error counter that the child exposes as a Prometheus counter never  *)
(* decreases between two delivered snapshots, whatever snapshots were      *)
(* dropped by a broken socket in between.                                  *)
(***************************************************************************)
ExposedErrorsMonotone ==
  [][delivered'.errors >= delivered.errors]_vars

\* What makes it so: no snapshot is ahead of the counter, and the delivered
\* one is not ahead of the one that was built last.
SnapshotsBehindCounter ==
  /\ delivered.errors <= snapshot.errors
  /\ snapshot.errors <= collector_errors_total

SendHasSnapshot == pc = "send" => snapshot.built

\* Past the NVML poll the thread has just marked its GPU available.
SucceedsAvailable == pc \in {"dcgm", "send"} => gpu_available

(***************************************************************************)
(* The inductive invariant of the poll loop: the properties above hold     *)
(* together, because the flags, the counters and the snapshots they are    *)
(* about are updated by the same few paths of collector.c:343-449.         *)
(***************************************************************************)
CollectorInv ==
  /\ TypeOK
  /\ StatusMatchesCounters
  /\ ReadyMeansPolled
  /\ SnapshotsBehindCounter
  /\ SendHasSnapshot
  /\ SucceedsAvailable

\* The thread is inside a call of NVML or DCGM that does not return.
InHungCall ==
  /\ library = "hung"
  /\ pc = "nvml" \/ (pc = "dcgm" /\ dcgm_available)

(***************************************************************************)
(* A stop request is honoured from every point of the loop, through        *)
(* back-off, a blocked send and a dead child: nothing but a call of NVML   *)
(* (343) or DCGM (393) that hangs can make shutdown_all wait in            *)
(* pthread_join forever.                                                   *)
(***************************************************************************)
StopLeadsToExit == stop ~> pc = "exited" \/ InHungCall

(***************************************************************************)
(* Main's startup wait ends: the first poll, successful or not, or the     *)
(* loss of the GPU, sets ready, unless the call hangs or the exporter is   *)
(* being stopped (collector.c:361, 380, 449).                              *)
(***************************************************************************)
ReadyEventually == <>(ready \/ stop \/ InHungCall)

(***************************************************************************)
(* Back-off ends: an unavailable GPU whose driver has recovered is retried *)
(* and becomes available again, unless the driver fails once more or the   *)
(* exporter stops (collector.c:315-324, 386-388).                          *)
(***************************************************************************)
RecoversWithDriver ==
  ~ gpu_available /\ library = "ok" ~> gpu_available \/ library # "ok" \/ stop
                                      \/ ~ gpu_present

-----------------------------------------------------------------------------
(***************************************************************************)
(* README.md:453-454 and the help texts of http.c:859 and 867 say that     *)
(* gpu_present and gpu_available go to 0 when the GPU disappears mid-run   *)
(* or is above the error threshold: with a working socket, an outage of a  *)
(* GPU that is on display comes to be shown, unless it passes first.  The  *)
(* code does not do so: only a poll that has just succeeded is followed by *)
(* snapshot_send (386-446), so that nothing is sent during an outage.      *)
(***************************************************************************)
OutageIsShown ==
  /\ delivered.built
  /\ ~ (gpu_present /\ gpu_available)
  ~> \/ ~ (delivered.gpu_present /\ delivered.gpu_available)
     \/ gpu_present /\ gpu_available
     \/ link # "up"
     \/ stop

\* What the code does instead: no snapshot says that a GPU is lost or
\* unavailable.
NoOutageIsSent ==
  \A s \in {snapshot, delivered} : s.built => s.gpu_present /\ s.gpu_available
=============================================================================
