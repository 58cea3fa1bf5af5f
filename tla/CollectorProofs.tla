--------------------------- MODULE CollectorProofs ---------------------------
(***************************************************************************)
(* Safety of the poll thread for every configuration: CollectorInv is      *)
(* inductive, and the properties of module Collector follow from it.  Then *)
(* the exporter, in which the thread, the socket and the HTTP child are    *)
(* put together: it implements the poll thread's specification, and no     *)
(* snapshot is mislaid or overtaken on its way.                            *)
(***************************************************************************)
EXTENDS CollectorHistory, Exporter, SequenceTheorems, TLAPS

\* The context that collector_start leaves satisfies the invariant.
LEMMA CollectorInvInit == Init => CollectorInv
  <1> SUFFICES ASSUME Init PROVE CollectorInv
    OBVIOUS
  <1>1. TypeOK
    <2>1. NoSnapshot \in Snapshot
      BY DEF NoSnapshot, Snapshot
    <2>2. /\ pc \in Locations
          /\ stop \in BOOLEAN
          /\ ready \in BOOLEAN
          /\ gpu_present \in BOOLEAN
          /\ gpu_available \in BOOLEAN
      BY DEF Init, Locations
    <2>3. sleep_left \in 0 .. PollInterval
      BY ConfigAssumption DEF Init
    <2> QED
      BY <2>1, <2>2, <2>3 DEF Init, TypeOK
  <1> USE ConfigAssumption DEF Init, NoSnapshot
  <1>2. StatusMatchesCounters
    BY DEF StatusMatchesCounters
  <1>3. ReadyMeansPolled /\ SendHasSnapshot /\ SucceedsAvailable
    BY DEF ReadyMeansPolled, SendHasSnapshot, SucceedsAvailable
  <1>4. SnapshotsBehindCounter
    BY DEF SnapshotsBehindCounter
  <1> QED
    BY <1>1, <1>2, <1>3, <1>4 DEF CollectorInv

\* The steps that leave counters, flags and snapshots alone.
LEMMA QuietStep ==
  ASSUME CollectorInv,
         \/ Exit \/ BackOff \/ BeginPoll \/ WakeUp \/ RequestStop \/ Tick
         \/ DriverChanges \/ DriverRecovers \/ LinkChanges \/ LinkDrains
         \/ UNCHANGED vars
  PROVE  CollectorInv'
  <1> USE ConfigAssumption
      DEF CollectorInv, TypeOK, errorVars, envVars, Locations, Links, Conditions
  <1>1. /\ UNCHANGED << errorVars, snapshot, delivered, ready >>
        /\ gpu_present \/ pc' = pc
        /\ pc' = "send" => pc = "send"
        /\ pc' = "dcgm" => pc = "dcgm"
    BY DEF Exit, BackOff, BeginPoll, WakeUp, RequestStop, Tick, DriverChanges,
           DriverRecovers, LinkChanges, LinkDrains, vars, StatusMatchesCounters
  <1>2. pc' \in Locations
    BY DEF Exit, BackOff, BeginPoll, WakeUp, RequestStop, Tick, DriverChanges,
           DriverRecovers, LinkChanges, LinkDrains, vars
  <1>3. stop' \in BOOLEAN
    BY DEF Exit, BackOff, BeginPoll, WakeUp, RequestStop, Tick, DriverChanges,
           DriverRecovers, LinkChanges, LinkDrains, vars
  <1>4. retry_age' \in 0 .. RetryInterval /\ sleep_left' \in 0 .. PollInterval
    BY DEF Exit, BackOff, BeginPoll, WakeUp, RequestStop, Tick, DriverChanges,
           DriverRecovers, LinkChanges, LinkDrains, vars
  <1>5. link' \in Links /\ library' \in Conditions
    BY DEF Exit, BackOff, BeginPoll, WakeUp, RequestStop, Tick, DriverChanges,
           DriverRecovers, LinkChanges, LinkDrains, vars
  <1>6. TypeOK'
    BY <1>1, <1>2, <1>3, <1>4, <1>5
  <1>7. StatusMatchesCounters'
    BY <1>1 DEF StatusMatchesCounters
  <1>8. ReadyMeansPolled' /\ SnapshotsBehindCounter'
    BY <1>1 DEF ReadyMeansPolled, SnapshotsBehindCounter
  <1>9. SendHasSnapshot' /\ SucceedsAvailable'
    BY <1>1 DEF SendHasSnapshot, SucceedsAvailable
  <1> QED
    BY <1>6, <1>7, <1>8, <1>9

\* Every step of the thread and of its environment keeps the invariant.
LEMMA CollectorInvStep == CollectorInv /\ [Next]_vars => CollectorInv'
  <1> SUFFICES ASSUME CollectorInv, [Next]_vars PROVE CollectorInv'
    OBVIOUS
  <1> USE ConfigAssumption DEF CollectorInv
  <1>1. CASE DeclareLost
    <2>1. TypeOK'
      <3>1. gpu_present' \in BOOLEAN /\ gpu_available' \in BOOLEAN
        BY <1>1 DEF DeclareLost, TypeOK
      <3>2. /\ consecutive_errors' \in Nat
            /\ consecutive_hard_errors' \in Nat
            /\ collector_errors_total' \in Nat
            /\ sleep_left' \in 0 .. PollInterval
        BY <1>1 DEF DeclareLost, TypeOK
      <3>3. pc' \in Locations /\ ready' \in BOOLEAN
        BY <1>1 DEF DeclareLost, Locations
      <3>4. UNCHANGED << stop, retry_age, snapshot, delivered, link, library >>
        BY <1>1 DEF DeclareLost, envVars
      <3> QED
        BY <3>1, <3>2, <3>3, <3>4 DEF TypeOK
    <2>2. StatusMatchesCounters'
      BY <1>1 DEF DeclareLost, TypeOK, StatusMatchesCounters
    <2>3. SendHasSnapshot' /\ SucceedsAvailable'
      BY <1>1 DEF DeclareLost, SendHasSnapshot, SucceedsAvailable
    <2>4. ReadyMeansPolled' /\ SnapshotsBehindCounter'
      BY <1>1
      DEF DeclareLost, TypeOK, Snapshot, ReadyMeansPolled, SnapshotsBehindCounter
    <2> QED
      BY <2>1, <2>2, <2>3, <2>4
  <1>2. CASE PollFails
    <2>1. TypeOK'
      <3>1. gpu_present' \in BOOLEAN /\ gpu_available' \in BOOLEAN
        BY <1>2 DEF PollFails, TypeOK
      <3>2. /\ consecutive_errors' \in Nat
            /\ consecutive_hard_errors' \in Nat
            /\ collector_errors_total' \in Nat
            /\ sleep_left' \in 0 .. PollInterval
        BY <1>2 DEF PollFails, TypeOK
      <3>3. pc' \in Locations /\ ready' \in BOOLEAN
        BY <1>2 DEF PollFails, Locations
      <3>4. UNCHANGED << stop, retry_age, snapshot, delivered, link, library >>
        BY <1>2 DEF PollFails, envVars
      <3> QED
        BY <3>1, <3>2, <3>3, <3>4 DEF TypeOK
    <2>2. StatusMatchesCounters'
      BY <1>2 DEF PollFails, TypeOK, StatusMatchesCounters
    <2>3. SendHasSnapshot' /\ SucceedsAvailable'
      BY <1>2 DEF PollFails, SendHasSnapshot, SucceedsAvailable
    <2>4. ReadyMeansPolled' /\ SnapshotsBehindCounter'
      BY <1>2
      DEF PollFails, TypeOK, Snapshot, ReadyMeansPolled, SnapshotsBehindCounter
    <2> QED
      BY <2>1, <2>2, <2>3, <2>4
  <1>3. CASE PollSucceeds
    <2>1. TypeOK'
      <3>1. gpu_available' \in BOOLEAN /\ pc' \in Locations
        BY <1>3 DEF PollSucceeds, Locations
      <3> QED
        BY <1>3, <3>1 DEF PollSucceeds, TypeOK, envVars
    <2>2. gpu_present
      BY <1>3 DEF PollSucceeds, StatusMatchesCounters
    <2>3. StatusMatchesCounters'
      BY <1>3, <2>2 DEF PollSucceeds, TypeOK, StatusMatchesCounters
    <2>4. SendHasSnapshot' /\ SucceedsAvailable'
      BY <1>3 DEF PollSucceeds, SendHasSnapshot, SucceedsAvailable
    <2>5. ReadyMeansPolled' /\ SnapshotsBehindCounter'
      BY <1>3 DEF PollSucceeds, ReadyMeansPolled, SnapshotsBehindCounter
    <2> QED
      BY <2>1, <2>3, <2>4, <2>5
  <1>5. CASE Update
    <2>1. TypeOK'
      <3>1. snapshot' \in Snapshot /\ pc' \in Locations
        BY <1>5 DEF Update, TypeOK, Snapshot, Locations
      <3> QED
        BY <1>5, <3>1 DEF Update, TypeOK, errorVars, envVars
    <2>2. StatusMatchesCounters'
      BY <1>5 DEF Update, errorVars, StatusMatchesCounters
    <2>3. SendHasSnapshot' /\ SucceedsAvailable'
      BY <1>5 DEF Update, errorVars, SendHasSnapshot, SucceedsAvailable
    <2>4. ReadyMeansPolled' /\ SnapshotsBehindCounter'
      BY <1>5
      DEF Update, TypeOK, Snapshot, errorVars, ReadyMeansPolled, SnapshotsBehindCounter
    <2> QED
      BY <2>1, <2>2, <2>3, <2>4
  <1>4. CASE Send
    <2>1. TypeOK'
      <3>1. link' \in Links
        BY <1>4 DEF Send, TypeOK, Links
      <3> QED
        BY <1>4, <3>1 DEF Send, TypeOK, errorVars, Locations
    <2>2. StatusMatchesCounters'
      BY <1>4 DEF Send, errorVars, StatusMatchesCounters
    <2>3. SendHasSnapshot' /\ SucceedsAvailable'
      BY <1>4 DEF Send, SendHasSnapshot, SucceedsAvailable
    <2>4. ReadyMeansPolled' /\ SnapshotsBehindCounter'
      BY <1>4
      DEF Send, TypeOK, Snapshot, errorVars, SendHasSnapshot, ReadyMeansPolled,
          SnapshotsBehindCounter
    <2> QED
      BY <2>1, <2>2, <2>3, <2>4
  <1> QED
    BY <1>1, <1>2, <1>3, <1>4, <1>5, QuietStep DEF Next

-----------------------------------------------------------------------------
\* The poll loop keeps CollectorInv for every choice of thresholds and
\* intervals that config.c accepts.
THEOREM CollectorInvariant == Spec => []CollectorInv
  BY CollectorInvInit, CollectorInvStep, PTL DEF Spec

\* The variables of the poll thread keep their types.
THEOREM CollectorTypeCorrect == Spec => []TypeOK
  <1>1. CollectorInv => TypeOK
    BY DEF CollectorInv
  <1> QED
    BY <1>1, CollectorInvariant, PTL

\* The flags that other threads read agree with the private error counters.
THEOREM StatusIsAccurate == Spec => []StatusMatchesCounters
  <1>1. CollectorInv => StatusMatchesCounters
    BY DEF CollectorInv
  <1> QED
    BY <1>1, CollectorInvariant, PTL

\* No snapshot that reports a lost or an unavailable GPU is ever built or sent:
\* what README.md:453-454 promises, and the run on OutageIsShown refutes for one
\* configuration, the code does for no thresholds and intervals at all.
THEOREM OutageIsNeverSent == Spec => []NoOutageIsSent
  <1>1. Init => NoOutageIsSent
    BY DEF Init, NoSnapshot, NoOutageIsSent
  <1>2. CollectorInv /\ NoOutageIsSent /\ [Next]_vars => NoOutageIsSent'
    <2> SUFFICES ASSUME CollectorInv, NoOutageIsSent, [Next]_vars
                 PROVE  NoOutageIsSent'
      OBVIOUS
    <2>1. CASE Update
      <3>1. gpu_present /\ gpu_available
        BY <2>1
        DEF Update, CollectorInv, StatusMatchesCounters, SucceedsAvailable
      <3>2. /\ snapshot'.gpu_present = gpu_present
            /\ snapshot'.gpu_available = gpu_available
            /\ delivered' = delivered
        BY <2>1 DEF Update
      <3> QED
        BY <3>1, <3>2 DEF NoOutageIsSent
    <2>2. CASE ~ Update
      <3>1. delivered' \in {delivered, snapshot} /\ snapshot' = snapshot
        BY <2>2
        DEF Next, Exit, BackOff, BeginPoll, DeclareLost, PollFails,
            PollSucceeds, Send, WakeUp, RequestStop, Tick, DriverChanges,
            DriverRecovers, LinkChanges, LinkDrains, vars
      <3> QED
        BY <3>1 DEF NoOutageIsSent
    <2> QED
      BY <2>1, <2>2
  <1> QED
    BY <1>1, <1>2, CollectorInvariant, PTL DEF Spec

\* The startup wait of main.c is released only by the outcome of a poll.
THEOREM ReadyOnlyAfterPoll == Spec => []ReadyMeansPolled
  <1>1. CollectorInv => ReadyMeansPolled
    BY DEF CollectorInv
  <1> QED
    BY <1>1, CollectorInvariant, PTL

\* The exposed error counter never decreases, however many snapshots are lost.
THEOREM ExposedErrorsNeverDecrease == Spec => ExposedErrorsMonotone
  <1>1. CollectorInv /\ [Next]_vars => [delivered'.errors >= delivered.errors]_vars
    <2> SUFFICES ASSUME CollectorInv, Next
                 PROVE  delivered'.errors >= delivered.errors
      OBVIOUS
    <2>1. delivered' \in {delivered, snapshot}
      BY DEF Next, Exit, BackOff, BeginPoll, DeclareLost, PollFails,
             PollSucceeds, Update, Send, WakeUp, RequestStop, Tick, DriverChanges,
             DriverRecovers, LinkChanges, LinkDrains
    <2> QED
      BY <2>1 DEF CollectorInv, TypeOK, Snapshot, SnapshotsBehindCounter
  <1> QED
    BY <1>1, CollectorInvariant, PTL DEF Spec, ExposedErrorsMonotone

-----------------------------------------------------------------------------
(* How often an unavailable GPU is retried.                                *)

(***************************************************************************)
(* RetryRate alone is not inductive.  It follows from the sharper bound    *)
(* that counts the age of the last retry too, and from the fact that every *)
(* retry but the one in progress has failed, which keeps the recorded time *)
(* below its limit as long as it is needed.                                *)
(***************************************************************************)
RetryInv ==
  /\ retries \in Nat
  /\ unavailable_for \in 0 .. MaxElapsed
  /\ collector_errors_total <= MaxErrors
  /\ gpu_available => retries = 0
  /\ ~ gpu_available =>
       retries + (IF pc = "nvml" THEN 0 ELSE 1) <= collector_errors_total
  /\ retries > 0 => (retries - 1) * RetryInterval + retry_age <= unavailable_for

\* The limit of the recorded time is a number, and any retries the bound on
\* errors allows fit below it.
LEMMA ElapsedLimit ==
  /\ MaxElapsed \in Nat
  /\ \A r \in 1 .. MaxErrors : (r - 1) * RetryInterval + RetryInterval <= MaxElapsed
  <1> USE ConfigAssumption
  <1>1. MaxElapsed \in Nat
    BY DEF MaxElapsed
  <1>2. ASSUME NEW r \in 1 .. MaxErrors
        PROVE  (r - 1) * RetryInterval + RetryInterval <= MaxElapsed
    <2>1. PICK d \in Nat : MaxErrors + 1 = r + d
      BY DEF ConfigAssumption
    <2>2. d * RetryInterval >= 0
      BY DEF ConfigAssumption
    <2>3. (MaxErrors + 1) * RetryInterval = r * RetryInterval + d * RetryInterval
      BY <2>1 DEF ConfigAssumption
    <2>4. (r - 1) * RetryInterval + RetryInterval = r * RetryInterval
      BY DEF ConfigAssumption
    <2> QED
      BY <2>2, <2>3, <2>4 DEF MaxElapsed, ConfigAssumption
  <1> QED
    BY <1>1, <1>2

\* Recording restricts no step: every behaviour with history is a behaviour
\* of the poll thread.
LEMMA HistoryObserves == HistorySpec => Spec
  <1>1. HistoryInit => Init
    BY DEF HistoryInit
  <1>2. [HistoryNext]_<< vars, history >> => [Next]_vars
    BY DEF HistoryNext, Next, Thread
  <1> QED
    BY <1>1, <1>2, PTL DEF HistorySpec, Spec

\* A step of the thread keeps the bound: a retry begins only when the one
\* before is a whole interval old.
LEMMA RetryThreadStep ==
  ASSUME CollectorInv, RetryInv, Thread, RecordStep
  PROVE  RetryInv'
  <1> USE ConfigAssumption
  <1>1. CASE BeginPoll /\ ~ gpu_available
    <2>1. /\ retry_age = RetryInterval /\ retry_age' = 0
          /\ gpu_available' = gpu_available
          /\ retries' = retries + 1 /\ unavailable_for' = unavailable_for
          /\ collector_errors_total' = collector_errors_total
          /\ pc = "top" /\ pc' = "nvml"
      BY <1>1 DEF BeginPoll, MustWait, RecordStep, CollectorInv, TypeOK, errorVars
    <2>2. CASE retries = 0
      BY <1>1, <2>1, <2>2 DEF RetryInv, CollectorInv, TypeOK
    <2>3. CASE retries > 0
      <3>1. (retries - 1) * RetryInterval + RetryInterval = retries * RetryInterval
        BY DEF RetryInv
      <3> QED
        BY <1>1, <2>1, <2>3, <3>1 DEF RetryInv, CollectorInv, TypeOK
    <2> QED
      BY <2>2, <2>3 DEF RetryInv
  <1>2. CASE ~ (BeginPoll /\ ~ gpu_available)
    <2>1. collector_errors_total' \in Nat /\ collector_errors_total' <= MaxErrors
      <3>1. \/ collector_errors_total' = collector_errors_total
            \/ /\ collector_errors_total < MaxErrors
               /\ collector_errors_total' = collector_errors_total + 1
        BY DEF Thread, Exit, BackOff, BeginPoll, DeclareLost, PollFails,
               PollSucceeds, Update, Send, WakeUp, errorVars
      <3>2. collector_errors_total \in Nat /\ collector_errors_total <= MaxErrors
        BY DEF RetryInv, CollectorInv, TypeOK
      <3> QED
        BY <3>1, <3>2
    <2>2. CASE gpu_available'
      BY <2>1, <2>2, ElapsedLimit DEF RecordStep, RetryInv
    <2>3. CASE ~ gpu_available'
      <3>1. retries' = retries /\ unavailable_for' = unavailable_for
        BY <1>2, <2>3 DEF RecordStep, Thread, Exit, BackOff, BeginPoll, DeclareLost,
             PollFails, PollSucceeds, Update, Send, WakeUp, errorVars
      <3>2. retry_age' = retry_age
        BY <1>2, <2>3 DEF Thread, Exit, BackOff, BeginPoll, DeclareLost, PollFails,
             PollSucceeds, Update, Send, WakeUp, errorVars
      <3>3. retries + 1 <= collector_errors_total'
        <4>1. \/ pc = "nvml" /\ collector_errors_total' = collector_errors_total + 1
              \/ /\ pc # "nvml" /\ ~ gpu_available
                 /\ collector_errors_total' = collector_errors_total
          BY <1>2, <2>3 DEF Thread, Exit, BackOff, BeginPoll, DeclareLost, PollFails,
               PollSucceeds, Update, Send, WakeUp, errorVars
        <4>2. retries \in Nat /\ collector_errors_total \in Nat
          BY DEF RetryInv, CollectorInv, TypeOK
        <4>3. CASE pc = "nvml"
          <5>1. retries <= collector_errors_total
            BY <4>2, <4>3 DEF RetryInv
          <5> QED
            BY <4>1, <4>2, <4>3, <5>1
        <4>4. CASE pc # "nvml"
          BY <4>1, <4>2, <4>4 DEF RetryInv
        <4> QED
          BY <4>3, <4>4
      <3> QED
        BY <2>1, <2>3, <3>1, <3>2, <3>3 DEF RetryInv
    <2> QED
      BY <2>2, <2>3
  <1> QED
    BY <1>1, <1>2

\* So does every step with history.
LEMMA RetryInvStep ==
  ASSUME CollectorInv, RetryInv, [HistoryNext]_<< vars, history >>
  PROVE  RetryInv'
  <1> USE ConfigAssumption
  <1>1. CASE Tick /\ RecordTick
    <2>1. /\ UNCHANGED << pc, gpu_available, collector_errors_total, retries >>
          /\ retry_age' \in {retry_age, retry_age + 1}
          /\ retry_age' \in 0 .. RetryInterval
      BY <1>1 DEF Tick, RecordTick, errorVars, CollectorInv, TypeOK
    <2>2. unavailable_for' \in 0 .. MaxElapsed
      BY <1>1, ElapsedLimit DEF RecordTick, RetryInv
    <2>3. ASSUME retries > 0
          PROVE  (retries - 1) * RetryInterval + retry_age' <= unavailable_for'
      <3>1. ~ gpu_available /\ retries \in 1 .. MaxErrors
        BY <2>3 DEF RetryInv, CollectorInv, TypeOK
      <3> DEFINE p == (retries - 1) * RetryInterval
      <3>2. p \in Int /\ p + RetryInterval <= MaxElapsed /\ p + retry_age <= unavailable_for
        BY <2>3, <3>1, ElapsedLimit DEF RetryInv
      <3> HIDE DEF p
      <3>3. p + retry_age' <= unavailable_for'
        <4>1. \/ unavailable_for' = unavailable_for + 1
              \/ unavailable_for' = MaxElapsed
          BY <1>1, <3>1 DEF RecordTick
        <4>2. retry_age \in Nat /\ unavailable_for \in Nat
          BY ElapsedLimit DEF RetryInv, CollectorInv, TypeOK
        <4> QED
          BY <2>1, <3>2, <4>1, <4>2, ElapsedLimit DEF ConfigAssumption
      <3> QED
        BY <3>3 DEF p
    <2> QED
      BY <2>1, <2>2, <2>3 DEF RetryInv
  <1>2. CASE \/ DriverChanges /\ UNCHANGED history
             \/ DriverRecovers /\ UNCHANGED history
             \/ RequestStop /\ UNCHANGED history
             \/ LinkChanges /\ UNCHANGED history
             \/ LinkDrains /\ UNCHANGED history
             \/ UNCHANGED << vars, history >>
    <2>1. UNCHANGED << pc, gpu_available, collector_errors_total, retry_age,
                       retries, unavailable_for >>
      BY <1>2 DEF DriverChanges, DriverRecovers, RequestStop, LinkChanges,
                  LinkDrains, vars, errorVars, history
    <2> QED
      BY <2>1 DEF RetryInv
  <1> QED
    BY <1>1, <1>2, RetryThreadStep DEF HistoryNext

(***************************************************************************)
(* However long a driver keeps failing and however often the thread wakes  *)
(* in between, retries of an unavailable GPU are a whole retry interval    *)
(* apart, for every configuration (collector.c:315-324).                   *)
(***************************************************************************)
THEOREM RetriesAreSpaced == HistorySpec => []RetryRate
  <1>1. HistoryInit => RetryInv
    BY ConfigAssumption, ElapsedLimit DEF HistoryInit, Init, RetryInv
  <1>2. CollectorInv /\ RetryInv => RetryRate
    <2> SUFFICES ASSUME CollectorInv, RetryInv, retries > 0
                 PROVE  (retries - 1) * RetryInterval <= unavailable_for
      BY DEF RetryRate
    <2> DEFINE p == (retries - 1) * RetryInterval
    <2>1. p \in Int /\ p + retry_age <= unavailable_for
      BY ConfigAssumption DEF RetryInv
    <2> HIDE DEF p
    <2>2. p <= unavailable_for
      BY <2>1, ConfigAssumption, ElapsedLimit DEF RetryInv, CollectorInv, TypeOK
    <2> QED
      BY <2>2 DEF p
  <1> QED
    BY <1>1, <1>2, RetryInvStep, HistoryObserves, CollectorInvariant, PTL
    DEF HistorySpec

-----------------------------------------------------------------------------
(* The exporter.                                                           *)

\* What the child does is to the poll thread a change of the socket, or nothing.
LEMMA ChildMovesLink ==
  ASSUME link' = LinkState', UNCHANGED threadVars
  PROVE  LinkChanges \/ UNCHANGED vars
<1>1. link' \in Links
  BY DEF LinkState, Links
<1> QED
  BY <1>1 DEF LinkChanges, threadVars, vars, errorVars, envVars

\* A step of the exporter is to the poll thread one of its own steps, a change
\* of the socket, or nothing.
LEMMA ExporterStep == [ExporterNext]_exporterVars => [Next]_vars
<1> SUFFICES ASSUME [ExporterNext]_exporterVars PROVE [Next]_vars
  OBVIOUS
<1>1. CASE Receiver \/ Leave \/ SelectFails \/ ChildCrashes \/ SigTerm \/ ParentCloses
  BY <1>1, ChildMovesLink
  DEF Receiver, Leave, SelectFails, ChildCrashes, SigTerm, ParentCloses, ChildMoves, Next
<1>2. CASE Respawn
  BY <1>2, ChildMovesLink DEF Respawn, Next
<1>3. CASE PollThread
  BY <1>3 DEF PollThread, snapshot_update, snapshot_send, Next
<1>4. CASE TimePasses
  BY <1>4 DEF TimePasses, threadVars, vars, errorVars, envVars, Next
<1>5. CASE UNCHANGED exporterVars
  BY <1>5 DEF exporterVars
<1> QED
  BY <1>1, <1>2, <1>3, <1>4, <1>5 DEF ExporterNext, Next

\* The composition implements module Collector: whatever the child does, also when
\* it crashes and is replaced, the poll thread lives in the environment that its
\* own specification describes (the safety half of PollThreadAsSpecified).
THEOREM ExporterImplementsPollThread == ExporterSpec => Spec
<1>1. ExporterInit => Init
  BY DEF ExporterInit
<1> QED
  BY <1>1, ExporterStep, PTL DEF ExporterSpec, Spec

-----------------------------------------------------------------------------
(* The way of a snapshot: stamped by snapshot_update, written to the       *)
(* socket, taken into the receiver's hand, shown in the slot.              *)

\* What crosses the socket.
Message == H!Message

\* Types of what a snapshot meets on its way.
WayTypes ==
  /\ now \in 0 .. MaxTime
  /\ last_poll_ms \in 0 .. now
  /\ inbox \in Seq(Message)
  /\ recv_msg \in Seq(Message)
  /\ recv_pc \in {"recv", "store", "done"}
  /\ Len(recv_msg) = IF recv_pc = "store" THEN 1 ELSE 0
  /\ published \in [GPU -> 0 .. MaxTime \cup {-1}]
  /\ slots \in [GPU -> H!Slot]

\* What the poll thread finds when it sends.
Sender ==
  /\ link = LinkState
  /\ pc # "exited" => parent_open
  /\ published[Gpu] <= last_poll_ms

\* The time on display.
Shown == IF slots[Gpu].received THEN slots[Gpu].last_poll_ms ELSE -1

\* From the slot over the receiver's hand and the socket to the sender the
\* times ascend.
WayAscends ==
  /\ Shown <= published[Gpu]
  /\ recv_pc = "store" => /\ Shown <= recv_msg[1].last_poll_ms
                          /\ recv_msg[1].last_poll_ms <= published[Gpu]
  /\ \A i \in 1 .. Len(inbox) :
       /\ Shown <= inbox[i].last_poll_ms
       /\ inbox[i].last_poll_ms <= published[Gpu]
       /\ recv_pc = "store" => recv_msg[1].last_poll_ms <= inbox[i].last_poll_ms
  /\ \A i, j \in 1 .. Len(inbox) :
       i < j => inbox[i].last_poll_ms <= inbox[j].last_poll_ms

\* The last snapshot on the way, which is the newest one that was sent.
Newest ==
  IF inbox # << >> THEN inbox[Len(inbox)].last_poll_ms
  ELSE IF recv_msg # << >> THEN recv_msg[1].last_poll_ms
  ELSE Shown

\* The inductive invariant of the way.
WayInv ==
  /\ WayTypes
  /\ Sender
  /\ WayAscends
  /\ http_pc # "exited" => published[Gpu] = Newest

\* The last message of a queue that is not empty, and what follows the first.
LEMMA QueueFacts ==
  ASSUME NEW q \in Seq(Message), q # << >>
  PROVE  /\ Len(q) \in 1 .. Len(q) /\ q[Len(q)] \in Message
         /\ Head(q) = q[1] /\ q[1] \in Message /\ 1 \in 1 .. Len(q)
         /\ Tail(q) \in Seq(Message)
         /\ Len(Tail(q)) = Len(q) - 1
         /\ \A i \in 1 .. Len(Tail(q)) : Tail(q)[i] = q[i + 1] /\ i + 1 \in 1 .. Len(q)
OBVIOUS

\* A queue with a message more.
LEMMA AppendFacts ==
  ASSUME NEW q \in Seq(Message), NEW m \in Message
  PROVE  /\ Append(q, m) \in Seq(Message) /\ Append(q, m) # << >>
         /\ Len(Append(q, m)) = Len(q) + 1
         /\ Append(q, m)[Len(q) + 1] = m
         /\ \A i \in 1 .. Len(q) : Append(q, m)[i] = q[i]
OBVIOUS

\* Messages are for the one GPU and carry a time.
LEMMA MessageTime ==
  ASSUME NEW m \in Message
  PROVE  m.gpu = Gpu /\ m.last_poll_ms \in 0 .. MaxTime
BY DEF Message, H!Message, H!Time, GPU

\* What is on display is a time.
LEMMA ShownTime ==
  ASSUME slots \in [GPU -> H!Slot]
  PROVE  Shown \in 0 .. MaxTime \cup {-1}
BY DEF Shown, H!Slot, H!Time, GPU

\* The message that the receiver has in hand.
LEMMA InHand ==
  ASSUME WayInv, recv_pc = "store"
  PROVE  recv_msg # << >> /\ Head(recv_msg) = recv_msg[1] /\ recv_msg[1] \in Message
<1>1. recv_msg \in Seq(Message) /\ Len(recv_msg) = 1
  BY DEF WayInv, WayTypes
<1>2. recv_msg # << >>
  BY <1>1
<1> QED
  BY <1>1, <1>2, QueueFacts

\* At the start nothing is on the way.
LEMMA WayInit == ExporterInit => WayInv
<1> SUFFICES ASSUME ExporterInit PROVE WayInv
  OBVIOUS
<1> USE ExporterAssumption DEF ExporterInit, H!Init, GPU
<1>1. H!EmptySlot \in H!Slot /\ ~ H!EmptySlot.received
  BY DEF H!EmptySlot, H!Slot, H!Time
<1>2. WayTypes
  BY <1>1 DEF WayTypes
<1>3. Sender
  BY DEF Sender, Init
<1>4. WayAscends /\ published[Gpu] = Newest
  BY <1>1 DEF WayAscends, Newest, Shown
<1> QED
  BY <1>2, <1>3, <1>4 DEF WayInv

\* Steps that leave the way alone.
LEMMA WayQuiet ==
  ASSUME WayInv, UNCHANGED << childVars, link >>, last_poll_ms' \in {last_poll_ms, now},
         pc = "exited" => pc' = "exited"
  PROVE  WayInv'
<1> USE DEF childVars
<1>1. WayTypes' /\ published[Gpu] <= last_poll_ms'
  BY DEF WayInv, WayTypes, Sender, GPU
<1>2. Sender'
  BY <1>1 DEF WayInv, Sender, LinkState
<1> QED
  BY <1>1, <1>2 DEF WayInv, WayAscends, Newest, Shown

\* Time passes.
LEMMA WayTick ==
  ASSUME WayInv, H!Tick, UNCHANGED << link, last_poll_ms, pc >>
  PROVE  WayInv'
<1> USE DEF H!parentVars, H!slotVars, H!recvVars, H!httpVars
<1>1. WayTypes'
  BY ExporterAssumption DEF WayInv, WayTypes, H!Tick
<1> QED
  BY <1>1 DEF WayInv, WayAscends, Newest, Shown, Sender, LinkState, H!Tick

\* The snapshot that waited longest is sent: it is not older than any other.
LEMMA WaySend ==
  ASSUME WayInv, snapshot_send
  PROVE  WayInv'
<1> USE DEF H!parentVars, H!slotVars, H!recvVars, H!httpVars
<1>1. CASE link = "up"
  <2> DEFINE m == [gpu |-> Gpu, last_poll_ms |-> last_poll_ms]
  <2>1. /\ inbox' = Append(inbox, m) /\ published' = [published EXCEPT ![Gpu] = last_poll_ms]
        /\ UNCHANGED << now, parent_open, slots, recv_pc, recv_msg, http_pc, last_poll_ms >>
        /\ link' = LinkState'
        /\ parent_open
    BY <1>1 DEF snapshot_send, H!Publish
  <2>2. m \in Message /\ m.last_poll_ms = last_poll_ms
    BY ExporterAssumption DEF WayInv, WayTypes, Message, H!Message, H!Time, GPU
  <2>3. published' \in [GPU -> 0 .. MaxTime \cup {-1}] /\ published'[Gpu] = last_poll_ms
    BY <2>1, ExporterAssumption DEF WayInv, WayTypes, GPU
  <2> HIDE DEF m
  <2>4. /\ inbox' \in Seq(Message) /\ inbox' # << >>
        /\ Len(inbox') = Len(inbox) + 1
        /\ inbox'[Len(inbox) + 1] = m
        /\ \A i \in 1 .. Len(inbox) : inbox'[i] = inbox[i]
    BY <2>1, <2>2, AppendFacts DEF WayInv, WayTypes
  <2>5. WayTypes'
    BY <2>1, <2>3, <2>4 DEF WayInv, WayTypes
  <2>6. Sender'
    BY <2>1, <2>3, <2>5 DEF Sender, WayTypes
  <2>7. /\ Len(inbox) \in Nat /\ published[Gpu] <= last_poll_ms
        /\ published[Gpu] \in Int /\ last_poll_ms \in Int
        /\ Shown \in Int /\ Shown' = Shown
        /\ \A i \in 1 .. Len(inbox) : inbox[i].last_poll_ms \in Int
        /\ recv_pc = "store" => recv_msg[1].last_poll_ms \in Int
    <3>1. Shown \in Int /\ Shown' = Shown
      BY <2>1, ShownTime DEF WayInv, WayTypes, Shown
    <3>2. \A i \in 1 .. Len(inbox) : inbox[i] \in Message
      BY DEF WayInv, WayTypes
    <3>3. recv_pc = "store" => recv_msg[1] \in Message
      BY InHand
    <3> QED
      BY <3>1, <3>2, <3>3, MessageTime DEF WayInv, WayTypes, Sender, GPU
  <2>8. \A i \in 1 .. Len(inbox') : i \in 1 .. Len(inbox) \/ i = Len(inbox) + 1
    BY <2>4, <2>7
  <2>9. WayAscends'
    <3>1. /\ Shown' <= published'[Gpu]
          /\ recv_pc' = "store" => /\ Shown' <= recv_msg'[1].last_poll_ms
                                   /\ recv_msg'[1].last_poll_ms <= published'[Gpu]
      BY <2>1, <2>3, <2>7 DEF WayInv, WayAscends
    <3>2. ASSUME NEW i \in 1 .. Len(inbox')
          PROVE  /\ Shown' <= inbox'[i].last_poll_ms
                 /\ inbox'[i].last_poll_ms <= published'[Gpu]
                 /\ recv_pc' = "store" => recv_msg'[1].last_poll_ms <= inbox'[i].last_poll_ms
      <4>1. CASE i \in 1 .. Len(inbox)
        BY <2>1, <2>3, <2>4, <2>7, <4>1 DEF WayInv, WayAscends
      <4>2. CASE i = Len(inbox) + 1
        <5>1. inbox'[i].last_poll_ms = last_poll_ms
          BY <2>2, <2>4, <4>2
        <5> QED
          BY <2>1, <2>3, <2>7, <3>1, <5>1
      <4> QED
        BY <2>8, <4>1, <4>2
    <3>3. ASSUME NEW i \in 1 .. Len(inbox'), NEW j \in 1 .. Len(inbox'), i < j
          PROVE  inbox'[i].last_poll_ms <= inbox'[j].last_poll_ms
      <4>1. CASE j \in 1 .. Len(inbox)
        <5>1. i \in 1 .. Len(inbox)
          BY <2>7, <3>3, <4>1
        <5> QED
          BY <2>4, <3>3, <4>1, <5>1 DEF WayInv, WayAscends
      <4>2. CASE j = Len(inbox) + 1
        <5>1. inbox'[j].last_poll_ms = published'[Gpu]
          BY <2>2, <2>3, <2>4, <4>2
        <5> QED
          BY <3>2, <5>1
      <4> QED
        BY <2>8, <4>1, <4>2
    <3> QED
      BY <3>1, <3>2, <3>3 DEF WayAscends
  <2>10. published'[Gpu] = Newest'
    BY <2>2, <2>3, <2>4 DEF Newest
  <2> QED
    BY <2>5, <2>6, <2>9, <2>10 DEF WayInv
<1>2. CASE link # "up"
  <2>1. UNCHANGED << childVars, last_poll_ms >> /\ link' = LinkState' /\ pc # "exited"
    BY <1>2 DEF snapshot_send, Send
  <2>2. link' = link
    BY <2>1 DEF WayInv, Sender, LinkState, childVars
  <2> QED
    BY <2>1, <2>2, WayQuiet DEF childVars
<1> QED
  BY <1>1, <1>2

\* The receiver takes the oldest message into its hand.
LEMMA WayRecv ==
  ASSUME WayInv, H!Recv, ChildMoves
  PROVE  WayInv'
<1> USE DEF H!parentVars, H!slotVars, H!recvVars, H!httpVars
<1>1. /\ inbox # << >> /\ recv_pc = "recv"
      /\ inbox' = Tail(inbox) /\ recv_msg' = << Head(inbox) >> /\ recv_pc' = "store"
      /\ UNCHANGED << now, parent_open, published, slots, http_pc, last_poll_ms, pc >>
      /\ link' = LinkState'
  BY DEF H!Recv, ChildMoves, threadVars
<1>2. /\ Len(inbox) \in 1 .. Len(inbox)
      /\ Head(inbox) = inbox[1] /\ inbox[1] \in Message /\ 1 \in 1 .. Len(inbox)
      /\ inbox' \in Seq(Message)
      /\ Len(inbox') = Len(inbox) - 1
      /\ \A i \in 1 .. Len(inbox') : inbox'[i] = inbox[i + 1] /\ i + 1 \in 1 .. Len(inbox)
  BY <1>1, QueueFacts DEF WayInv, WayTypes
<1>3. /\ recv_msg' \in Seq(Message) /\ Len(recv_msg') = 1 /\ recv_msg' # << >>
      /\ recv_msg'[1] = inbox[1]
  BY <1>1, <1>2
<1>4. WayTypes'
  BY <1>1, <1>2, <1>3 DEF WayInv, WayTypes
<1>5. Sender'
  BY <1>1 DEF WayInv, Sender
<1>6. Shown' = Shown
  BY <1>1 DEF Shown
<1>7. WayAscends'
  <2>1. ASSUME NEW i \in 1 .. Len(inbox')
        PROVE  inbox[1].last_poll_ms <= inbox'[i].last_poll_ms
    <3>1. 1 < i + 1
      BY <1>2
    <3> QED
      BY <1>2, <3>1 DEF WayInv, WayAscends
  <2>2. ASSUME NEW i \in 1 .. Len(inbox'), NEW j \in 1 .. Len(inbox'), i < j
        PROVE  inbox'[i].last_poll_ms <= inbox'[j].last_poll_ms
    <3>1. i + 1 < j + 1
      BY <2>2
    <3> QED
      BY <1>2, <3>1 DEF WayInv, WayAscends
  <2> QED
    BY <1>1, <1>2, <1>3, <1>6, <2>1, <2>2 DEF WayInv, WayAscends
<1>8. Newest' = Newest
  <2>1. CASE Len(inbox) = 1
    <3>1. inbox' = << >>
      BY <1>2, <2>1
    <3> QED
      BY <1>1, <1>3, <2>1, <3>1 DEF Newest
  <2>2. CASE Len(inbox) # 1
    <3>1. inbox' # << >> /\ Len(inbox') \in 1 .. Len(inbox') /\ Len(inbox') + 1 = Len(inbox)
      BY <1>2, <2>2
    <3> QED
      BY <1>1, <1>2, <3>1 DEF Newest
  <2> QED
    BY <2>1, <2>2
<1> QED
  BY <1>1, <1>4, <1>5, <1>7, <1>8 DEF WayInv

\* The message in hand becomes what the slot shows.
LEMMA WayStore ==
  ASSUME WayInv, H!Store, ChildMoves
  PROVE  /\ WayInv'
         /\ slots'[Gpu].received /\ Shown <= Shown' /\ Shown' = slots'[Gpu].last_poll_ms
<1> USE DEF H!parentVars, H!slotVars, H!recvVars, H!httpVars
<1> DEFINE m == recv_msg[1]
<1>1. recv_pc = "store" /\ m \in Message /\ Head(recv_msg) = m /\ recv_msg # << >>
  BY InHand DEF H!Store
<1>2. m.gpu = Gpu /\ m.last_poll_ms \in 0 .. MaxTime
  BY <1>1, MessageTime
<1>3. /\ slots' = [slots EXCEPT ![Gpu] = [received |-> TRUE, last_poll_ms |-> m.last_poll_ms]]
      /\ recv_msg' = << >> /\ recv_pc' \in {"recv", "done"}
      /\ UNCHANGED << now, inbox, parent_open, published, http_pc, last_poll_ms, pc >>
      /\ link' = LinkState'
  BY <1>1, <1>2 DEF H!Store, ChildMoves, threadVars, GPU
<1> HIDE DEF m
<1>4. /\ slots' \in [GPU -> H!Slot]
      /\ slots'[Gpu].received /\ slots'[Gpu].last_poll_ms = m.last_poll_ms
  <2>1. [received |-> TRUE, last_poll_ms |-> m.last_poll_ms] \in H!Slot
    BY <1>2 DEF H!Slot, H!Time
  <2> QED
    BY <1>3, <2>1 DEF WayInv, WayTypes, GPU
<1>5. Shown' = m.last_poll_ms
  BY <1>4 DEF Shown
<1>6. WayTypes'
  BY <1>3, <1>4 DEF WayInv, WayTypes
<1>7. Sender'
  BY <1>3 DEF WayInv, Sender
<1>8. WayAscends'
  BY <1>1, <1>3, <1>5 DEF WayInv, WayAscends, m
<1>9. Newest' = Newest
  BY <1>1, <1>3, <1>5 DEF Newest, m
<1>10. Shown <= Shown'
  BY <1>1, <1>5 DEF WayInv, WayAscends, m
<1> QED
  BY <1>3, <1>4, <1>5, <1>6, <1>7, <1>8, <1>9, <1>10 DEF WayInv

\* The child ends, crashes, is told to end, or loses its parent.
LEMMA WayChild ==
  ASSUME WayInv,
         \/ H!RecvEof /\ ChildMoves
         \/ Leave \/ SelectFails \/ ChildCrashes \/ SigTerm \/ ParentCloses
  PROVE  WayInv'
<1> USE DEF H!parentVars, H!slotVars, H!recvVars, H!httpVars, ChildMoves, threadVars
<1>1. CASE H!RecvEof /\ ChildMoves
  BY <1>1 DEF H!RecvEof, WayInv, WayTypes, Sender, WayAscends, Newest, Shown
<1>2. CASE Leave \/ SelectFails \/ SigTerm
  BY <1>2
  DEF Leave, SelectFails, SigTerm, H!LeaveLoop, H!SelectFails, H!Exit, H!handle_sigterm, WayInv, WayTypes,
      Sender, WayAscends, Newest, Shown
<1>3. CASE ParentCloses
  BY <1>3 DEF ParentCloses, H!ParentCloses, WayInv, WayTypes, Sender, WayAscends,
              Newest, Shown
<1>4. CASE ChildCrashes
  <2>1. /\ inbox' = << >> /\ http_pc' = "exited" /\ link' = LinkState'
        /\ UNCHANGED << now, parent_open, published, slots, recv_pc, recv_msg, last_poll_ms, pc >>
    BY <1>4 DEF ChildCrashes
  <2>2. WayTypes' /\ Sender'
    BY <2>1 DEF WayInv, WayTypes, Sender
  <2>3. WayAscends'
    BY <2>1 DEF WayInv, WayAscends, Shown
  <2> QED
    BY <2>1, <2>2, <2>3 DEF WayInv
<1> QED
  BY <1>1, <1>2, <1>3, <1>4

\* A new child has been sent nothing.
LEMMA WayRespawn ==
  ASSUME WayInv, Respawn
  PROVE  WayInv'
<1>1. /\ inbox' = << >> /\ recv_msg' = << >> /\ recv_pc' = "recv"
      /\ published' = [g \in GPU |-> -1] /\ slots' = [g \in GPU |-> H!EmptySlot]
      /\ link' = LinkState'
      /\ UNCHANGED << now, parent_open, last_poll_ms, pc >>
  BY DEF Respawn, threadVars
<1>2. H!EmptySlot \in H!Slot /\ ~ H!EmptySlot.received
  BY ExporterAssumption DEF H!EmptySlot, H!Slot, H!Time
<1>3. WayTypes'
  BY <1>1, <1>2 DEF WayInv, WayTypes
<1>4. published'[Gpu] = -1 /\ Shown' = -1
  BY <1>1, <1>2 DEF Shown, GPU
<1>5. Sender'
  BY <1>1, <1>3, <1>4 DEF WayInv, Sender, WayTypes
<1>6. WayAscends' /\ Newest' = -1
  BY <1>1, <1>4 DEF WayAscends, Newest
<1> QED
  BY <1>3, <1>4, <1>5, <1>6 DEF WayInv

\* Every step of thread, child, main() and clock.
LEMMA WayStep == WayInv /\ [ExporterNext]_exporterVars => WayInv'
<1> SUFFICES ASSUME WayInv, [ExporterNext]_exporterVars PROVE WayInv'
  OBVIOUS
<1>1. CASE PollThread
  <2>1. CASE snapshot_send
    BY <2>1, WaySend
  <2>2. CASE ~ snapshot_send
    <3>1. /\ UNCHANGED << childVars, link >> /\ last_poll_ms' \in {last_poll_ms, now}
          /\ pc # "exited"
      BY <1>1, <2>2
      DEF PollThread, snapshot_update, Quietly, Exit, BackOff, BeginPoll,
          DeclareLost, PollFails, WakeUp, PollSucceeds, Update, envVars
    <3> QED
      BY <3>1, WayQuiet
  <2> QED
    BY <2>1, <2>2
<1>2. CASE Receiver
  BY <1>2, WayRecv, WayStore, WayChild DEF Receiver
<1>3. CASE Leave \/ SelectFails \/ ChildCrashes \/ SigTerm \/ ParentCloses
  BY <1>3, WayChild
<1>4. CASE Respawn
  BY <1>4, WayRespawn
<1>5. CASE TimePasses
  <2>1. UNCHANGED << link, last_poll_ms, pc >>
    BY <1>5 DEF TimePasses, Tick, threadVars, envVars
  <2>2. H!Tick \/ UNCHANGED childVars
    BY <1>5 DEF TimePasses
  <2> QED
    BY <2>1, <2>2, WayTick, WayQuiet
<1>6. CASE (RequestStop \/ DriverChanges \/ DriverRecovers) /\ Quietly
  <2>1. UNCHANGED << childVars, link >> /\ last_poll_ms' = last_poll_ms /\ pc' = pc
    BY <1>6 DEF RequestStop, DriverChanges, DriverRecovers, Quietly, envVars
  <2> QED
    BY <2>1, WayQuiet
<1>7. CASE UNCHANGED exporterVars
  <2>1. UNCHANGED << childVars, link >> /\ last_poll_ms' = last_poll_ms /\ pc' = pc
    BY <1>7 DEF exporterVars, vars, envVars
  <2> QED
    BY <2>1, WayQuiet
<1> QED
  BY <1>1, <1>2, <1>3, <1>4, <1>5, <1>6, <1>7 DEF ExporterNext

\* For any thresholds, intervals, socket size and number of respawns, the times
\* ascend from the slot to the sender and the last snapshot on the way is the
\* newest one sent (snapshot.c:131-175, http.c:199-238).
THEOREM WayInvariant == ExporterSpec => []WayInv
BY WayInit, WayStep, PTL DEF ExporterSpec

\* The newest snapshot that the socket accepted is in the socket, in the
\* receiver's hand or on display, for any size of the socket and any number of
\* crashes before.
THEOREM NewestIsNeverLost == ExporterSpec => []NothingLostOnTheWay
<1>1. WayInv => NothingLostOnTheWay
  BY DEF WayInv, Newest, Shown, NothingLostOnTheWay
<1> QED
  BY <1>1, WayInvariant, PTL


\* A thread that is about to send finds its end of the socket open, a stamp that is
\* neither in the future nor older than the one before, and, unless the socket is
\* full or broken, room: what module HttpChild requires of its sender.
SendIsNeverRefused ==
  pc = "send" =>
    /\ parent_open
    /\ published[Gpu] <= last_poll_ms /\ last_poll_ms <= now
    /\ link = "up" <=> http_pc # "exited" /\ Len(inbox) < MaxInbox

\* The guards of H!Publish never hold the poll thread back: composing the modules
\* takes no behaviour away from it (snapshot.c:151-174, main.c:236-254).
THEOREM SendersMayAlwaysSend == ExporterSpec => []SendIsNeverRefused
<1>1. WayInv => SendIsNeverRefused
  <2> SUFFICES ASSUME WayInv, pc = "send"
               PROVE  /\ parent_open
                      /\ published[Gpu] <= last_poll_ms /\ last_poll_ms <= now
                      /\ link = "up" <=> http_pc # "exited" /\ Len(inbox) < MaxInbox
    BY DEF SendIsNeverRefused
  <2>1. Len(inbox) \in Nat /\ MaxInbox \in Nat
    BY ExporterAssumption DEF WayInv, WayTypes
  <2> QED
    BY <2>1 DEF WayInv, WayTypes, Sender, LinkState
<1> QED
  BY <1>1, WayInvariant, PTL

\* What is on display never gets older or disappears, except with the child.
DisplayNeverGoesBack ==
  [][~ Respawn /\ slots[Gpu].received =>
       /\ slots'[Gpu].received
       /\ slots'[Gpu].last_poll_ms >= slots[Gpu].last_poll_ms]_exporterVars

\* Snapshots may wait between stamp and write, and still none is overtaken: only a
\* respawn takes a snapshot off the display (http.c:209-216, main.c:640-659).
THEOREM DisplayAdvances == ExporterSpec => DisplayNeverGoesBack
<1> DEFINE A == ~ Respawn /\ slots[Gpu].received =>
                  /\ slots'[Gpu].received
                  /\ slots'[Gpu].last_poll_ms >= slots[Gpu].last_poll_ms
<1>1. WayInv /\ [ExporterNext]_exporterVars => [A]_exporterVars
  <2> SUFFICES ASSUME WayInv, ExporterNext, ~ Respawn, slots[Gpu].received
               PROVE  /\ slots'[Gpu].received
                      /\ slots'[Gpu].last_poll_ms >= slots[Gpu].last_poll_ms
    OBVIOUS
  <2>1. CASE H!Store /\ ChildMoves
    <3>1. slots'[Gpu].received /\ Shown <= slots'[Gpu].last_poll_ms
      BY <2>1, WayStore
    <3>2. Shown = slots[Gpu].last_poll_ms
      BY DEF Shown
    <3> QED
      BY <3>1, <3>2
  <2>2. CASE UNCHANGED slots
    <3>1. slots[Gpu].last_poll_ms \in Int
      BY DEF WayInv, WayTypes, H!Slot, H!Time, GPU
    <3> QED
      BY <2>2, <3>1
  <2>3. (H!Store /\ ChildMoves) \/ UNCHANGED slots
    BY DEF ExporterNext, PollThread, snapshot_update, snapshot_send, Quietly,
           Receiver, Leave, SelectFails, ChildCrashes, SigTerm, ParentCloses, TimePasses, childVars,
           H!Publish, H!Recv, H!RecvEof, H!LeaveLoop, H!SelectFails, H!Exit, H!handle_sigterm,
           H!ParentCloses, H!Tick, H!parentVars, H!slotVars
  <2> QED
    BY <2>1, <2>2, <2>3
<1> QED
  BY <1>1, WayInvariant, PTL DEF ExporterSpec, DisplayNeverGoesBack

\* With a child that crashes and is replaced the poll thread still keeps its flags,
\* counters and snapshots consistent, and the exposed error count never falls.
THEOREM PollThreadKeepsItsPromises ==
  ExporterSpec => []CollectorInv /\ ExposedErrorsMonotone
BY ExporterImplementsPollThread, CollectorInvariant, ExposedErrorsNeverDecrease, PTL

-----------------------------------------------------------------------------
(* Ending.  That the thread takes its steps is a matter of fairness; that   *)
(* few of them are enough is not.                                          *)

\* From each place of the loop, how many steps of its own a stopped thread has
\* left at most.
StepsLeft == [nvml |-> 5, dcgm |-> 4, send |-> 3, sleep |-> 2, top |-> 1, exited |-> 0]

\* Once stop is set every step of the thread brings it nearer to its end: it
\* finishes the poll it is in, sleeps no more and begins no other.
StopIsNear ==
  [][stop => stop' /\ (Thread => StepsLeft[pc'] < StepsLeft[pc])]_vars

\* For every configuration a stopped thread takes at most five more steps, so that
\* only a call or a write that does not return can delay the join (collector.c:306,
\* :33-43): the part of StopLeadsToExit that needs no fairness.
THEOREM StopNeedsFewSteps == Spec => StopIsNear
<1>1. [Next]_vars =>
        [stop => stop' /\ (Thread => StepsLeft[pc'] < StepsLeft[pc])]_vars
  <2> SUFFICES ASSUME Next, stop
               PROVE  stop' /\ (Thread => StepsLeft[pc'] < StepsLeft[pc])
    OBVIOUS
  <2>1. Thread => << pc, pc' >> \in
          {<< "top", "exited" >>, << "nvml", "exited" >>, << "nvml", "sleep" >>,
           << "nvml", "dcgm" >>, << "dcgm", "send" >>, << "send", "sleep" >>, << "sleep", "top" >>}
    BY DEF Thread, Exit, BackOff, BeginPoll, DeclareLost, PollFails, PollSucceeds, Update, Send, WakeUp
  <2>2. Thread => StepsLeft[pc'] < StepsLeft[pc]
    BY <2>1 DEF StepsLeft
  <2>3. stop'
    BY DEF Next, Exit, BackOff, BeginPoll, DeclareLost, PollFails, PollSucceeds, Update, Send,
           WakeUp, RequestStop, Tick, DriverChanges, DriverRecovers, LinkChanges,
           LinkDrains
  <2> QED
    BY <2>2, <2>3
<1> QED
  BY <1>1, PTL DEF Spec, StopIsNear
=============================================================================
