----------------------------- MODULE StateFiles -----------------------------
(***************************************************************************)
(* The files that an operator and the probe write and the exporter reads:  *)
(* baseline_load, probe_load and the inotify watch of state.c, their use   *)
(* at startup by main.c and in the poll loop by collector.c, and the file  *)
(* writers of gpu_health_probe.cu.  One inotify descriptor is shared by    *)
(* all poll threads; reading it consumes events.                           *)
(*                                                                         *)
(* A file's text is reduced to what the loader tells apart: whether it is  *)
(* there, written only in part, malformed or whole, the serial and driver  *)
(* it names, and which write or which run of the probe it came from.       *)
(***************************************************************************)
EXTENDS Integers

CONSTANTS
  GPU,        \* the GPUs, by serial number
  ProbeTtl,   \* cfg->probe_ttl_s
  MaxTime,    \* bound: the clock of one behaviour
  MaxWrites,  \* bound: changes to baseline files in one behaviour
  MaxRuns     \* bound: runs of the probe in one behaviour

ASSUME StateFilesAssumption ==
  /\ GPU # {}
  /\ ProbeTtl \in Nat
  /\ MaxTime \in Nat
  /\ MaxWrites \in Nat
  /\ MaxRuns \in Nat

VARIABLES
  now,          \* CLOCK_REALTIME
  writes,       \* changes made to baseline files so far
  file,         \* baseline_dir/{serial}
  probe_file,   \* state_dir/{serial}.probe
  runs,         \* runs of the probe that have measured something
  prober,       \* per GPU: where its probe is, its run and its timestamp
  events,       \* whether the inotify queue holds an event
  inotify,      \* exp->baseline_inotify_fd
  watched_from, \* the value of writes when the watch began
  to_load,      \* GPUs whose baseline main has yet to load
  to_probe,     \* GPUs whose probe result main has yet to load
  baseline,     \* ctx->baseline
  driver_mismatch, \* its field driver_mismatch, which the callers set
  probe,        \* ctx->probe
  poll          \* poll threads: "poll", or "load" after an event was read

proberVars == << runs, prober >>
diskVars == << now, writes, file, probe_file, proberVars >>
watchVars == << events, inotify, watched_from >>
loadVars == << to_load, to_probe, baseline, driver_mismatch, probe, poll >>
vars == << diskVars, watchVars, loadVars >>

Time == 0 .. MaxTime
Write == 0 .. MaxWrites
Run == 0 .. MaxRuns       \* 0 for what no modelled run has written
Drivers == {"current", "other", "none"}

File == [text : {"absent", "partial", "malformed", "whole"}, serial : GPU,
         driver : Drivers, write : Write, run : Run]

\* gpu_baseline_t, and the write and the run it came from.
Baseline == [available : BOOLEAN, valid : BOOLEAN, serial_mismatch : BOOLEAN,
             driver : Drivers, write : Write, run : Run]

ProbeFile == [text : {"absent", "malformed", "whole"}, timestamp : Time, run : Run]
Probe == [available : BOOLEAN, stale : BOOLEAN, timestamp : Time, run : Run]

\* The probe is not running, has measured, has written its result and is to
\* write a baseline, or has yet to rename the baseline it wrote.
Prober == [pc : {"idle", "measured", "baseline", "rename"}, run : Run,
           timestamp : Time]

-----------------------------------------------------------------------------
(* The loaders.                                                            *)

\* What baseline_load accepts: no malformed value, no required field missing,
\* and the serial of the GPU it is loaded for.
Validated(f, g) == f.text = "whole" /\ f.serial = g

\* A baseline may do without a driver_version line ("none").
baseline_load(g) ==
  LET f == file[g]
  IN [available |-> f.text # "absent",
      valid |-> Validated(f, g),
      serial_mismatch |-> f.text = "whole" /\ f.serial # g,
      driver |-> IF f.text = "absent" THEN "none" ELSE f.driver,
      write |-> f.write,
      run |-> f.run]

\* (Mutated form: a timestamp in the future makes the unsigned age wrap.)
Expired_Wraps(t) == (now - t) % 2^16 > ProbeTtl

Expired(t) == now > t /\ now - t > ProbeTtl

probe_load(g) ==
  LET f == probe_file[g]
  IN [available |-> f.text = "whole",
      stale |-> f.text = "whole" /\ Expired(f.timestamp),
      timestamp |-> f.timestamp,
      run |-> f.run]

-----------------------------------------------------------------------------
NoBaseline == [available |-> FALSE, valid |-> FALSE, serial_mismatch |-> FALSE,
               driver |-> "none", write |-> 0, run |-> 0]
NoProbe == [available |-> FALSE, stale |-> FALSE, timestamp |-> 0, run |-> 0]
NotRunning == [pc |-> "idle", run |-> 0, timestamp |-> 0]

\* The GPUs are enumerated; their contexts are zeroed.
Init ==
  /\ now \in Time
  /\ writes = 0
  /\ file \in [GPU -> {[text |-> t, serial |-> g, driver |-> "current", write |-> 0,
                        run |-> 0] :
                         t \in {"absent", "whole"}, g \in GPU}]
  /\ probe_file \in [GPU -> [text : {"absent", "whole"}, timestamp : Time, run : {0}]]
  /\ runs = 0
  /\ prober = [g \in GPU |-> NotRunning]
  /\ events = FALSE
  /\ inotify = "unset"
  /\ watched_from = 0
  /\ to_load = GPU
  /\ to_probe = GPU
  /\ baseline = [g \in GPU |-> NoBaseline]
  /\ driver_mismatch = [g \in GPU |-> FALSE]
  /\ probe = [g \in GPU |-> NoProbe]
  /\ poll = [g \in GPU |-> "poll"]

\* (Mutated form: the queue is emptied once more after the file has been read.)
Reload_DrainsLast(g) ==
  /\ poll[g] = "load"
  /\ \/ /\ baseline[g].write <= watched_from
        /\ baseline' = [baseline EXCEPT ![g] = baseline_load(g)]
        /\ driver_mismatch' = [driver_mismatch EXCEPT ![g] = baseline_load(g).driver # "current"]
        /\ UNCHANGED << events, poll >>
     \/ /\ baseline[g].write > watched_from
        /\ events' = FALSE
        /\ poll' = [poll EXCEPT ![g] = "poll"]
        /\ UNCHANGED << baseline, driver_mismatch >>
  /\ UNCHANGED << diskVars, inotify, watched_from, to_load, to_probe, probe >>

-----------------------------------------------------------------------------
(* main(): enumeration loads the files, then the watch is set up.          *)

\* One GPU after the other, the baseline before the probe result.
LoadBaseline(g) ==
  /\ g \in to_load
  /\ to_load = to_probe
  /\ to_load' = to_load \ {g}
  /\ baseline' = [baseline EXCEPT ![g] = baseline_load(g)]
  /\ driver_mismatch' = [driver_mismatch EXCEPT ![g] =
       LET b == baseline_load(g) IN b.available /\ b.valid /\ b.driver # "current"]
  /\ UNCHANGED << diskVars, watchVars, to_probe, probe, poll >>

LoadProbe(g) ==
  /\ g \in to_probe \ to_load
  /\ to_probe' = to_probe \ {g}
  /\ probe' = [probe EXCEPT ![g] = probe_load(g)]
  /\ UNCHANGED << diskVars, watchVars, to_load, baseline, driver_mismatch, poll >>

baseline_inotify_init ==
  /\ to_probe = {}
  /\ inotify = "unset"
  /\ inotify' \in {"watching", "unavailable"}
  /\ watched_from' = writes
  /\ UNCHANGED << diskVars, events, loadVars >>

-----------------------------------------------------------------------------
(* The poll threads, which start when the watch is in place.               *)

\* Draining the queue takes every event, whichever file it is about.
baseline_inotify_check(g) ==
  /\ inotify = "watching"
  /\ poll[g] = "poll"
  /\ events
  /\ events' = FALSE
  /\ poll' = [poll EXCEPT ![g] = "load"]
  /\ UNCHANGED << diskVars, inotify, watched_from, to_load, to_probe,
                  baseline, driver_mismatch, probe >>

\* The thread that read the events reloads its own baseline.
Reload(g) ==
  /\ poll[g] = "load"
  /\ baseline' = [baseline EXCEPT ![g] = baseline_load(g)]
  /\ driver_mismatch' = [driver_mismatch EXCEPT ![g] = baseline_load(g).driver # "current"]
  /\ poll' = [poll EXCEPT ![g] = "poll"]
  /\ UNCHANGED << diskVars, watchVars, to_load, to_probe, probe >>

-----------------------------------------------------------------------------
(* The operator and the clock.                                             *)

Change(g, f, notifies) ==
  /\ writes < MaxWrites
  /\ writes' = writes + 1
  /\ file' = [file EXCEPT ![g] = f]
  /\ events' = (events \/ (notifies /\ inotify = "watching"))
  /\ UNCHANGED << now, probe_file, inotify, watched_from, loadVars >>

\* A version of the file that no probe has written.
ByHand(g, t, s, d) ==
  [text |-> t, serial |-> s, driver |-> d, write |-> writes + 1, run |-> 0]

\* A file is opened for writing, and is seen half-written until it is closed.
\* The watch does not ask for this.
BeginWrite(g) ==
  /\ \E d \in Drivers : Change(g, ByHand(g, "partial", g, d), FALSE)
  /\ UNCHANGED proberVars

\* A file is closed after writing, or renamed into the directory: IN_CLOSE_WRITE
\* and IN_MOVED_TO.
FinishWrite(g) ==
  /\ \E t \in {"malformed", "whole"}, s \in GPU, d \in Drivers :
       Change(g, ByHand(g, t, s, d), TRUE)
  /\ UNCHANGED proberVars

\* A file is removed; the watch does not ask for this either.
Remove(g) ==
  /\ file[g].text # "absent"
  /\ Change(g, ByHand(g, "absent", g, "none"), FALSE)
  /\ UNCHANGED proberVars

Tick ==
  /\ now < MaxTime
  /\ now' = now + 1
  /\ UNCHANGED << writes, file, probe_file, proberVars, watchVars, loadVars >>

-----------------------------------------------------------------------------
(* The probe.  Nothing checks what fclose returns, so that a full disk     *)
(* makes it rename a file that is cut short.                               *)

Moves(g, label) == prober' = [prober EXCEPT ![g].pc = label]
Ends(g) == prober' = [prober EXCEPT ![g] = NotRunning]

\* The measurement is over and its timestamp taken.  Bound: one run at a time for
\* each GPU.  The service runs the probe for one GPU after the other; nothing in
\* gpu_health_probe.cu keeps a run by hand from overlapping with it, and two runs
\* would share their .tmp files.
Measure(g) ==
  /\ prober[g].pc = "idle" /\ runs < MaxRuns
  /\ runs' = runs + 1
  /\ prober' = [prober EXCEPT ![g] = [pc |-> "measured", run |-> runs + 1,
                                     timestamp |-> now]]
  /\ UNCHANGED << now, writes, file, probe_file, watchVars, loadVars >>

\* (Mutated form: a result that cannot be written does not keep back the baseline.)
write_probe_file_GoesOn(g) ==
  /\ prober[g].pc = "measured"
  /\ Moves(g, "baseline")
  /\ UNCHANGED << now, writes, file, probe_file, runs, watchVars, loadVars >>

\* {serial}.probe.tmp is renamed; with --establish-baseline a baseline follows.
write_probe_file(g) ==
  /\ prober[g].pc = "measured"
  /\ \E t \in {"malformed", "whole"} :
       probe_file' = [probe_file EXCEPT ![g] =
         [text |-> t, timestamp |-> prober[g].timestamp, run |-> prober[g].run]]
  /\ Ends(g) \/ Moves(g, "baseline")
  /\ UNCHANGED << now, writes, file, runs, watchVars, loadVars >>

\* Closing {serial}.tmp raises IN_CLOSE_WRITE, although no baseline changes.
CloseTmp(g) ==
  /\ prober[g].pc = "baseline"
  /\ events' = (events \/ inotify = "watching")
  /\ Moves(g, "rename")
  /\ UNCHANGED << now, writes, file, probe_file, runs, inotify, watched_from,
                  loadVars >>

\* The rename that ends write_baseline_file; the driver is the running one.
write_baseline_file(g) ==
  /\ prober[g].pc = "rename"
  /\ \E t \in {"malformed", "whole"} :
       Change(g, [text |-> t, serial |-> g, driver |-> "current",
                  write |-> writes + 1, run |-> prober[g].run], TRUE)
  /\ Ends(g)
  /\ UNCHANGED runs

\* It is killed, or a write fails and it gives up.
ProbeDies(g) ==
  /\ prober[g].pc # "idle"
  /\ Ends(g)
  /\ UNCHANGED << now, writes, file, probe_file, runs, watchVars, loadVars >>

-----------------------------------------------------------------------------
Next ==
  \/ baseline_inotify_init
  \/ Tick
  \/ \E g \in GPU : \/ LoadBaseline(g)
                    \/ LoadProbe(g)
                    \/ baseline_inotify_check(g)
                    \/ Reload(g)
                    \/ BeginWrite(g)
                    \/ FinishWrite(g)
                    \/ Remove(g)
                    \/ Measure(g)
                    \/ write_probe_file(g)
                    \/ CloseTmp(g)
                    \/ write_baseline_file(g)
                    \/ ProbeDies(g)

Spec == Init /\ [][Next]_vars

(***************************************************************************)
(* Fairness.  main and the poll threads run; a thread whose polls succeed  *)
(* checks the queue every poll interval.  Nothing is assumed of whoever    *)
(* writes the files.                                                       *)
(***************************************************************************)
FairSpec ==
  /\ Spec
  /\ WF_vars(baseline_inotify_init)
  /\ WF_vars(Tick)
  /\ \A g \in GPU : /\ WF_vars(LoadBaseline(g) \/ LoadProbe(g))
                    /\ WF_vars(baseline_inotify_check(g) \/ Reload(g))

-----------------------------------------------------------------------------
TypeOK ==
  /\ now \in Time
  /\ writes \in Write
  /\ file \in [GPU -> File]
  /\ probe_file \in [GPU -> ProbeFile]
  /\ runs \in Run
  /\ prober \in [GPU -> Prober]
  /\ events \in BOOLEAN
  /\ inotify \in {"unset", "watching", "unavailable"}
  /\ watched_from \in Write
  /\ to_load \subseteq GPU
  /\ to_probe \subseteq GPU
  /\ baseline \in [GPU -> Baseline]
  /\ driver_mismatch \in [GPU -> BOOLEAN]
  /\ probe \in [GPU -> Probe]
  /\ poll \in [GPU -> {"poll", "load"}]

\* The file was written to its end after the watch began.
Announced(g) ==
  /\ inotify = "watching"
  /\ file[g].text \in {"malformed", "whole"}
  /\ file[g].write > watched_from

(***************************************************************************)
(* No change falls between reading the queue and reading the file: while a *)
(* thread has not loaded the last announced version of its file, an event  *)
(* is queued or the thread is about to load.  state.h:54 has the caller    *)
(* reload all baselines on an event, which is what makes it so.            *)
(***************************************************************************)
NoLostReload ==
  \A g \in GPU : Announced(g) /\ baseline[g].write # file[g].write =>
                   events \/ poll[g] = "load"

(***************************************************************************)
(* A probe result is withheld from the score as stale only when it really  *)
(* has expired; a timestamp ahead of the clock does not count as old       *)
(* (state.c:250-258).                                                      *)
(***************************************************************************)
StaleMeansExpired ==
  \A g \in GPU : probe[g].stale => now - probe[g].timestamp > ProbeTtl

(***************************************************************************)
(* A change to a file is picked up without a restart, also when the file   *)
(* is changed again while it is being loaded (README.md:322).              *)
(***************************************************************************)
ReloadCatchesUp ==
  \A g \in GPU, w \in Write :
    Announced(g) /\ file[g].write = w ~> baseline[g].write = w \/ file[g].write # w

(***************************************************************************)
(* At startup the scorer never compares a probe result with a baseline     *)
(* that a later run of the probe established, although the two files are   *)
(* replaced and read one after the other: the probe writes its result      *)
(* before the baseline (gpu_health_probe.cu:415-432), main reads the       *)
(* baseline before the result (main.c:505-521).  Two runs of the probe for *)
(* one GPU that overlap are outside this.                                  *)
(***************************************************************************)
StartsFromOneRun ==
  \A g \in GPU :
    (g \notin to_probe /\ inotify = "unset" /\ probe[g].available)
      => baseline[g].run <= probe[g].run
=============================================================================
