-------------------------- MODULE StateFilesProofs --------------------------
(***************************************************************************)
(* With one GPU, the inotify watch of state.c loses no change, for every   *)
(* number and order of writes; with any number of GPUs a probe result is   *)
(* called stale only after its time to live.                               *)
(***************************************************************************)
EXTENDS StateFiles, TLAPS

\* The loaders return values of their types, whatever the files hold.
LEMMA LoadTypes ==
  ASSUME TypeOK, NEW g \in GPU
  PROVE  /\ baseline_load(g) \in Baseline
         /\ probe_load(g) \in Probe
BY DEF TypeOK, baseline_load, probe_load, Validated, Baseline, Probe, File, ProbeFile,
       Drivers

\* A step of Change keeps the types if the new version of the file has its own.
LEMMA ChangeTypes ==
  ASSUME TypeOK, NEW g \in GPU, NEW f \in File, NEW n \in BOOLEAN, Change(g, f, n),
         runs' \in Run, prober' \in [GPU -> Prober]
  PROVE  TypeOK'
<1>1. writes' \in Write
  BY StateFilesAssumption DEF TypeOK, Change, Write
<1>2. file' \in [GPU -> File]
  BY DEF TypeOK, Change
<1>3. events' \in BOOLEAN
  BY DEF TypeOK, Change
<1> QED
  BY <1>1, <1>2, <1>3 DEF TypeOK, Change, loadVars

\* The next write has a number within the bound.
LEMMA NewFile ==
  ASSUME TypeOK, writes < MaxWrites
  PROVE  writes + 1 \in Write
BY StateFilesAssumption DEF TypeOK, Write

\* What an operator makes of a file is a file.
LEMMA ByHandIsFile ==
  ASSUME TypeOK, writes < MaxWrites, NEW g \in GPU, NEW s \in GPU, NEW d \in Drivers,
         NEW t \in {"absent", "partial", "malformed", "whole"}
  PROVE  /\ ByHand(g, t, s, d) \in File
         /\ ByHand(g, t, s, d).write = writes + 1
         /\ ByHand(g, t, s, d).text = t
<1>1. 0 \in Run
  BY StateFilesAssumption DEF Run
<1> QED
  BY <1>1, NewFile DEF ByHand, File

\* Every edit is a change to a new version of the file, which the watch reports
\* when the version is complete.
LEMMA EditIsChange ==
  ASSUME TypeOK, NEW g \in GPU, BeginWrite(g) \/ FinishWrite(g) \/ Remove(g)
  PROVE  /\ runs' = runs /\ prober' = prober
         /\ \E f \in File, n \in BOOLEAN :
              /\ Change(g, f, n)
              /\ f.write = writes + 1 /\ f.run = 0
              /\ n \/ f.text \notin {"malformed", "whole"}
<1>1. runs' = runs /\ prober' = prober
  BY DEF BeginWrite, FinishWrite, Remove, proberVars
<1>2. writes < MaxWrites
  BY DEF BeginWrite, FinishWrite, Remove, Change
<1>3. PICK t \in {"absent", "partial", "malformed", "whole"}, s \in GPU, d \in Drivers,
           n \in BOOLEAN :
        /\ Change(g, ByHand(g, t, s, d), n)
        /\ n \/ t \notin {"malformed", "whole"}
  <2>1. CASE BeginWrite(g)
    BY <2>1 DEF BeginWrite
  <2>2. CASE FinishWrite(g)
    BY <2>2 DEF FinishWrite
  <2>3. CASE Remove(g)
    BY <2>3 DEF Remove, Drivers
  <2> QED
    BY <2>1, <2>2, <2>3
<1> DEFINE f == ByHand(g, t, s, d)
<1>4. f \in File /\ f.write = writes + 1 /\ f.text = t
  BY <1>2, ByHandIsFile
<1>5. f.run = 0
  BY DEF ByHand
<1> HIDE DEF f
<1>6. Change(g, f, n) /\ (n \/ f.text \notin {"malformed", "whole"})
  BY <1>3, <1>4 DEF f
<1> QED
  BY <1>1, <1>4, <1>5, <1>6

\* So is what the probe renames.
LEMMA ProbedIsFile ==
  ASSUME TypeOK, writes < MaxWrites, NEW g \in GPU, NEW t \in {"malformed", "whole"}
  PROVE  [text |-> t, serial |-> g, driver |-> "current", write |-> writes + 1,
          run |-> prober[g].run] \in File
<1>1. prober[g].run \in Run
  BY DEF TypeOK, Prober
<1> QED
  BY <1>1, NewFile DEF File, Drivers

\* A probe that moves on or ends keeps its type.
LEMMA ProberTypes ==
  ASSUME TypeOK, NEW g \in GPU
  PROVE  /\ Ends(g) => prober' \in [GPU -> Prober]
         /\ \A l \in {"baseline", "rename"} : Moves(g, l) => prober' \in [GPU -> Prober]
<1>1. NotRunning \in Prober
  BY StateFilesAssumption DEF NotRunning, Prober, Run, Time
<1>2. Ends(g) => prober' \in [GPU -> Prober]
  BY <1>1 DEF TypeOK, Ends
<1>3. ASSUME NEW l \in {"baseline", "rename"}, Moves(g, l)
      PROVE  prober' \in [GPU -> Prober]
  <2>1. [prober[g] EXCEPT !.pc = l] \in Prober
    BY DEF TypeOK, Prober
  <2> QED
    BY <1>3, <2>1 DEF TypeOK, Moves
<1> QED
  BY <1>2, <1>3

\* The zeroed contexts have their types.
LEMMA InitTypes == Init => TypeOK
<1> SUFFICES ASSUME Init PROVE TypeOK
  OBVIOUS
<1>1. 0 \in Write /\ 0 \in Time /\ 0 \in Run
  BY StateFilesAssumption DEF Write, Time, Run
<1>2. file \in [GPU -> File]
  <2> DEFINE F == {[text |-> t, serial |-> g, driver |-> "current", write |-> 0,
                    run |-> 0] :
                     t \in {"absent", "whole"}, g \in GPU}
  <2>1. F \subseteq File
    BY <1>1 DEF File, Drivers
  <2>2. file \in [GPU -> F]
    BY DEF Init
  <2> HIDE DEF F
  <2> QED
    BY <2>1, <2>2
<1>3. probe_file \in [GPU -> ProbeFile]
  BY <1>1 DEF Init, ProbeFile
<1>4. baseline \in [GPU -> Baseline]
  BY <1>1 DEF Init, NoBaseline, Baseline, Drivers
<1>5. probe \in [GPU -> Probe]
  BY <1>1 DEF Init, NoProbe, Probe
<1>6. /\ events \in BOOLEAN
      /\ driver_mismatch \in [GPU -> BOOLEAN]
  BY DEF Init
<1>7. poll \in [GPU -> {"poll", "load"}]
  BY DEF Init
<1>8. prober \in [GPU -> Prober]
  BY <1>1 DEF Init, NotRunning, Prober
<1> QED
  BY <1>1, <1>2, <1>3, <1>4, <1>5, <1>6, <1>7, <1>8 DEF Init, TypeOK

\* Every step keeps the types.
LEMMA NextTypes == TypeOK /\ [Next]_vars => TypeOK'
<1> SUFFICES ASSUME TypeOK, [Next]_vars PROVE TypeOK'
  OBVIOUS
<1>1. CASE baseline_inotify_init
  BY <1>1 DEF TypeOK, baseline_inotify_init, diskVars, proberVars, loadVars
<1>2. CASE Tick
  <2>1. now' \in Time
    BY <1>2, StateFilesAssumption DEF TypeOK, Tick, Time
  <2> QED
    BY <1>2, <2>1 DEF TypeOK, Tick, proberVars, watchVars, loadVars
<1>3. ASSUME NEW g \in GPU, LoadBaseline(g) PROVE TypeOK'
  <2>1. baseline' \in [GPU -> Baseline]
    BY <1>3, LoadTypes DEF TypeOK, LoadBaseline
  <2> QED
    BY <1>3, <2>1 DEF TypeOK, LoadBaseline, diskVars, proberVars, watchVars
<1>4. ASSUME NEW g \in GPU, LoadProbe(g) PROVE TypeOK'
  <2>1. probe' \in [GPU -> Probe]
    BY <1>4, LoadTypes DEF TypeOK, LoadProbe
  <2> QED
    BY <1>4, <2>1 DEF TypeOK, LoadProbe, diskVars, proberVars, watchVars
<1>5. ASSUME NEW g \in GPU, baseline_inotify_check(g) PROVE TypeOK'
  BY <1>5 DEF TypeOK, baseline_inotify_check, diskVars, proberVars
<1>6. ASSUME NEW g \in GPU, Reload(g) PROVE TypeOK'
  <2>1. baseline' \in [GPU -> Baseline]
    BY <1>6, LoadTypes DEF TypeOK, Reload
  <2> QED
    BY <1>6, <2>1 DEF TypeOK, Reload, diskVars, proberVars, watchVars
<1>7. ASSUME NEW g \in GPU, BeginWrite(g) \/ FinishWrite(g) \/ Remove(g) PROVE TypeOK'
  <2>1. runs' \in Run /\ prober' \in [GPU -> Prober]
    BY <1>7, EditIsChange DEF TypeOK
  <2> QED
    BY <1>7, <2>1, EditIsChange, ChangeTypes
<1>8. ASSUME NEW g \in GPU, Measure(g) PROVE TypeOK'
  <2>1. runs' \in Run /\ runs + 1 \in Run
    BY <1>8, StateFilesAssumption DEF TypeOK, Measure, Run
  <2>2. [pc |-> "measured", run |-> runs + 1, timestamp |-> now] \in Prober
    BY <2>1 DEF TypeOK, Prober
  <2>3. prober' \in [GPU -> Prober]
    BY <1>8, <2>2 DEF TypeOK, Measure
  <2> QED
    BY <1>8, <2>1, <2>3 DEF TypeOK, Measure, watchVars, loadVars
<1>9. ASSUME NEW g \in GPU, write_probe_file(g) PROVE TypeOK'
  <2>1. prober[g].timestamp \in Time /\ prober[g].run \in Run
    BY DEF TypeOK, Prober
  <2>2. probe_file' \in [GPU -> ProbeFile]
    BY <1>9, <2>1 DEF TypeOK, write_probe_file, ProbeFile
  <2>3. prober' \in [GPU -> Prober]
    BY <1>9, ProberTypes DEF write_probe_file
  <2> QED
    BY <1>9, <2>2, <2>3 DEF TypeOK, write_probe_file, watchVars, loadVars
<1>10. ASSUME NEW g \in GPU, CloseTmp(g) PROVE TypeOK'
  <2>1. prober' \in [GPU -> Prober]
    BY <1>10, ProberTypes DEF CloseTmp
  <2>2. events' \in BOOLEAN
    BY <1>10 DEF TypeOK, CloseTmp
  <2> QED
    BY <1>10, <2>1, <2>2 DEF TypeOK, CloseTmp, loadVars
<1>11. ASSUME NEW g \in GPU, write_baseline_file(g) PROVE TypeOK'
  <2>1. writes < MaxWrites /\ runs' \in Run
    BY <1>11 DEF TypeOK, write_baseline_file, Change
  <2>2. prober' \in [GPU -> Prober]
    BY <1>11, ProberTypes DEF write_baseline_file
  <2> QED
    BY <1>11, <2>1, <2>2, ProbedIsFile, ChangeTypes DEF write_baseline_file
<1>12. ASSUME NEW g \in GPU, ProbeDies(g) PROVE TypeOK'
  <2>1. prober' \in [GPU -> Prober]
    BY <1>12, ProberTypes DEF ProbeDies
  <2> QED
    BY <1>12, <2>1 DEF TypeOK, ProbeDies, watchVars, loadVars
<1>13. CASE UNCHANGED vars
  BY <1>13 DEF TypeOK, vars, diskVars, proberVars, watchVars, loadVars
<1> QED
  BY <1>1, <1>2, <1>3, <1>4, <1>5, <1>6, <1>7, <1>8, <1>9, <1>10, <1>11, <1>12, <1>13
  DEF Next

(***************************************************************************)
(* The variables of state.c's callers keep their types, for every set of   *)
(* GPUs and all bounds.                                                    *)
(***************************************************************************)
THEOREM StateFilesTypeCorrect == Spec => []TypeOK
BY InitTypes, NextTypes, PTL DEF Spec

-----------------------------------------------------------------------------
(* No change is lost.                                                      *)

\* What makes NoLostReload inductive: a file is never newer than the count of
\* writes, and the watch begins after main has loaded every file.
Ordered ==
  /\ TypeOK
  /\ \A g \in GPU : file[g].write <= writes
  /\ to_load \subseteq to_probe
  /\ to_probe # {} => inotify = "unset"

\* The version that a change makes carries the new count of writes.
LEMMA ChangeOrdered ==
  ASSUME Ordered, NEW g \in GPU, NEW f \in File, NEW n \in BOOLEAN, Change(g, f, n),
         f.write = writes + 1, TypeOK'
  PROVE  Ordered'
<1>1. writes \in Int /\ \A h \in GPU : file[h].write \in Int
  BY StateFilesAssumption DEF Ordered, TypeOK, File, Write
<1>2. \A h \in GPU : file'[h].write <= writes'
  BY <1>1 DEF Ordered, TypeOK, Change
<1> QED
  BY <1>2 DEF Ordered, Change, loadVars

\* Every step keeps files and watch in order.
LEMMA NextOrdered == Ordered /\ [Next]_vars => Ordered'
<1> SUFFICES ASSUME Ordered, [Next]_vars PROVE Ordered'
  OBVIOUS
<1>t. TypeOK'
  BY NextTypes DEF Ordered
<1>1. CASE baseline_inotify_init
  BY <1>1, <1>t DEF Ordered, baseline_inotify_init, diskVars, loadVars
<1>2. CASE Tick
  BY <1>2, <1>t DEF Ordered, Tick, watchVars, loadVars
<1>3. ASSUME NEW g \in GPU, LoadBaseline(g) PROVE Ordered'
  BY <1>3, <1>t DEF Ordered, LoadBaseline, diskVars, watchVars
<1>4. ASSUME NEW g \in GPU, LoadProbe(g) PROVE Ordered'
  BY <1>4, <1>t DEF Ordered, LoadProbe, diskVars, watchVars
<1>5. ASSUME NEW g \in GPU, baseline_inotify_check(g) PROVE Ordered'
  BY <1>5, <1>t DEF Ordered, baseline_inotify_check, diskVars
<1>6. ASSUME NEW g \in GPU, Reload(g) PROVE Ordered'
  BY <1>6, <1>t DEF Ordered, Reload, diskVars, watchVars
<1>7. ASSUME NEW g \in GPU, BeginWrite(g) \/ FinishWrite(g) \/ Remove(g) PROVE Ordered'
  <2>1. TypeOK
    BY DEF Ordered
  <2> QED
    BY <1>7, <1>t, <2>1, EditIsChange, ChangeOrdered
<1>8. ASSUME NEW g \in GPU, write_baseline_file(g) PROVE Ordered'
  <2>1. writes < MaxWrites /\ TypeOK
    BY <1>8 DEF Ordered, write_baseline_file, Change
  <2> QED
    BY <1>8, <1>t, <2>1, ProbedIsFile, ChangeOrdered DEF write_baseline_file
<1>9. CASE UNCHANGED << file, writes, loadVars, inotify >>
  BY <1>9, <1>t DEF Ordered, loadVars
<1>10. CASE \E g \in GPU : Measure(g) \/ write_probe_file(g) \/ CloseTmp(g) \/ ProbeDies(g)
  BY <1>9, <1>10 DEF Measure, write_probe_file, CloseTmp, ProbeDies, watchVars
<1>11. CASE UNCHANGED vars
  BY <1>9, <1>11 DEF vars, diskVars, watchVars
<1> QED
  BY <1>1, <1>2, <1>3, <1>4, <1>5, <1>6, <1>7, <1>8, <1>10, <1>11 DEF Next

\* A change is announced and queued together, or not announced at all.
LEMMA ChangeLosesNothing ==
  ASSUME Ordered, NoLostReload, NEW g \in GPU, NEW f \in File, NEW n \in BOOLEAN,
         Change(g, f, n), n \/ f.text \notin {"malformed", "whole"}
  PROVE  NoLostReload'
<1> SUFFICES ASSUME NEW h \in GPU, Announced(h)', baseline'[h].write # file'[h].write
             PROVE  events' \/ poll'[h] = "load"
  BY DEF NoLostReload
<1>1. inotify = "watching" /\ baseline' = baseline /\ poll' = poll
  BY DEF Change, Announced, loadVars
<1>2. CASE h = g
  <2>1. file'[h] = f
    BY <1>2 DEF Change, Ordered, TypeOK
  <2>2. n
    BY <2>1 DEF Announced
  <2> QED
    BY <1>1, <2>2 DEF Change
<1>3. CASE h # g
  <2>1. file'[h] = file[h] /\ watched_from' = watched_from
    BY <1>3 DEF Change, Ordered, TypeOK
  <2>2. events \/ poll[h] = "load"
    BY <1>1, <2>1 DEF NoLostReload, Announced
  <2> QED
    BY <1>1, <2>2 DEF Change
<1> QED
  BY <1>2, <1>3

\* With a single GPU the thread that drains the queue is the one that reloads.
LEMMA NextLosesNothing ==
  ASSUME NEW only \in GPU, GPU = {only}, Ordered, NoLostReload, [Next]_vars
  PROVE  NoLostReload'
<1>1. CASE baseline_inotify_init
  <2>1. \A g \in GPU : ~ Announced(g)'
    BY <1>1, StateFilesAssumption
    DEF Ordered, TypeOK, File, Write, baseline_inotify_init, Announced, diskVars
  <2> QED
    BY <2>1 DEF NoLostReload
<1>2. CASE Tick
  BY <1>2 DEF NoLostReload, Announced, Tick, watchVars, loadVars
<1>3. ASSUME NEW g \in GPU, LoadBaseline(g) \/ LoadProbe(g) PROVE NoLostReload'
  BY <1>3 DEF Ordered, NoLostReload, Announced, LoadBaseline, LoadProbe, watchVars
<1>4. ASSUME NEW g \in GPU, baseline_inotify_check(g) PROVE NoLostReload'
  <2>1. \A h \in GPU : poll'[h] = "load"
    BY <1>4 DEF Ordered, TypeOK, baseline_inotify_check
  <2> QED
    BY <2>1 DEF NoLostReload
<1>5. ASSUME NEW g \in GPU, Reload(g) PROVE NoLostReload'
  <2>1. \A h \in GPU : baseline'[h].write = file'[h].write
    BY <1>5 DEF Ordered, TypeOK, Reload, baseline_load, diskVars
  <2> QED
    BY <2>1 DEF NoLostReload
<1>6. ASSUME NEW g \in GPU, BeginWrite(g) \/ FinishWrite(g) \/ Remove(g)
      PROVE  NoLostReload'
  <2>1. TypeOK
    BY DEF Ordered
  <2> QED
    BY <1>6, <2>1, EditIsChange, ChangeLosesNothing
<1>7. ASSUME NEW g \in GPU, write_baseline_file(g) PROVE NoLostReload'
  <2>1. writes < MaxWrites /\ TypeOK
    BY <1>7 DEF Ordered, write_baseline_file, Change
  <2> QED
    BY <1>7, <2>1, ProbedIsFile, ChangeLosesNothing DEF write_baseline_file
<1>8. ASSUME NEW g \in GPU, CloseTmp(g) PROVE NoLostReload'
  BY <1>8 DEF NoLostReload, Announced, CloseTmp, loadVars
<1>9. CASE UNCHANGED << file, watchVars, loadVars >>
  BY <1>9 DEF NoLostReload, Announced, watchVars, loadVars
<1>10. CASE \E g \in GPU : Measure(g) \/ write_probe_file(g) \/ ProbeDies(g)
  BY <1>9, <1>10 DEF Measure, write_probe_file, ProbeDies
<1>11. CASE UNCHANGED vars
  BY <1>9, <1>11 DEF vars, diskVars
<1> QED
  BY <1>1, <1>2, <1>3, <1>4, <1>5, <1>6, <1>7, <1>8, <1>10, <1>11 DEF Next

(***************************************************************************)
(* On a host with one GPU the check of the queue before the load, and the  *)
(* watch's choice of events, lose no change to the baseline file, however  *)
(* often and in whatever state it is written (state.c:272-313,             *)
(* collector.c:402-418).  With a second GPU this does not hold.            *)
(***************************************************************************)
THEOREM OneGpuLosesNoReload ==
  ASSUME NEW only \in GPU, GPU = {only}
  PROVE  Spec => []NoLostReload
<1>1. Init => Ordered /\ NoLostReload
  BY InitTypes DEF Init, Ordered, NoLostReload, Announced
<1>2. Ordered /\ NoLostReload /\ [Next]_vars => (Ordered /\ NoLostReload)'
  BY NextOrdered, NextLosesNothing
<1> QED
  BY <1>1, <1>2, PTL DEF Spec

-----------------------------------------------------------------------------
\* Only main sets stale, and the clock does not go back.
LEMMA NextExpired == TypeOK /\ StaleMeansExpired /\ [Next]_vars => StaleMeansExpired'
<1> SUFFICES ASSUME TypeOK, StaleMeansExpired, [Next]_vars PROVE StaleMeansExpired'
  OBVIOUS
<1>1. ASSUME NEW g \in GPU, LoadProbe(g) PROVE StaleMeansExpired'
  BY <1>1 DEF TypeOK, StaleMeansExpired, LoadProbe, probe_load, Expired, diskVars
<1>2. CASE Tick
  BY <1>2, StateFilesAssumption
  DEF TypeOK, StaleMeansExpired, Tick, Time, Probe, loadVars
<1>3. CASE UNCHANGED << now, probe >>
  BY <1>3 DEF StaleMeansExpired
<1> QED
  BY <1>1, <1>2, <1>3
  DEF Next, baseline_inotify_init, baseline_inotify_check, Reload, BeginWrite,
      FinishWrite, Remove, Change, LoadBaseline, Measure, write_probe_file, CloseTmp,
      write_baseline_file, ProbeDies, vars, diskVars, watchVars, loadVars

(***************************************************************************)
(* A probe result that the scorer ignores as stale is older than its time  *)
(* to live, for every time to live and whatever the probe's clock says     *)
(* (state.c:254-263).                                                      *)
(***************************************************************************)
THEOREM StaleOnlyWhenExpired == Spec => []StaleMeansExpired
<1>1. Init => StaleMeansExpired
  BY DEF Init, NoProbe, StaleMeansExpired
<1> QED
  BY <1>1, StateFilesTypeCorrect, NextExpired, PTL DEF Spec

-----------------------------------------------------------------------------
(* The two files of one run.                                               *)

\* What makes StartsFromOneRun inductive: the file of the result is never
\* behind the baseline, on disk or loaded, and a probe on its way to write
\* either is not behind the result that is there.
ResultFirst(g) ==
  /\ file[g].run <= probe_file[g].run
  /\ baseline[g].run <= probe_file[g].run
  /\ probe_file[g].run <= runs
  /\ prober[g].pc = "measured" => probe_file[g].run <= prober[g].run
  /\ prober[g].pc \in {"baseline", "rename"} => prober[g].run = probe_file[g].run
  /\ prober[g].run <= runs

OneRunInv ==
  /\ Ordered
  /\ \A g \in GPU : ResultFirst(g)
  /\ inotify = "unset" => \A g \in GPU : poll[g] = "poll"
  /\ StartsFromOneRun

\* A change of a baseline file that is not ahead of the result.
LEMMA ChangeKeepsRuns ==
  ASSUME OneRunInv, NEW g \in GPU, NEW f \in File, NEW n \in BOOLEAN, Change(g, f, n),
         f.run <= probe_file[g].run, runs' = runs,
         \A h \in GPU : prober'[h] \in {prober[h], NotRunning},
         Ordered'
  PROVE  OneRunInv'
<1>1. /\ baseline' = baseline /\ probe_file' = probe_file /\ inotify' = inotify
      /\ poll' = poll /\ probe' = probe /\ to_probe' = to_probe
  BY DEF Change, loadVars
<1>2. StartsFromOneRun'
  BY <1>1 DEF OneRunInv, StartsFromOneRun
<1>3. ASSUME NEW h \in GPU PROVE ResultFirst(h)'
  <2>1. ResultFirst(h) /\ runs \in Int /\ 0 <= runs
    BY StateFilesAssumption DEF OneRunInv, Ordered, TypeOK, Run
  <2>2. file'[h].run <= probe_file'[h].run
    BY <1>1, <2>1 DEF Change, OneRunInv, Ordered, TypeOK, ResultFirst
  <2>3. CASE prober'[h] = prober[h]
    BY <1>1, <2>1, <2>2, <2>3 DEF ResultFirst
  <2>4. CASE prober'[h] = NotRunning
    BY <1>1, <2>1, <2>2, <2>4 DEF ResultFirst, NotRunning
  <2> QED
    BY <2>3, <2>4
<1> QED
  BY <1>1, <1>2, <1>3 DEF OneRunInv

\* Every step keeps the result ahead of the baseline.
LEMMA NextOneRun == OneRunInv /\ [Next]_vars => OneRunInv'
<1> SUFFICES ASSUME OneRunInv, [Next]_vars PROVE OneRunInv'
  OBVIOUS
<1>o. Ordered' /\ TypeOK'
  BY NextOrdered DEF OneRunInv, Ordered
<1>i. \A h \in GPU : /\ file[h].run \in Nat /\ baseline[h].run \in Nat
                     /\ probe_file[h].run \in Nat /\ prober[h].run \in Nat
                     /\ probe[h].run \in Nat /\ runs \in Nat
  BY StateFilesAssumption
  DEF OneRunInv, Ordered, TypeOK, File, Baseline, ProbeFile, Prober, Probe, Run
<1>1. CASE baseline_inotify_init
  <2>1. inotify' # "unset" /\ UNCHANGED << diskVars, loadVars >>
    BY <1>1 DEF baseline_inotify_init
  <2> QED
    BY <1>o, <2>1
    DEF OneRunInv, ResultFirst, StartsFromOneRun, diskVars, proberVars, loadVars
<1>2. CASE UNCHANGED << file, probe_file, proberVars, inotify, loadVars >>
  BY <1>2, <1>o DEF OneRunInv, ResultFirst, StartsFromOneRun, proberVars, loadVars
<1>3. ASSUME NEW g \in GPU, LoadBaseline(g) PROVE OneRunInv'
  <2>1. UNCHANGED << file, probe_file, prober, runs, inotify, poll, to_probe, probe >>
    BY <1>3 DEF LoadBaseline, diskVars, proberVars, watchVars
  <2>2. \A h \in GPU : baseline'[h].run \in {baseline[h].run, file[h].run}
    BY <1>3 DEF LoadBaseline, baseline_load, OneRunInv, Ordered, TypeOK
  <2>3. \A h \in GPU : h # g => baseline'[h] = baseline[h]
    BY <1>3 DEF LoadBaseline, OneRunInv, Ordered, TypeOK
  <2>4. g \in to_probe'
    BY <1>3, <2>1 DEF LoadBaseline, OneRunInv, Ordered
  <2>5. StartsFromOneRun'
    BY <2>1, <2>3, <2>4 DEF OneRunInv, StartsFromOneRun
  <2>6. \A h \in GPU : ResultFirst(h)'
    BY <2>1, <2>2 DEF OneRunInv, ResultFirst
  <2> QED
    BY <1>o, <2>1, <2>5, <2>6 DEF OneRunInv
<1>4. ASSUME NEW g \in GPU, LoadProbe(g) PROVE OneRunInv'
  <2>1. UNCHANGED << file, probe_file, prober, runs, inotify, poll, baseline >>
    BY <1>4 DEF LoadProbe, diskVars, proberVars, watchVars
  <2>2. probe'[g].run = probe_file[g].run
    BY <1>4 DEF LoadProbe, probe_load, OneRunInv, Ordered, TypeOK
  <2>3. \A h \in GPU : h # g => probe'[h] = probe[h] /\ (h \in to_probe <=> h \in to_probe')
    BY <1>4 DEF LoadProbe, OneRunInv, Ordered, TypeOK
  <2>4. baseline[g].run <= probe_file[g].run
    BY DEF OneRunInv, ResultFirst
  <2>5. StartsFromOneRun'
    BY <2>1, <2>2, <2>3, <2>4 DEF OneRunInv, StartsFromOneRun
  <2> QED
    BY <1>o, <2>1, <2>5 DEF OneRunInv, ResultFirst
<1>5. ASSUME NEW g \in GPU, baseline_inotify_check(g) PROVE OneRunInv'
  <2>1. inotify' # "unset"
        /\ UNCHANGED << file, probe_file, prober, runs, baseline >>
    BY <1>5 DEF baseline_inotify_check, diskVars, proberVars
  <2> QED
    BY <1>o, <2>1 DEF OneRunInv, ResultFirst, StartsFromOneRun
<1>6. ASSUME NEW g \in GPU, Reload(g) PROVE OneRunInv'
  <2>1. UNCHANGED << file, probe_file, prober, runs, inotify >>
    BY <1>6 DEF Reload, diskVars, proberVars, watchVars
  <2>2. inotify # "unset"
    BY <1>6 DEF Reload, OneRunInv
  <2>3. \A h \in GPU : baseline'[h].run \in {baseline[h].run, file[h].run}
    BY <1>6 DEF Reload, baseline_load, OneRunInv, Ordered, TypeOK
  <2>4. \A h \in GPU : ResultFirst(h)'
    BY <2>1, <2>3 DEF OneRunInv, ResultFirst
  <2> QED
    BY <1>o, <2>1, <2>2, <2>4 DEF OneRunInv, StartsFromOneRun
<1>7. ASSUME NEW g \in GPU, BeginWrite(g) \/ FinishWrite(g) \/ Remove(g) PROVE OneRunInv'
  <2>1. TypeOK
    BY DEF OneRunInv, Ordered
  <2>2. runs' = runs /\ prober' = prober
    BY <1>7, <2>1, EditIsChange
  <2>3. PICK f \in File, n \in BOOLEAN : Change(g, f, n) /\ f.run = 0
    BY <1>7, <2>1, EditIsChange
  <2>4. f.run <= probe_file[g].run
    BY <1>i, <2>3
  <2> QED
    BY <1>o, <2>2, <2>3, <2>4, ChangeKeepsRuns
<1>8. ASSUME NEW g \in GPU, Measure(g) PROVE OneRunInv'
  <2>1. UNCHANGED << file, probe_file, inotify, poll, baseline, probe, to_probe >>
    BY <1>8 DEF Measure, watchVars, loadVars
  <2>2. runs' = runs + 1
    BY <1>8 DEF Measure
  <2>3. /\ prober'[g] = [pc |-> "measured", run |-> runs + 1, timestamp |-> now]
        /\ \A h \in GPU : h # g => prober'[h] = prober[h]
    BY <1>8 DEF Measure, OneRunInv, Ordered, TypeOK
  <2>4. ASSUME NEW h \in GPU PROVE ResultFirst(h)'
    <3>1. ResultFirst(h)
      BY DEF OneRunInv
    <3>2. CASE h = g
      BY <1>i, <2>1, <2>2, <2>3, <3>1, <3>2 DEF ResultFirst
    <3>3. CASE h # g
      BY <1>i, <2>1, <2>2, <2>3, <3>1, <3>3 DEF ResultFirst
    <3> QED
      BY <3>2, <3>3
  <2> QED
    BY <1>o, <2>1, <2>4 DEF OneRunInv, StartsFromOneRun
<1>9. ASSUME NEW g \in GPU, write_probe_file(g) PROVE OneRunInv'
  <2>1. UNCHANGED << file, runs, inotify, poll, baseline, probe, to_probe >>
    BY <1>9 DEF write_probe_file, watchVars, loadVars
  <2>2. /\ probe_file'[g].run = prober[g].run
        /\ \A h \in GPU : h # g => probe_file'[h] = probe_file[h]
    BY <1>9 DEF write_probe_file, OneRunInv, Ordered, TypeOK
  <2>3. \A h \in GPU : h # g => prober'[h] = prober[h]
    BY <1>9 DEF write_probe_file, Ends, Moves, OneRunInv, Ordered, TypeOK
  <2>4. \/ prober'[g].pc = "idle" /\ prober'[g].run = 0
        \/ prober'[g].pc = "baseline" /\ prober'[g].run = prober[g].run
    <3>1. CASE Ends(g)
      BY <3>1 DEF Ends, NotRunning, OneRunInv, Ordered, TypeOK
    <3>2. CASE Moves(g, "baseline")
      BY <3>2 DEF Moves, OneRunInv, Ordered, TypeOK, Prober
    <3> QED
      BY <1>9, <3>1, <3>2 DEF write_probe_file
  <2>5. ASSUME NEW h \in GPU PROVE ResultFirst(h)'
    <3>1. ResultFirst(h)
      BY DEF OneRunInv
    <3>2. CASE h = g
      <4>1. prober[g].pc = "measured"
        BY <1>9 DEF write_probe_file
      <4>2. /\ file[g].run <= prober[g].run /\ baseline[g].run <= prober[g].run
            /\ prober[g].run <= runs
        BY <1>i, <3>1, <3>2, <4>1 DEF ResultFirst
      <4> QED
        BY <1>i, <2>1, <2>2, <2>4, <3>2, <4>2 DEF ResultFirst
    <3>3. CASE h # g
      BY <2>1, <2>2, <2>3, <3>1, <3>3 DEF ResultFirst
    <3> QED
      BY <3>2, <3>3
  <2> QED
    BY <1>o, <2>1, <2>5 DEF OneRunInv, StartsFromOneRun
<1>10. ASSUME NEW g \in GPU, CloseTmp(g) PROVE OneRunInv'
  <2>1. /\ UNCHANGED << file, probe_file, runs, inotify, poll, baseline, probe, to_probe >>
        /\ prober[g].pc = "baseline"
    BY <1>10 DEF CloseTmp, loadVars
  <2>2. /\ prober'[g].pc = "rename" /\ prober'[g].run = prober[g].run
        /\ \A h \in GPU : h # g => prober'[h] = prober[h]
    BY <1>10 DEF CloseTmp, Moves, OneRunInv, Ordered, TypeOK, Prober
  <2>3. \A h \in GPU : ResultFirst(h)'
    BY <2>1, <2>2 DEF OneRunInv, ResultFirst
  <2> QED
    BY <1>o, <2>1, <2>3 DEF OneRunInv, StartsFromOneRun
<1>11. ASSUME NEW g \in GPU, write_baseline_file(g) PROVE OneRunInv'
  <2>1. TypeOK /\ writes < MaxWrites
    BY <1>11 DEF OneRunInv, Ordered, write_baseline_file, Change
  <2>2. PICK t \in {"malformed", "whole"} :
          Change(g, [text |-> t, serial |-> g, driver |-> "current",
                     write |-> writes + 1, run |-> prober[g].run], TRUE)
    BY <1>11 DEF write_baseline_file
  <2> DEFINE f == [text |-> t, serial |-> g, driver |-> "current",
                   write |-> writes + 1, run |-> prober[g].run]
  <2>3. f \in File
    BY <2>1, ProbedIsFile
  <2>4. f.run = prober[g].run
    OBVIOUS
  <2> HIDE DEF f
  <2>5. Change(g, f, TRUE)
    BY <2>2 DEF f
  <2>6. f.run <= probe_file[g].run
    BY <1>i, <1>11, <2>4 DEF write_baseline_file, OneRunInv, ResultFirst
  <2>7. runs' = runs /\ \A h \in GPU : prober'[h] \in {prober[h], NotRunning}
    BY <1>11, <2>1 DEF write_baseline_file, Ends, TypeOK
  <2> QED
    BY <1>o, <2>3, <2>5, <2>6, <2>7, ChangeKeepsRuns
<1>12. ASSUME NEW g \in GPU, ProbeDies(g) PROVE OneRunInv'
  <2>1. UNCHANGED << file, probe_file, runs, inotify, poll, baseline, probe, to_probe >>
    BY <1>12 DEF ProbeDies, watchVars, loadVars
  <2>2. \A h \in GPU : prober'[h] \in {prober[h], NotRunning}
    BY <1>12 DEF ProbeDies, Ends, OneRunInv, Ordered, TypeOK
  <2>3. \A h \in GPU : ResultFirst(h)'
    BY <1>i, <2>1, <2>2 DEF OneRunInv, ResultFirst, NotRunning
  <2> QED
    BY <1>o, <2>1, <2>3 DEF OneRunInv, StartsFromOneRun
<1>13. CASE Tick \/ UNCHANGED vars
  BY <1>2, <1>13 DEF Tick, vars, diskVars, watchVars
<1> QED
  BY <1>1, <1>3, <1>4, <1>5, <1>6, <1>7, <1>8, <1>9, <1>10, <1>11, <1>12, <1>13
  DEF Next

(***************************************************************************)
(* Whatever runs of the probe, edits and crashes come between main's two   *)
(* reads, the scorer does not start with a baseline of a later run than    *)
(* its probe result, for any number of GPUs, runs and writes, as long as   *)
(* no two runs for one GPU overlap (gpu_health_probe.cu:415-432,           *)
(* main.c:505-521).                                                        *)
(***************************************************************************)
THEOREM StartupReadsOneRun == Spec => []StartsFromOneRun
<1>1. Init => OneRunInv
  <2> SUFFICES ASSUME Init PROVE OneRunInv
    OBVIOUS
  <2>1. TypeOK
    BY InitTypes
  <2>2. ASSUME NEW g \in GPU
        PROVE  /\ file[g].run = 0 /\ file[g].write = 0 /\ probe_file[g].run = 0
               /\ baseline[g].run = 0 /\ prober[g] = NotRunning
    <3>1. file[g] \in {[text |-> t, serial |-> h, driver |-> "current",
                        write |-> 0, run |-> 0] : t \in {"absent", "whole"}, h \in GPU}
      BY DEF Init
    <3>2. PICK t \in {"absent", "whole"}, h \in GPU :
            file[g] = [text |-> t, serial |-> h, driver |-> "current",
                       write |-> 0, run |-> 0]
      BY <3>1
    <3>3. probe_file[g] \in [text : {"absent", "whole"}, timestamp : Time, run : {0}]
      BY DEF Init
    <3>4. probe_file[g].run = 0
      BY <3>3
    <3>5. baseline[g].run = 0 /\ prober[g] = NotRunning
      BY DEF Init, NoBaseline
    <3> QED
      BY <3>2, <3>4, <3>5
  <2>3. ASSUME NEW g \in GPU PROVE ResultFirst(g)
    <3>1. prober[g].run = 0 /\ prober[g].pc \notin {"measured", "baseline", "rename"}
      BY <2>2 DEF NotRunning
    <3>2. runs = 0
      BY DEF Init
    <3> QED
      BY <2>2, <3>1, <3>2 DEF ResultFirst
  <2>4. Ordered
    BY <2>1, <2>2 DEF Init, Ordered
  <2>5. StartsFromOneRun
    BY DEF Init, StartsFromOneRun
  <2> QED
    BY <2>3, <2>4, <2>5 DEF Init, OneRunInv
<1>2. OneRunInv => StartsFromOneRun
  BY DEF OneRunInv
<1> QED
  BY <1>1, <1>2, NextOneRun, PTL DEF Spec
=============================================================================
