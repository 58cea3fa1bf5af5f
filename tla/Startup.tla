------------------------------ MODULE Startup -------------------------------
(***************************************************************************)
(* main() from its first line to its last: configuration, the two vendor   *)
(* libraries, enumeration of the GPUs, the poll threads, the signal        *)
(* handlers, the wait for the first polls, and shutdown_all.  What the     *)
(* poll threads do is module Collector; sockets, the HTTP child and its    *)
(* respawn are module Supervisor.                                          *)
(***************************************************************************)
EXTENDS Config, FiniteSets

CONSTANTS
  NumGpus,       \* what DeviceGetCount returns
  MaxLines,      \* bound: lines of the configuration file
  EnvKey,        \* bound: the keys whose variables may be set
  Text           \* bound: the values a line or a variable gives to each key

ASSUME StartupAssumption ==
  /\ NumGpus \in Nat \ {0}
  /\ MaxLines \in Nat
  /\ EnvKey \subseteq Key
  /\ Unset \notin Text

GPU == 1 .. NumGpus

VARIABLES
  pc,              \* where main() is
  readable, file, env,   \* the configuration's inputs; readable: the file is
                   \* there and fopen succeeds
  cfg,             \* exp.cfg
  nvml,            \* libnvidia-ml: "closed", "open", or "up" after Init
  dcgm,            \* libdcgm: is it open, what its vtable holds, how often it
                   \* was initialised, and whether it is connected
  dcgm_available,  \* exp.dcgm_available: 0, -1 (tentative) or 1
  next,            \* the loop index i of main()
  identity_source, \* ctx->identity_source
  thread,          \* the poll threads
  ready,           \* ctx->ready
  handlers,        \* the signal handlers are installed
  g_running,
  stop,            \* ctx->stop, set for all threads together
  term,            \* SIGTERM was sent
  exit             \* how main() ends: its code, "signal" or "crash"

confVars == << readable, file, env, cfg >>
libVars == << nvml, dcgm, dcgm_available >>
gpuVars == << next, identity_source, thread, ready >>
sigVars == << handlers, g_running, stop, term >>
vars == << pc, confVars, libVars, gpuVars, sigVars, exit >>

Line == {[key |-> k, text |-> t] : k \in Key, t \in Text}
          \cup {[key |-> "unknown", text |-> Garbage]}
NoEnv == [k \in Key |-> Unset]
Environment == {[k \in Key |-> IF k \in EnvKey THEN e[k] ELSE Unset] :
                  e \in [EnvKey -> Text \cup {Unset}]}

Closed == [open |-> FALSE, vtable |-> "null", inits |-> 0, connected |-> FALSE]

Init ==
  /\ pc = "config"
  /\ readable \in BOOLEAN
  /\ file \in BoundedSeq(Line, MaxLines)
  /\ env \in Environment
  /\ cfg = cfg_defaults
  /\ nvml = "closed"
  /\ dcgm = Closed
  /\ dcgm_available = 0
  /\ next = 1
  /\ identity_source = [g \in GPU |-> "none"]
  /\ thread = [g \in GPU |-> "none"]
  /\ ready = [g \in GPU |-> FALSE]
  /\ handlers = FALSE
  /\ g_running = TRUE
  /\ stop = FALSE
  /\ term = FALSE
  /\ exit = "no"

\* return code, after the calls that nvml' and the rest describe.
Return(code) == pc' = "ended" /\ exit' = code
Goto(label) == pc' = label /\ exit' = exit

-----------------------------------------------------------------------------
(* Mutated forms, used to confirm that the properties below can fail.      *)

CountFails_NoShutdown ==
  /\ pc = "count"
  /\ Return("1")
  /\ UNCHANGED << confVars, libVars, gpuVars, sigVars >>

SetupFails_StaysTentative ==
  /\ dcgm' = Closed
  /\ UNCHANGED dcgm_available

LeaveMonitor_NoStop ==
  /\ pc = "monitor" /\ ~g_running
  /\ Goto("join")
  /\ UNCHANGED << confVars, libVars, gpuVars, sigVars >>

-----------------------------------------------------------------------------
(* Configuration and directories.                                          *)

\* The inputs are read once; they are then forgotten, so that states merge.
LoadConfig ==
  /\ pc = "config"
  /\ LET r == config_load(readable, file, env)
     IN  /\ cfg' = r.cfg
         /\ IF r.ok /\ config_validate(r.cfg) THEN Goto("dirs") ELSE Return("1")
  /\ readable' = FALSE /\ file' = << >> /\ env' = NoEnv
  /\ UNCHANGED << libVars, gpuVars, sigVars >>

\* state_dir must be writable; an unreadable baseline_dir is only logged.
CheckDirs ==
  /\ pc = "dirs"
  /\ Goto("nvml") \/ Return("1")
  /\ UNCHANGED << confVars, libVars, gpuVars, sigVars >>

-----------------------------------------------------------------------------
(* The libraries.                                                          *)

\* dlopen fails, or a required symbol is missing and the library is closed.
nvml_load ==
  /\ pc = "nvml"
  /\ \/ nvml' = "open" /\ Goto("nvmlInit")
     \/ nvml' = "closed" /\ Return("1")
  /\ UNCHANGED << confVars, dcgm, dcgm_available, gpuVars, sigVars >>

NvmlInit ==
  /\ pc = "nvmlInit"
  /\ \/ nvml' = "up" /\ Goto("dcgm")
     \/ nvml' = "closed" /\ Return("1")
  /\ UNCHANGED << confVars, dcgm, dcgm_available, gpuVars, sigVars >>

\* A missing required symbol closes the library but leaves in the vtable the
\* pointers found before it; main does not clear them.
dcgm_load ==
  /\ pc = "dcgm"
  /\ dcgm' \in {Closed, [Closed EXCEPT !.vtable = "dangling"],
                [Closed EXCEPT !.open = TRUE, !.vtable = "valid"]}
  /\ Goto(IF dcgm'.open THEN "dcgmInit" ELSE "count")
  /\ UNCHANGED << confVars, nvml, dcgm_available, gpuVars, sigVars >>

DcgmInit ==
  /\ pc = "dcgmInit"
  /\ \/ dcgm' = [dcgm EXCEPT !.inits = 1] /\ dcgm_available' = -1
     \/ dcgm' = Closed /\ dcgm_available' = 0
  /\ Goto("count")
  /\ UNCHANGED << confVars, nvml, gpuVars, sigVars >>

\* dcgm_setup fails in Init, in Connect (Shutdown then undoes its Init), or
\* later (Disconnect and Shutdown then undo both); main unloads the library,
\* which forgets its own Init, and zeroes the vtable.
SetupFails ==
  /\ dcgm' = Closed
  /\ dcgm_available' = 0

dcgm_setup ==
  \/ /\ dcgm' = [dcgm EXCEPT !.inits = @ + 1, !.connected = TRUE]
     /\ dcgm_available' = 1
  \/ SetupFails

-----------------------------------------------------------------------------
(* The GPUs.                                                               *)

\* No GPU, a failing DeviceGetCount or calloc: NVML is shut down and closed.
CountFails ==
  /\ pc = "count"
  /\ nvml' = "closed"
  /\ Return("1")
  /\ UNCHANGED << confVars, dcgm, dcgm_available, gpuVars, sigVars >>

DeviceGetCount ==
  /\ pc = "count"
  /\ Goto("enumerate")
  /\ UNCHANGED << confVars, libVars, gpuVars, sigVars >>

\* One turn of the enumeration loop: without a serial the UUID is the GPU's
\* identity, whether or not it can be read.  No failing call ends the startup.
Enumerate ==
  /\ pc = "enumerate"
  /\ \E id \in {"serial", "uuid"} :
       identity_source' = [identity_source EXCEPT ![next] = id]
  /\ next' = IF next = NumGpus THEN 1 ELSE next + 1
  /\ Goto(IF next = NumGpus THEN "setup" ELSE "enumerate")
  /\ UNCHANGED << confVars, libVars, thread, ready, sigVars >>

ConnectDcgm ==
  /\ pc = "setup"
  /\ IF dcgm_available = -1 THEN dcgm_setup
                            ELSE UNCHANGED << dcgm, dcgm_available >>
  /\ Goto("threads")
  /\ UNCHANGED << confVars, nvml, gpuVars, sigVars >>

\* One turn of the loop around collector_start, which resets ready and fails
\* when memory or the thread cannot be had; main then sets ready.
StartThread ==
  /\ pc = "threads"
  /\ \E ok \in BOOLEAN :
       /\ thread' = [thread EXCEPT ![next] = IF ok THEN "running" ELSE "failed"]
       /\ ready' = [ready EXCEPT ![next] = ~ok]
  /\ next' = IF next = NumGpus THEN 1 ELSE next + 1
  /\ Goto(IF next = NumGpus THEN "handlers" ELSE "threads")
  /\ UNCHANGED << confVars, libVars, identity_source, sigVars >>

\* The thread's first poll has succeeded or failed; a GPU that is lost ends it.
Poll(g) ==
  /\ thread[g] = "running" /\ pc # "ended"
  /\ \E t \in {"running", "lost"} : thread' = [thread EXCEPT ![g] = t]
  /\ ready' = [ready EXCEPT ![g] = TRUE]
  /\ UNCHANGED << pc, confVars, libVars, next, identity_source, sigVars, exit >>

ThreadStops(g) ==
  /\ thread[g] = "running" /\ stop /\ pc # "ended"
  /\ thread' = [thread EXCEPT ![g] = "stopped"]
  /\ UNCHANGED << pc, confVars, libVars, next, identity_source, ready, sigVars,
                  exit >>

-----------------------------------------------------------------------------
(* Running and ending.                                                     *)

InstallHandlers ==
  /\ pc = "handlers"
  /\ handlers' = TRUE
  /\ Goto("spawn")
  /\ UNCHANGED << confVars, libVars, gpuVars, g_running, stop, term >>

\* shutdown_all begins by asking every thread to stop.
Spawn ==
  /\ pc = "spawn"
  /\ \/ Goto("wait") /\ UNCHANGED stop
     \/ pc' = "join" /\ exit' = "1" /\ stop' = TRUE
  /\ UNCHANGED << confVars, libVars, gpuVars, handlers, g_running, term >>

\* All are ready, the deadline has passed, or a signal has come.
WaitEnds ==
  /\ pc = "wait"
  /\ Goto("monitor")
  /\ UNCHANGED << confVars, libVars, gpuVars, sigVars >>

\* A respawn that fails clears g_running.
RespawnFails ==
  /\ pc = "monitor" /\ g_running
  /\ g_running' = FALSE
  /\ UNCHANGED << pc, confVars, libVars, gpuVars, handlers, stop, term, exit >>

LeaveMonitor ==
  /\ pc = "monitor" /\ ~g_running
  /\ Goto("join")
  /\ stop' = TRUE
  /\ UNCHANGED << confVars, libVars, gpuVars, handlers, g_running, term >>

\* There is no thread behind ctx->thread.
NeverCreated(g) == thread[g] = "failed"

\* collector_stop joins a thread that has ended; joining one that was never
\* created is undefined: the call fails or the process crashes.
collector_stop ==
  /\ pc = "join"
  /\ thread[next] # "running"
  /\ \/ /\ next' = IF next = NumGpus THEN 1 ELSE next + 1
        /\ Goto(IF next = NumGpus THEN "teardown" ELSE "join")
     \/ NeverCreated(next) /\ Return("crash") /\ UNCHANGED next
  /\ UNCHANGED << confVars, libVars, identity_source, thread, ready, sigVars >>

\* The rest of shutdown_all; it returns 0 unless the first spawn had failed.
Teardown ==
  /\ pc = "teardown"
  /\ nvml' = "closed"
  /\ dcgm' = IF dcgm_available # 0
             THEN [dcgm EXCEPT !.inits = @ - 1, !.open = FALSE,
                               !.vtable = "dangling", !.connected = FALSE]
             ELSE dcgm
  /\ Return(IF exit = "no" THEN "0" ELSE exit)
  /\ UNCHANGED << confVars, dcgm_available, gpuVars, sigVars >>

\* Before the handlers are installed SIGTERM ends the process.
Sigterm ==
  /\ pc # "ended" /\ ~term
  /\ term' = TRUE
  /\ IF handlers
     THEN g_running' = FALSE /\ UNCHANGED << pc, exit >>
     ELSE Return("signal") /\ UNCHANGED g_running
  /\ UNCHANGED << confVars, libVars, gpuVars, handlers, stop >>

Main ==
  \/ LoadConfig \/ CheckDirs \/ nvml_load \/ NvmlInit \/ dcgm_load \/ DcgmInit
  \/ CountFails \/ DeviceGetCount \/ Enumerate \/ ConnectDcgm \/ StartThread
  \/ InstallHandlers \/ Spawn \/ WaitEnds \/ LeaveMonitor \/ collector_stop
  \/ Teardown

Next ==
  \/ Main
  \/ RespawnFails
  \/ Sigterm
  \/ \E g \in GPU : Poll(g) \/ ThreadStops(g)

Spec == Init /\ [][Next]_vars

\* main() goes on by itself, and poll_sleep looks at stop every 100 ms.
FairSpec ==
  /\ Spec
  /\ WF_vars(Main)
  /\ \A g \in GPU : WF_vars(ThreadStops(g))

-----------------------------------------------------------------------------
TypeOK ==
  /\ pc \in {"config", "dirs", "nvml", "nvmlInit", "dcgm", "dcgmInit", "count",
             "enumerate", "setup", "threads", "handlers", "spawn", "wait",
             "monitor", "join", "teardown", "ended"}
  /\ \A k \in Key : cfg[k] = NaN \/ InRange(find_entry(k), cfg[k])
  /\ nvml \in {"closed", "open", "up"}
  /\ dcgm \in [open : BOOLEAN, vtable : {"null", "valid", "dangling"},
               inits : 0 .. 2, connected : BOOLEAN]
  /\ dcgm_available \in {-1, 0, 1}
  /\ next \in GPU
  /\ identity_source \in [GPU -> {"none", "serial", "uuid"}]
  /\ thread \in [GPU -> {"none", "failed", "running", "lost", "stopped"}]
  /\ ready \in [GPU -> BOOLEAN]
  /\ {handlers, g_running, stop, term} \subseteq BOOLEAN
  /\ exit \in {"no", "0", "1", "signal", "crash"}

(***************************************************************************)
(* README.md:111, config.h:8: when the configuration file can be read, the *)
(* environment takes precedence over the file and the file over the        *)
(* defaults, and the startup goes on exactly if every value given anywhere *)
(* is well formed and the result is consistent. config_load gets there by  *)
(* overwriting in passes that may stop half way.                           *)
(***************************************************************************)
ConfigAsDocumented ==
  [][LET good == /\ WellFormed(file, env)
                 /\ config_validate(Documented(file, env))
     IN  pc = "config" /\ readable =>
           /\ pc' = "dirs" => good /\ cfg' = Documented(file, env)
           /\ exit' = "1" => ~good]_vars

(***************************************************************************)
(* main.c:330 says of the configuration file: "if not found, uses defaults *)
(* + env", README.md:87 has the exporter run "with compiled-in defaults"   *)
(* and config.h:17 knows no error but an invalid value. So without a file, *)
(* and with an environment that is well formed and consistent with the     *)
(* defaults, the startup does not end here.                                *)
(***************************************************************************)
NoFileMeansDefaults ==
  [][( /\ pc = "config" /\ ~ readable
       /\ WellFormed(<< >>, env) /\ config_validate(Documented(<< >>, env)) )
       => exit' # "1"]_vars

(***************************************************************************)
(* A configuration that the exporter runs with has its thresholds in order *)
(* wherever they are numbers, whichever of default, file and environment   *)
(* each came from.  NaN escapes the range check (util.c:168) and the       *)
(* comparison (config.c:323) alike, so that nothing more can be promised.  *)
(***************************************************************************)
AcceptedIsOrdered ==
  pc \notin {"config", "ended"} =>
    /\ NaN \notin {cfg.temp_p95_warn_c, cfg.temp_p95_bad_c} =>
         cfg.temp_p95_warn_c < cfg.temp_p95_bad_c
    /\ cfg.retired_pages_warn <= cfg.retired_pages_bad

(***************************************************************************)
(* As long as a poll thread runs, what it calls is there: NVML is up, and  *)
(* dcgm_available, which collector.c:391 takes for a Boolean, is never the *)
(* tentative -1 and is 1 only while the library is open, connected and its *)
(* vtable valid.  Threads start after the last library call of the startup *)
(* and are joined before the first one of the shutdown, so that none is    *)
(* left when main() returns.                                               *)
(***************************************************************************)
ThreadsHaveTheirLibraries ==
  (exit \notin {"signal", "crash"} /\ \E g \in GPU : thread[g] = "running") =>
    /\ nvml = "up"
    /\ dcgm_available \in {0, 1}
    /\ dcgm_available = 1 =>
         dcgm.open /\ dcgm.connected /\ dcgm.vtable = "valid"

(***************************************************************************)
(* However main() returns, by one of its early returns or through          *)
(* shutdown_all, NVML is closed and no connection to DCGM is left; after   *)
(* shutdown_all the DCGM library is closed as well (the early returns of   *)
(* main.c:407, :416 and :428 leave it open). And it crashes only if a poll *)
(* thread could not be started: that thread is joined although it never    *)
(* existed (main.c:564, collector.c:532).                                  *)
(***************************************************************************)
EndsInOrder ==
  /\ exit \in {"0", "1"} /\ pc = "ended" =>
       nvml = "closed" /\ ~ dcgm.connected /\ (stop => ~ dcgm.open)
  /\ exit = "crash" => \E g \in GPU : thread[g] = "failed"

(***************************************************************************)
(* SIGTERM ends the process whenever it comes: before the handlers are     *)
(* installed, while the startup waits for the first polls, in the monitor  *)
(* loop, and during the shutdown (main.c:577, :605, :640).                 *)
(***************************************************************************)
TermEnds == term ~> pc = "ended"
=============================================================================
