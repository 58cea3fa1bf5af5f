# gpu-health exporter: TLA+ models and proofs

This directory holds a formal development of the exporter under `src/src/`: a
privileged parent that polls the GPUs with one thread each, scores their health
and sends snapshots over a socketpair to an unprivileged HTTP child, which
serves `/metrics`, `/ready` and `/live`.  `PROJECT.json` lists components,
runs, the lines each definition models, findings, hazards and theorems.

    tlc -config Supervisor.cfg Supervisor      # a run: module and cfg as in PROJECT.json
    tlapm CollectorProofs.tla                  # the proofs of a module

## 1. The system

| part | source | state | operations | talks to |
|---|---|---|---|---|
| ring buffer | `collector.c`, `scorer.c` | samples, head, count | `ring_push`, index arithmetic of the readers | written by the poll thread, read by scorer and snapshot |
| poll thread | `collector.c` | status flags, error counters, last retry, snapshot | back off, poll NVML, count, declare lost, score, send, sleep | NVML, the socket, `stop` and `ready` shared with main |
| scorer | `scorer.c` | none | completeness gate, p95, ECC deltas, penalties, class | called by the poll thread |
| state files | `state.c` | baseline, probe result, one inotify queue for all threads | load, watch, drain, reload | operator and probe write the files |
| HTTP child | `http.c`, `snapshot.c` | slots, `g_all_ready`, `g_running` | receive, store, answer, end | socket from the parent, signals, clients |
| supervisor | `main.c` | `parent_fd`, `child_pid`, `g_running` | spawn, swap, announce, reap, respawn, shut down | all of the above |
| file_sd, readiness | `filesd.c`, `main.c` | target file, READY=1 | write, remove, notify | systemd, Prometheus |
| configuration | `config.c`, `util.c` | `gpu_config_t` | defaults, file, environment, validate | read by every part |
| DCGM client | `dcgm.c` | handle, field group | load, connect, poll, disconnect | main, poll thread |
| NVML loader | `nvml.c` | function table | load, unload | main, poll thread |
| privileges | `procpriv.c` | none | capabilities, seccomp | parent and child at start |
| probe | `probe/` | none | run a workload, write a result and perhaps a baseline | state files |

What is hard here: several poll threads and the main thread share a descriptor
that is swapped while in use; the child has two threads and a lock that does not
cover everything; the parent, the child or a GPU may disappear at any moment;
time-outs, back-off and staleness are differences of unsigned clocks; files
change while they are read; and the scorer looks at a window whose samples may
be older than it thinks.  `PROJECT.json` lists each hazard at its line with the
properties aimed at it.

What makes each part correct:

- the ring shows exactly the last samples, in order, at every fill level;
- a GPU's flags agree with its counters, a failing driver is not hammered, the
  thread always ends when told to, startup is always released;
- `/ready` and `/live` never claim more than the slots justify, snapshots are
  shown in order, the child ends with its parent;
- respawning leaks nothing, never doubles the child, and restores service;
- a changed baseline is loaded, stale means expired, and the startup does not
  pair a probe result with the baseline of a later run;
- a published field shows what the libraries reported in this poll, and what
  nobody reported is shown as no reading (section 4 has the exceptions);
- every value of a readable configuration comes from where the documents say;
  threads run only while the libraries they call are there, and every return of
  `main` leaves NVML closed and DCGM disconnected;
- together: a snapshot that was accepted is never mislaid, `/ready` comes back
  after a crash, and a poll loop that is stuck shows at `/live`;
- a worse measurement never raises the score, reasons and score agree, and a
  score is given only on regular telemetry.

## 2. Modules

| module | models | variables and actions |
|---|---|---|
| `Window` | abstract: the last `Capacity` samples | `Push` |
| `Ring` | `gpu_ring_t`, `ring_push`, readers | `samples`, `head`, `count`; implements `Window` |
| `Collector` | `poll_thread` | one variable per context field, `pc` for the place in the loop; one action per path from one blocking point (NVML, `dcgm_poll`, the send, the sleep) to the next |
| `Telemetry` | one cycle of `poll_thread` as data: `do_nvml_poll`, `dcgm_poll`, `apply_dcgm_state`, `ring_push`, `snapshot_update` | extends `Ring`; the locals `sample` and `state`, the snapshot, what DCGM holds; a value is the number of the poll it was read in |
| `CollectorHistory` | the same thread, observed | history variables: retries made and time spent unavailable |
| `HttpChild` | `http_child_run` and its receiver thread | one step per critical section, system call or access to a volatile flag; a request may be accepted after `g_running` was tested and then cleared |
| `Config` | `config.c` and the parsers of `util.c` as operators | a text is the number it spells, NaN or garbage; lines and variables are settings, applied by one loop |
| `Startup` | `main` from its first line to its last, with every failing call | extends `Config`; where `main` is, the two libraries, the threads, handlers, exit |
| `Exporter` | poll thread, socket and child joined | extends `Collector`, with an instance of `HttpChild`; crash and respawn of the child |
| `Supervisor` | `main` from the first spawn to return, poll threads as writers, children's lives | descriptors as the kernel keeps them: who holds which end, and which number names which socket |
| `StateFiles` | `baseline_load`, `probe_load`, inotify, their callers, and the file writers of `gpu_health_probe.cu` | files reduced to absent, partial, malformed, whole, with the write and the probe run they stem from |
| `Scoring` | `scorer.c` as operators | doubles as scaled integers; the rules of a category are a tuple, its penalty their sum |
| `ScoreSignals` | `score_gpu` over combinations of signals | one signal changes per step |
| `ScoreHistory` | the scorer over time | polls, gaps, double-bit errors, driver reload; uses `Window` |
| `MCPollCycle` | `Telemetry`, `ScoreSignals` and `ScoreHistory` for TLC | configuration record, signal values, windows to begin with; `part` says which of the three a behaviour is about |
| `*Proofs` | theorems about `Telemetry` (and `Ring`), `Collector` with `Exporter`, `StateFiles`, `Scoring` with `ScoreHistory`, `ScoreSignals`, `HttpChild`, `Startup`, `Supervisor` | inductive invariants and lemmas, section 5 |

`Supervisor` sees a poll thread only as a reader of `parent_fd` and a writer to
what it names, and a child only as the holder of descriptors and the reader of
its stream; `Collector` and `HttpChild` have the inside of the two.
`Collector`'s `link` and `HttpChild`'s `inbox` stand for the socket that
`Supervisor` models in full; `Exporter` joins the two and shows that what
`Collector` assumes of `link` is what the child makes of `inbox`.  `Startup`
sees of a poll thread only that it runs, is ready, is lost or has stopped, and
of the child only whether spawning it works.  `ScoreHistory` takes from `Ring`
that the ring is a `Window`.

Definitions whose names carry a suffix after an underscore, such as
`Swap_ForgetsOld`, are deliberately wrong forms of the definition before the
underscore.  They belong to no specification; substituted for the right form
they make a property fail, which shows that the property can.

Abstractions worth knowing:

- Clock values are ticks.  `Collector` keeps the age of the last retry and not
  the clock, up to the retry interval, which is all the code compares.
- A failing or blocking `write` depends on who holds the other end and on room.
  A message is written and read whole; `snapshot_send` and `snapshot_recv` loop.
- In `Collector` the calls of a poll are reduced to their outcome: success, an
  error, a hard error or no return.  `library` is the condition of the library
  the thread is calling, NVML first and then DCGM; an error of DCGM costs
  nothing (`collector.c:393`).  `Telemetry` has the calls, one for each way the
  code treats a call: required or optional, with or without a default; of the
  fields of DCGM one for each type it is stored in, with the blanks, negatives
  equal to a sentinel and others, integers at the limit of a `uint32_t` and
  beyond, the two units of the power field, and a refresh
  (`dcgmUpdateAllFields`) that fails, after which DCGM answers with what it
  held.
- The probe runs for one GPU one at a time, the bound that `StateFiles` puts on
  it: two at once would write the same temporary files, which nothing in
  `gpu_health_probe.cu` prevents and which is not modelled.
- Of the configuration table four rows are kept: two doubles that must differ
  and two integers that may be equal.
- `Startup` reads the configuration in one step and forgets its text.  An
  undefined `pthread_join` of a thread that was never created may crash or may
  return an error.
- A response of the child is one step, TLS included.  Of the text of `/metrics`
  only which GPUs appear, and with which poll time, is kept: the slots copied
  for it, and not the buffer that may cut the text short (`http.c:56`, `:183`).
- A child that reads a snapshot where the init message should be is arbitrary
  from then on.
- Ratios are hundredths and a point of score has 100 parts; the comparisons of
  `scorer.c` keep their direction and strictness.  Mean and standard deviation
  enter as values of signals.

## 3. Runs that pass

| run | instance | shows |
|---|---|---|
| `poll_cycle` | ring of 3, polls told apart modulo 2; shipped thresholds, signals at and above them with at most 5 out of the ordinary; window of 20, the first 5 polls and the polls 18 to 21, 2 double-bit errors, 1 reload | fields show what was reported, through filling and wrapping the ring is a `Window`; score monotone, explained, critical is never healthy; DBE reporting, p95, regular telemetry |
| `collector` | thresholds 3 and 2, retry after 2 ticks, 5 errors, with DCGM | flags and counters agree, the exposed error count never falls, retries stay apart; stop leads to exit, startup is released, a GPU recovers with its driver |
| `http_child` | 2 GPUs, 2 ticks, socket of 2 | `/ready`, `/live` and `/metrics` against every interleaving; a 503 of `/live` has a cause; snapshots arrive in order; the child ends |
| `supervisor` | 1 GPU, 3 socketpairs, socket of 1 | descriptors, children, clean return; shutdown completes, no orphan, service restored |
| `state_files` | 1 GPU, 2 changes, 1 probe run, 2 ticks | no lost reload, the last finished version is loaded, stale means expired, startup pairs the files of the probe the right way round |
| `exporter` | 1 GPU, thresholds 1, 1 respawn, 2 ticks, socket of 1 | `Collector`'s specification, fairness included, is implemented by the join; nothing is lost on the way, `/ready` comes back, a stuck loop is noticed |
| `startup` | 2 GPUs, files of 2 lines, 2 variables, values on, between and off the limits | precedence and validation of a readable configuration, libraries outlive threads, NVML and the connection to DCGM released, SIGTERM ends |

Why the bounds are enough: in `http_child` and `startup` two GPUs are the least
with which one can be ready, or fail to start, and the other not.  `supervisor`
has one: its poll threads meet nowhere but at `parent_fd` and the room in the
socket, each of which a single thread already finds in every condition, since a
socket of one snapshot blocks it at once.  Three socketpairs are the least with
which a descriptor number comes to be used again while a thread still holds its
old meaning.  Two ticks with a staleness limit of one give a snapshot each of
the ages fresh, on the limit and too old.  Five errors cross both thresholds in
either order and leave room for a relapse; in `exporter` thresholds of one let
back-off, loss and recovery happen within few steps.  A ring of three wraps;
polls modulo two tell a value from that of the cycle before, which is the only
one that a local can keep (DCGM may hold an older one; the proof is for every
modulus).  A window of 20 samples is the shortest in
which the p95 may differ from the maximum; histories begin either empty or
after 18 regular polls, hot ones and a double-bit error among the first, and
pass the end of the window.  The three parts of `poll_cycle` share no variable,
so TLC explores their sum and not their product.  Two changes allow
a baseline to be begun and finished, or finished twice, around one load, one of
them by the probe.  Two lines and two variables are the least with which a line
overrides another, a variable overrides a line, and thresholds from different
sources clash.  The signal values put each threshold on its boundary and beyond
it, with a statistic that is NaN, a link width that is unknown and a probe
result of 0; rules interact only through the sum and the clamp, and five
deviations are enough for penalties of more than 100 points.  When the spawns of
`supervisor` are used up the exporter ends, as it does if `socketpair` fails,
where the code would go on to replace a child that keeps dying;
`ServiceRestored` is about the respawns before that.

Types: those of `Ring`, `Collector`, `StateFiles` and `HttpChild` are theorems,
and the types of `Telemetry`, `Startup`, `Supervisor` and of the score are parts
of the invariants of section 5.

Deadlock is checked for `collector`, and for `collector_lost` among the runs
below.  The other runs end on purpose: processes exit, the bounded clock or the
bounded number of writes is used up.

### Fairness

- `Collector`: the thread is scheduled (weak); a send goes through if the
  socket has room again and again (strong, the kernel wakes blocked writers);
  time passes; a full socket drains or breaks, because the child's receiver
  reads without pause or dies; a driver that has used up the bounded errors
  recovers, which is the bound and not a promise of NVML.  That calls return is
  not assumed: a call of NVML or of DCGM that hangs may hang for ever, and
  `StopLeadsToExit` and `ReadyEventually` name it as the one thing that can
  keep a thread.
- `HttpChild`: both threads are scheduled.  A request ends since the client
  socket has time-outs.  Nothing is assumed of clients, parent and signals.
- `Supervisor`: main, threads and children are scheduled; blocked writes as
  above; a thread told to stop leaves its loop, which `collector` shows for
  library calls that return.
- `StateFiles`: main and the polls go on; nothing is assumed of the writers.
- `Exporter`: as the two modules, without any assumption on the socket: that a
  full one drains or breaks is what `PollThreadAsSpecified` shows.  The monitor
  loop replaces a dead child.
- `Startup`: main goes on by itself, and a thread told to stop stops, which
  `collector` shows for library calls that return.

## 4. Runs that show a disagreement

Each states what a document, a comment or a header says and finds the code to
do otherwise; the quotation is with the finding in `PROJECT.json`.

| run | what TLC shows |
|---|---|
| `http_child_stale` | `/live` answers 503 on data newer than its clock value |
| `supervisor_init` | a slow writer reaches a later child ahead of its init message |
| `state_files_shared` | with two GPUs one thread takes another one's event |
| `collector_lost` | `gpu_present` and `gpu_available` never show 0: a lost GPU's thread ends, and an unavailable one's sleeps, before a snapshot is built |
| `startup_nofile` | without a configuration file `main` exits with an error, where the documents promise the defaults |

Reading the code against the documents for these models turned up further
disagreements.  They follow from the shape of the code or from a property that
holds, so they have no run of their own:

- `types.h:119`, the help texts at `http.c:480-482` and `README.md:99-101` say
  that fields of DCGM are NaN without DCGM; `collector.c:338-340` and
  `main.c:494-496` set 0.0, and no code sets NaN.  What is shown is 0, also for
  a counter whose poll failed this time, which therefore falls to 0 and comes
  back.  `ShownAsReported` takes either, 0 or NaN, as "no reading".
- Of a field that DCGM keeps in a `uint64_t` only a -1 ends as "not reported";
  any other negative is cast and shown as a huge count (`dcgm.c:286-328`), the
  exception in `ShownAsReported`.
- `dcgm.c:233-237` goes on when `dcgmUpdateAllFields` fails, so that readings of
  an earlier poll may be published under this poll's time.
- `state.c:203` accepts a perf/W of 0 from the probe, and `scorer.c:302` does not
  compare it: a drop of 100% costs nothing, and the GPU may be HEALTHY.
  `WorseNeverHelps` and `CriticalNeverHealthy` except it.  A `nan` as
  `perf_w_mean` of the baseline passes `state.c:158` and has the same effect.
- `scorer.c:77-79` returns NaN for the p95 if `malloc` fails; nothing is then
  charged for the temperature.
- A child respawned after a GPU was lost never hears of that GPU, so that
  `/ready` answers 503 for good; `ReadyComesBack` excepts it.
- A GPU that backs off sends nothing, so that `/live` answers 503
  (`http.c:905`) although its poll loop runs.
- Two probes for one GPU share the temporary files of result and baseline;
  `StartsFromOneRun` is about runs that do not overlap.
- `README.md:451` explains `gpu_dcgm_available` as connected and responding; it
  stays 1 when every `dcgm_poll` fails.
- A `nan` passes the range check of `util.c:168` and every comparison of
  `config_validate`; `AcceptedIsOrdered` excepts it.
- `config_validate` compares thresholds and never penalties: an accepted file
  may give a worse level the smaller penalty, or 0, or give a critical rule one
  of 15 points or less.  A worse GPU may then score higher, a reason may cost
  nothing, and a critical one may be HEALTHY.  The shipped values do none of it;
  the theorems of `SignalsProofs` name the condition each of them needs.
- A configuration with `window_s / poll_interval_s` below
  `min_samples_absolute`, or `poll_interval_s` above `max_median_step_s`, is
  accepted although `completeness_gate` can never pass.
- `main.c:566` lets startup go on without a poll thread that could not be
  created; shutdown joins it all the same (`EndsInOrder`).
- DCGM is initialised at `main.c:385` and again in `dcgm_setup`, and shut down
  once; the returns at `main.c:407`, `:416` and `:428` leave it open.
- Nothing checks what `fclose` returns at `gpu_health_probe.cu:129` and `:170`,
  so a file that was cut short is renamed into place; the loaders reject it.
- With neither serial nor UUID (`main.c:459`) a GPU's identity is empty.
- `DESIGN.md:736` promises a watchdog per poll thread; `collector.c:343` calls
  NVML without a time-out.
- `DESIGN.md:586` gives the retry cadence of an unavailable GPU; `collector.c:373`
  does not set `last_retry_ms`, so the first retry comes at the next poll.
  `RetryRate` is about the retries after it.
- `DESIGN.md:584` speaks of consecutive hard errors; a soft error in between does
  not reset `consecutive_hard_errors` (`collector.c:350`).
- `http.c:1337` frees `g_slots` without `g_lock` while the detached receiver may
  be between receiving and storing.
- `DESIGN.md:639` and the comment at `http.c:1324` put binding before READY=1;
  `main.c:627` waits for polls only.
- `main.c:236` signals `child_pid` also after the monitor has reaped it and the
  respawn has failed.
- Under the comment "Force kill if still running." `main.c:248` waits once more
  and sends no signal.
- `README.md:523` promises reloading on change; a file finished between the loads
  at `main.c:506` and the watch at `main.c:537` raises no event.
- `collector.c:410` compares the driver version without the test of `main.c:507`
  for a valid baseline, so a reload without a file sets the mismatch flag.
- `README.md:554-557` says that probe results are picked up by inotify and expire
  at run time; `main.c:520` loads them once.
- `README.md:497-499` describes the samples present in the window; `scorer.c:113`
  counts samples of any age.
- `README.md:367` says any DBE delta in the window; `scorer.c:258` compares the
  ends, so a counter reset hides one.

## 5. Proofs

Constants are arbitrary up to the named assumptions of the modules: positive
capacity, thresholds and intervals, a non-empty set of GPUs, natural bounds, a
NaN that is no number, texts that differ from an unset variable, and of the
configuration what `cfg_table` and `config_validate` enforce.  TLC
evaluates the assumptions in every run.  Each module below has one inductive
invariant per question, shown initial, preserved by every action, and strong
enough for the property; what it adds to the property is said here.

- `TelemetryProofs`.  `RingInv` adds to the types that head and count move
  together until the ring is full and that every slot below count has been
  written.  That no reader sees an unwritten slot is not inductive without it,
  because readers follow head and count through a modulus.  Lemmas give the
  index arithmetic a closed form on both sides of the wrap; with them a push is
  shown to append to, or to slide, what a scan visits, and the ring implements
  `Window` for every capacity.  `PollUsesRing` shows that every step of the poll
  cycle is a push or leaves the ring alone, so the same holds of the ring as the
  thread uses it.  `CycleInv` says what the locals hold at each phase of a
  cycle: what the libraries said in it and nothing of the cycle before, since
  `memset` and the defaults precede the calls.  `OnlyReportedIsShown` follows;
  what DCGM may say includes a reading it kept from an earlier poll.
- `CollectorProofs`.  `CollectorInv` joins the types, the agreement of flags
  and counters, and that `ready` is raised by the outcome of a poll only, with
  the facts that tie them together: past a poll of NVML that succeeded the GPU
  is available, a thread about to send has built a snapshot, and neither the
  delivered nor the built snapshot is ahead of the counter.  From it follow
  `StatusIsAccurate` and that the error counter which the child exposes never
  decreases although sends fail; next to it `OutageIsNeverSent`: for all
  thresholds no snapshot shows an outage, which is why `collector_lost` finds
  what it finds.  `RetryInv` carries `RetryRate`: the time recorded covers all
  completed intervals and the age of the last retry, and retries cost errors, so
  that the bound on the recorded time is never what makes the property true.

  The same module proves the join of `Exporter`.  Every step of it is to the
  poll thread a step of its own, a change of `link` or nothing, so the exporter
  implements `Collector`, and what was proved of the thread alone holds with a
  child that crashes and is replaced.  `WayInv` carries `NothingLostOnTheWay`,
  which is not inductive: taking a message out of the socket keeps the newest
  one only if the messages behind it are not older.  So it adds that the times
  ascend from the slot over the receiver's hand and the socket to the sender,
  and that the stamp of the snapshot about to be sent is not older than the last
  one sent, although it may have waited for room.  It also shows that the guards
  which `HttpChild` puts on its sender always hold when the thread sends
  (`SendIsNeverRefused`): composing the modules removes no behaviour.  What is on
  display goes back only with the child (`DisplayNeverGoesBack`).
- `StateFilesProofs`.  For a single GPU `NoLostReload` is inductive together
  with the types, that no file is newer than the count of writes, and that the
  watch begins after main's loads.  The assumption of a single GPU is used in
  one place, where the thread that drains the queue must be the one that
  reloads; `state_files_shared` is the counterexample without it.  That only
  expired results are stale needs no such assumption.  `StartupReadsOneRun` rests on
  `OneRunInv`: no baseline, on disk or loaded, is of a later run than the result
  file, because a probe that may still write a baseline has its own result in
  place; it survives the death of a probe at any point, and edits, but not two
  probes at once, which the model leaves out.
- `HttpChildProofs`.  After the types, `ReadyInv`: the flag is raised over full
  slots only, slots never empty again, and nobody was told "ready" before the
  flag; this is why reading it without the lock does no harm.
  `ReadyMeansComplete` is about the slots that are copied for a scrape, not
  about the text, which a fixed buffer cuts with very many GPUs.  `InOrder`: along
  slot, receiver, socket and parent the poll times of a GPU ascend, from which
  follows that no slot goes back.  `LiveIsJustified` needs the types only, since
  one step computes the answer, but it covers the wrapped difference.
- `StartupProofs`.  `StartupInv` says for each stretch of `main` which of the
  libraries are loaded and connected (`Libraries`), which threads may run
  (`Threads`) and how `exit` and `stop` came about (`Ending`).  The stretches
  are needed because the early returns release different things.

  `ConfigAsDocumented`, for a file that can be read, and `AcceptedIsOrdered` are
  proved for files of any length.  The loop of `config_load` is a recursive function, which to the
  provers is a choice of a function that satisfies an equation; `LoopResult`
  first builds one, by taking the least number of settings for which there is
  none, and then shows by the least counterexample what the loop has after n
  settings (`After`): a failure exactly if one of them does not parse, and else
  for each key the text of its last setting.  Run twice, over the lines and over
  the variables, this is the documented precedence.  That the accepted
  thresholds are in order then follows from `config_validate` and from what
  parses: an integer is never NaN, a double may be.
- `SupervisorProofs`.  `SupervisorInv` accounts for both ends of every
  socketpair: `ParentEnds` by the place in `spawn_http_child` and in the
  shutdown, `ChildEnds` by the state of a child, including the ends that a
  freshly forked child inherits and has not closed yet.  `Children` says that a
  fork happens with no child alive, `Shutdown` that threads and target file go
  first.  The number of respawns is arbitrary; descriptor numbers are reused.
- `ScoringProofs`.  The rank with which `ring_p95` indexes its array is in range
  and nearest for every number of samples.  `Sorted` is defined by counting, so
  that what it yields has to be shown to exist: of the values that enough
  samples do not exceed there is a least one (`SortedExists`, by well-founded
  minimality and monotonicity of the count).  `ScoreHistoryInv` adds to
  `DbeReportedExactly` that the counters of any two samples of the window agree
  with the double-bit errors and reloads between them; only this pairwise form
  survives the sliding of the window, whose ends are all the code compares.
  `ScoredOnlyIfRegular` turns the median into a count of regular steps.
- `SignalsProofs`.  One lemma per category gives its sum and the rules that
  fired; from them the score is full exactly when nothing but a stale probe is
  reported (`ReasonsExplain`, if no penalty is 0), a critical signal is never
  HEALTHY (`CriticalIsSeen`, if its penalty exceeds 15 points), and a worse
  measurement never raises the score (`WorseIsNeverBetter`, if a worse level
  costs no less; a perf/W that falls to 0 is excepted).  The conditions are
  hypotheses of the theorems and not assumptions, since `config_validate` does
  not enforce them; `MCPollCycle` asserts them of the shipped configuration.

The models follow the code no less closely for this; what was rewritten to be
reasoned about is the form: the rules of a category are a tuple with a sum
instead of nested sums, and the signals are an explicit set.

Ending is a matter of fairness, but how much of it is needed is not.  Four
theorems give the measures behind the liveness properties: a stopped poll thread
has at most five steps left (`StopIsNear`), a child told to end takes at most
the one request whose connection was past the test of `g_running` and has four
steps left (`ExitIsNear`), `main` after a signal eleven, in the middle of a respawn too
(`ReturnIsNear`), and from its first line to its last `main` never goes back
(`MainAdvances`).  What remains for fairness is that each of these steps is
taken.

Only model-checked: everything under fairness, that is all `~>` and `<>` and the
fairness half of `PollThreadAsSpecified`, which is out of the prover's reach.
Every safety invariant and every action property of the passing runs is a theorem.

## 6. Not modelled

- Text as such: trimming, logging, TLS, the layout of `/metrics` and the limit
  of its buffer.  They change no state that another part reads.
- Capabilities, seccomp and the user switch (`procpriv.c`): a straight sequence
  of calls at the start of a process, without state of its own.
- Which symbol of a vendor library is looked up under which name.
- The CUDA workload of the probe; its model begins when the measurement ends.
- The writing of the service discovery file through a temporary file is one
  step of `Supervisor`.
- The superseded Python version under `v0/` and the deployment files.

## 7. Plan

Done in this order, the supervision of threads, child and sockets first since
everything depends on it: `Ring` over `Window`, `Collector`, `HttpChild`,
`Supervisor`, `StateFiles`, `Scoring`; then `Telemetry` over `Ring`, `Config`
and `Startup`, the probe in `StateFiles`, and `Exporter`; then the proofs of
section 5, in which every safety invariant and action property of the runs is a
theorem.  What could be added:

1. Several poll threads in `Exporter`.  They meet only in the socket, where
   `HttpChildProofs` already orders the messages of any number of GPUs.
2. The remaining rows of `cfg_table`.  The proof of the loop does not depend on
   their number, the lemmas about single keys do.
