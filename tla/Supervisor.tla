----------------------------- MODULE Supervisor -----------------------------
(***************************************************************************)
(* The processes of the exporter and the sockets between them: main.c's    *)
(* startup, monitor loop, respawn and shutdown, the poll threads as the    *)
(* writers of exp->parent_fd, and the life of each HTTP child.             *)
(*                                                                         *)
(* Child k is the k-th one and reads socketpair k.  Descriptors are kept   *)
(* as the kernel keeps them: an end of a socketpair is open as long as     *)
(* some process holds it, fork copies every descriptor of the parent, and  *)
(* a new descriptor takes the lowest free number, so that a number can     *)
(* come to name another socket.                                            *)
(***************************************************************************)
EXTENDS Integers, Sequences, FiniteSets

CONSTANTS
  GPU,         \* one poll thread per GPU
  MaxSpawns,   \* bound: socketpairs made in one behaviour
  SocketRoom   \* bound: snapshots a socketpair buffers

ASSUME SupervisorAssumption ==
  /\ GPU # {}
  /\ MaxSpawns \in Nat \ {0}
  /\ SocketRoom \in Nat \ {0}

Gen == 1 .. MaxSpawns
None == 0               \* no socketpair, no child
Parent == 0             \* the parent, among the processes that hold an end
Fd == 1 .. 2            \* the numbers that the parent's ends take in turn
NoFd == -1
InitMsg == "init"       \* gpu_ipc_init_t; a gpu_ipc_msg_t is its GPU

VARIABLES
  main_pc,      \* where main() is
  g_running,    \* main.c: cleared by sig_handler
  stop,         \* ctx->stop, set for all threads together
  notified,     \* READY=1 was sent
  filesd,       \* the file_sd target exists
  parent_fd,    \* exp->parent_fd
  old_fd,       \* spawn_http_child: old_parent_fd
  child_pid,    \* exp->child_pid, as the child it names
  gen,          \* socketpairs made so far
  fdtab,        \* the parent's descriptor table: number -> socketpair
  parent_end,   \* who holds the parent's end of each socketpair
  child_end,    \* who holds the child's end
  stream,       \* what each socketpair carries towards the child
  thread,       \* poll threads: "poll", "write" or "done"
  thread_fd,    \* the fd argument of the snapshot_send in progress
  child,        \* life of each child
  inherited,    \* the socketpair of exp->parent_fd when it was forked
  child_run,    \* http.c: g_running of each child
  received      \* GPUs whose slot each child has filled

flagVars == << g_running, stop, notified, filesd >>
pidVars == << parent_fd, old_fd, child_pid >>
mainVars == << main_pc, flagVars, pidVars >>
endVars == << parent_end, child_end >>
sockVars == << gen, fdtab, endVars, stream >>
threadVars == << thread, thread_fd >>
childVars == << child, inherited, child_run, received >>
vars == << mainVars, sockVars, threadVars, childVars >>

Ended == {"exited", "killed"}
MainStates == {"socketpair", "init", "fork", "swap", "close", "wait", "monitor",
               "reaped", "join", "kill", "await", "teardown"} \cup Ended
Living == {"forked", "closed", "started", "serving"}
ChildStates == {"none", "zombie", "reaped"} \cup Living

Alive(k) == child[k] \in Living

\* A process that ends closes everything it holds.
Drop(ends, p) == [k \in Gen |-> ends[k] \ {p}]

\* A forked process holds everything its parent holds.
Inherit(ends, k) ==
  [j \in Gen |-> IF Parent \in ends[j] THEN ends[j] \cup {k} ELSE ends[j]]

\* The poll threads have been started, the handlers are installed, and
\* spawn_http_child is about to be called for the first time.
Init ==
  /\ main_pc = "socketpair"
  /\ g_running = TRUE
  /\ stop = FALSE
  /\ notified = FALSE
  /\ filesd = FALSE
  /\ parent_fd = NoFd
  /\ old_fd = NoFd
  /\ child_pid = None
  /\ gen = 0
  /\ fdtab = [f \in Fd |-> None]
  /\ parent_end = [k \in Gen |-> {}]
  /\ child_end = [k \in Gen |-> {}]
  /\ stream = [k \in Gen |-> << >>]
  /\ thread = [g \in GPU |-> "poll"]
  /\ thread_fd = [g \in GPU |-> NoFd]
  /\ child = [k \in Gen |-> "none"]
  /\ inherited = [k \in Gen |-> None]
  /\ child_run = [k \in Gen |-> TRUE]
  /\ received = [k \in Gen |-> {}]

\* The socketpair that exp->parent_fd names.
ParentSocket == IF parent_fd = NoFd THEN None ELSE fdtab[parent_fd]

-----------------------------------------------------------------------------
(* Mutated forms, used to confirm that the properties below can fail.      *)

Swap_ForgetsOld ==
  /\ main_pc = "swap"
  /\ main_pc' = "close"
  /\ old_fd' = NoFd
  /\ parent_fd' = (CHOOSE f \in Fd : fdtab[f] = gen)
  /\ child_pid' = gen
  /\ UNCHANGED << flagVars, sockVars, threadVars, childVars >>

Reap_WithoutExit ==
  /\ main_pc = "monitor"
  /\ g_running
  /\ child[child_pid] \in {"zombie", "serving"}
  /\ main_pc' = "reaped"
  /\ UNCHANGED << flagVars, pidVars, sockVars, threadVars, childVars >>

Reap_Ignored ==
  /\ main_pc = "monitor"
  /\ g_running
  /\ child[child_pid] = "zombie"
  /\ child' = [child EXCEPT ![child_pid] = "reaped"]
  /\ main_pc' = "monitor"
  /\ UNCHANGED << flagVars, pidVars, sockVars, threadVars, inherited,
                  child_run, received >>

ChildCloses_KeepsParentEnd(k) ==
  /\ child[k] = "forked"
  /\ child' = [child EXCEPT ![k] = "closed"]
  /\ parent_end' = [j \in Gen |-> IF j = inherited[k] THEN parent_end[j] \ {k}
                                  ELSE parent_end[j]]
  /\ UNCHANGED << mainVars, gen, fdtab, child_end, stream, threadVars,
                  inherited, child_run, received >>

Join_TooEarly ==
  /\ main_pc = "join"
  /\ main_pc' = IF child_pid = None THEN "teardown" ELSE "kill"
  /\ UNCHANGED << flagVars, pidVars, sockVars, threadVars, childVars >>

LeaveMonitor_NoStop ==
  /\ main_pc = "monitor"
  /\ ~ g_running
  /\ filesd' = FALSE
  /\ main_pc' = "join"
  /\ UNCHANGED << g_running, stop, notified, pidVars, sockVars, threadVars,
                  childVars >>

-----------------------------------------------------------------------------
(* main(): spawn_http_child.                                               *)

\* The number of the parent's end of the socketpair being set up.
NewFd == CHOOSE f \in Fd : fdtab[f] = gen

\* At startup a failure leads to shutdown_all and status 1; in the monitor
\* loop it clears g_running.
SpawnFails ==
  /\ g_running' = (g_running /\ ~ notified)
  /\ stop' = ~ notified
  /\ main_pc' = IF notified THEN "monitor" ELSE "join"
  /\ UNCHANGED << notified, filesd, pidVars, stream, threadVars, childVars >>

Socketpair ==
  /\ main_pc = "socketpair"
  /\ gen < MaxSpawns
  /\ gen' = gen + 1
  /\ \E f \in Fd : /\ fdtab[f] = None
                   /\ \A e \in Fd : fdtab[e] = None => f <= e
                   /\ fdtab' = [fdtab EXCEPT ![f] = gen + 1]
  /\ parent_end' = [parent_end EXCEPT ![gen + 1] = {Parent}]
  /\ child_end' = [child_end EXCEPT ![gen + 1] = {Parent}]
  /\ main_pc' = "init"
  /\ UNCHANGED << flagVars, pidVars, stream, threadVars, childVars >>

\* Out of descriptors; the bound on socketpairs shows as this too.
SocketpairFails ==
  /\ main_pc = "socketpair"
  /\ SpawnFails
  /\ UNCHANGED << gen, fdtab, endVars >>

\* write_ipc_init: a few bytes, for which a new socket always has room.
WriteInit ==
  /\ main_pc = "init"
  /\ stream' = [stream EXCEPT ![gen] = Append(@, InitMsg)]
  /\ main_pc' = "fork"
  /\ UNCHANGED << flagVars, pidVars, gen, fdtab, endVars, threadVars, childVars >>

Fork ==
  /\ main_pc = "fork"
  /\ main_pc' = "swap"
  /\ child' = [child EXCEPT ![gen] = "forked"]
  /\ inherited' = [inherited EXCEPT ![gen] = ParentSocket]
  /\ parent_end' = Inherit(parent_end, gen)
  /\ child_end' = Inherit(child_end, gen)
  /\ UNCHANGED << flagVars, pidVars, gen, fdtab, stream, threadVars, child_run,
                  received >>

\* Both ends of the new socketpair are closed again.
GiveUp ==
  /\ fdtab' = [fdtab EXCEPT ![NewFd] = None]
  /\ parent_end' = [parent_end EXCEPT ![gen] = @ \ {Parent}]
  /\ child_end' = [child_end EXCEPT ![gen] = @ \ {Parent}]
  /\ SpawnFails
  /\ UNCHANGED gen

WriteInitFails == main_pc = "init" /\ GiveUp

ForkFails == main_pc = "fork" /\ GiveUp

\* From here on the poll threads use the new socket.
Swap ==
  /\ main_pc = "swap"
  /\ main_pc' = "close"
  /\ old_fd' = parent_fd
  /\ parent_fd' = NewFd
  /\ child_pid' = gen
  /\ UNCHANGED << flagVars, sockVars, threadVars, childVars >>

\* Close fds[1] and, on a respawn, the previous parent_fd.
CloseOld ==
  /\ main_pc = "close"
  /\ child_end' = [child_end EXCEPT ![gen] = @ \ {Parent}]
  /\ IF old_fd = NoFd
     THEN UNCHANGED << parent_end, fdtab >>
     ELSE /\ parent_end' = [parent_end EXCEPT ![fdtab[old_fd]] = @ \ {Parent}]
          /\ fdtab' = [fdtab EXCEPT ![old_fd] = None]
  /\ old_fd' = NoFd
  /\ main_pc' = IF notified THEN "monitor" ELSE "wait"
  /\ UNCHANGED << flagVars, parent_fd, child_pid, gen, stream, threadVars,
                  childVars >>

-----------------------------------------------------------------------------
(* main(): readiness, monitor loop and shutdown_all.                       *)

\* The wait for the first polls ends with them, at the deadline, or on a
\* signal, and readiness is announced in every case.
AnnounceReady ==
  /\ main_pc = "wait"
  /\ notified' = TRUE
  /\ filesd' = TRUE
  /\ main_pc' = "monitor"
  /\ UNCHANGED << g_running, stop, pidVars, sockVars, threadVars, childVars >>

\* waitpid returns the dead child ...
Reap ==
  /\ main_pc = "monitor"
  /\ g_running
  /\ child[child_pid] = "zombie"
  /\ child' = [child EXCEPT ![child_pid] = "reaped"]
  /\ main_pc' = "reaped"
  /\ UNCHANGED << flagVars, pidVars, sockVars, threadVars, inherited,
                  child_run, received >>

\* ... and g_running is read again before another one is spawned.
Respawn ==
  /\ main_pc = "reaped"
  /\ main_pc' = IF g_running THEN "socketpair" ELSE "monitor"
  /\ UNCHANGED << flagVars, pidVars, sockVars, threadVars, childVars >>

LeaveMonitor ==
  /\ main_pc = "monitor"
  /\ ~ g_running
  /\ filesd' = FALSE
  /\ stop' = TRUE
  /\ main_pc' = "join"
  /\ UNCHANGED << g_running, notified, pidVars, sockVars, threadVars, childVars >>

Join ==
  /\ main_pc = "join"
  /\ \A g \in GPU : thread[g] = "done"
  /\ main_pc' = IF child_pid = None THEN "teardown" ELSE "kill"
  /\ UNCHANGED << flagVars, pidVars, sockVars, threadVars, childVars >>

\* SIGTERM takes effect in a child that has installed its own handler.  One
\* that still has the handler it inherited sets main's flag, which nothing
\* in the child reads.
Kill ==
  /\ main_pc = "kill"
  /\ child_run' = IF child[child_pid] \in {"started", "serving"}
                  THEN [child_run EXCEPT ![child_pid] = FALSE] ELSE child_run
  /\ main_pc' = "await"
  /\ UNCHANGED << flagVars, pidVars, sockVars, threadVars, child, inherited,
                  received >>

\* The child is reaped, or three seconds have passed; the waitpid after the
\* loop reaps a child that ended just then and leaves a living one alone.
Await ==
  /\ main_pc = "await"
  /\ child' = IF child[child_pid] = "zombie"
              THEN [child EXCEPT ![child_pid] = "reaped"] ELSE child
  /\ main_pc' = "teardown"
  /\ UNCHANGED << flagVars, pidVars, sockVars, threadVars, inherited,
                  child_run, received >>

\* Close parent_fd, tear down NVML and DCGM, return from main.
Teardown ==
  /\ main_pc = "teardown"
  /\ IF parent_fd = NoFd
     THEN UNCHANGED << parent_end, fdtab >>
     ELSE /\ parent_end' = [parent_end EXCEPT ![ParentSocket] = @ \ {Parent}]
          /\ fdtab' = [fdtab EXCEPT ![parent_fd] = None]
  /\ parent_fd' = NoFd
  /\ main_pc' = "exited"
  /\ UNCHANGED << flagVars, old_fd, child_pid, gen, child_end, stream,
                  threadVars, childVars >>

\* SIGTERM or SIGINT.
sig_handler ==
  /\ main_pc \notin Ended
  /\ g_running
  /\ g_running' = FALSE
  /\ UNCHANGED << main_pc, stop, notified, filesd, pidVars, sockVars,
                  threadVars, childVars >>

\* The parent dies without a chance to clean up.
ParentKilled ==
  /\ main_pc \notin Ended
  /\ main_pc' = "killed"
  /\ thread' = [g \in GPU |-> "done"]
  /\ thread_fd' = [g \in GPU |-> NoFd]
  /\ parent_end' = Drop(parent_end, Parent)
  /\ child_end' = Drop(child_end, Parent)
  /\ UNCHANGED << flagVars, pidVars, gen, fdtab, stream, childVars >>

-----------------------------------------------------------------------------
(* Poll threads.                                                           *)

\* A snapshot is due: exp->parent_fd is read and passed to snapshot_send.
ReadParentFd(g) ==
  /\ thread[g] = "poll"
  /\ ~ stop
  /\ thread' = [thread EXCEPT ![g] = "write"]
  /\ thread_fd' = [thread_fd EXCEPT ![g] = parent_fd]
  /\ UNCHANGED << mainVars, sockVars, childVars >>

\* The socketpair that a write to number f reaches, None if there is none.
Target(f) == IF f = NoFd THEN None ELSE fdtab[f]

\* snapshot_send returns, and the thread sleeps until the next poll.
Sent(g) ==
  /\ thread' = [thread EXCEPT ![g] = "poll"]
  /\ thread_fd' = [thread_fd EXCEPT ![g] = NoFd]
  /\ UNCHANGED << mainVars, gen, fdtab, endVars, childVars >>

\* EBADF, or EPIPE when nobody holds the other end.
WriteFails(g) ==
  /\ thread[g] = "write"
  /\ Target(thread_fd[g]) # None => child_end[Target(thread_fd[g])] = {}
  /\ Sent(g)
  /\ UNCHANGED stream

\* The write waits while the socket is full.
Write(g) ==
  /\ thread[g] = "write"
  /\ LET k == Target(thread_fd[g])
     IN /\ k # None
        /\ child_end[k] # {}
        /\ Len(stream[k]) < SocketRoom
        /\ stream' = [stream EXCEPT ![k] = Append(@, g)]
  /\ Sent(g)

\* The thread leaves its loop: it was told to stop, or its GPU was lost.
ThreadEnds(g) ==
  /\ thread[g] = "poll"
  /\ thread' = [thread EXCEPT ![g] = "done"]
  /\ UNCHANGED << mainVars, sockVars, thread_fd, childVars >>

-----------------------------------------------------------------------------
(* The HTTP child k.  Module HttpChild has its threads in detail.          *)

\* exit(), _exit() or a crash.
Ends(k) ==
  /\ child' = [child EXCEPT ![k] = "zombie"]
  /\ parent_end' = Drop(parent_end, k)
  /\ child_end' = Drop(child_end, k)
  /\ UNCHANGED << mainVars, gen, fdtab, stream, threadVars, inherited,
                  child_run, received >>

\* The child closes fds[0] and the parent_fd that it inherited.
ChildCloses(k) ==
  /\ child[k] = "forked"
  /\ child' = [child EXCEPT ![k] = "closed"]
  /\ parent_end' = [j \in Gen |-> IF j \in {k, inherited[k]}
                                  THEN parent_end[j] \ {k} ELSE parent_end[j]]
  /\ UNCHANGED << mainVars, gen, fdtab, child_end, stream, threadVars,
                  inherited, child_run, received >>

\* http_child_run up to the receiver thread: the init message is read and
\* the handlers are installed.
ChildStarts(k) ==
  /\ child[k] = "closed"
  /\ Head(stream[k]) = InitMsg
  /\ stream' = [stream EXCEPT ![k] = Tail(@)]
  /\ child' = [child EXCEPT ![k] = "started"]
  /\ UNCHANGED << mainVars, gen, fdtab, endVars, threadVars, inherited,
                  child_run, received >>

\* A snapshot stands where the init message should: its gpu_index is taken
\* for num_gpus.  Index 0 is refused; with another one the child starts, out
\* of step with its messages, and what it makes of them is arbitrary.
ChildMisreadsInit(k) ==
  /\ child[k] = "closed"
  /\ Head(stream[k]) # InitMsg
  /\ \/ Ends(k)
     \/ /\ \E s \in SUBSET GPU : received' = [received EXCEPT ![k] = s]
        /\ child' = [child EXCEPT ![k] = "started"]
        /\ stream' = [stream EXCEPT ![k] = << >>]
        /\ UNCHANGED << mainVars, gen, fdtab, endVars, threadVars, inherited,
                        child_run >>

ChildBinds(k) ==
  /\ child[k] = "started"
  /\ child' = [child EXCEPT ![k] = "serving"]
  /\ UNCHANGED << mainVars, sockVars, threadVars, inherited, child_run, received >>

\* The port is in use.
BindFails(k) ==
  /\ child[k] = "started"
  /\ Ends(k)

\* The receiver thread takes a snapshot.
ChildReceives(k) ==
  /\ child[k] \in {"started", "serving"}
  /\ child_run[k]
  /\ stream[k] # << >>
  /\ received' = [received EXCEPT ![k] = @ \cup {Head(stream[k])}]
  /\ stream' = [stream EXCEPT ![k] = Tail(@)]
  /\ UNCHANGED << mainVars, gen, fdtab, endVars, threadVars, child, inherited,
                  child_run >>

\* The receiver thread sees the end of the stream.
ChildSeesEof(k) ==
  /\ child[k] \in {"started", "serving"}
  /\ child_run[k]
  /\ stream[k] = << >>
  /\ parent_end[k] = {}
  /\ child_run' = [child_run EXCEPT ![k] = FALSE]
  /\ UNCHANGED << mainVars, sockVars, threadVars, child, inherited, received >>

\* The accept loop ends.
ChildLeaves(k) ==
  /\ child[k] = "serving"
  /\ ~ child_run[k]
  /\ Ends(k)

ChildCrashes(k) ==
  /\ Alive(k)
  /\ Ends(k)

-----------------------------------------------------------------------------
Main ==
  \/ Socketpair \/ SocketpairFails \/ WriteInit \/ WriteInitFails \/ Fork
  \/ ForkFails \/ Swap \/ CloseOld \/ AnnounceReady \/ Reap \/ Respawn \/ LeaveMonitor \/ Join
  \/ Kill \/ Await \/ Teardown

ChildMain(k) ==
  \/ ChildCloses(k) \/ ChildStarts(k) \/ ChildMisreadsInit(k) \/ ChildBinds(k)
  \/ ChildLeaves(k)

ChildReceiver(k) == ChildReceives(k) \/ ChildSeesEof(k)

Next ==
  \/ Socketpair
  \/ SocketpairFails
  \/ WriteInit
  \/ WriteInitFails
  \/ Fork
  \/ ForkFails
  \/ Swap
  \/ CloseOld
  \/ AnnounceReady
  \/ Reap
  \/ Respawn
  \/ LeaveMonitor
  \/ Join
  \/ Kill
  \/ Await
  \/ Teardown
  \/ sig_handler
  \/ ParentKilled
  \/ \E g \in GPU : \/ ReadParentFd(g)
                    \/ WriteFails(g)
                    \/ Write(g)
                    \/ ThreadEnds(g)
  \/ \E k \in Gen : \/ ChildCloses(k)
                    \/ ChildStarts(k)
                    \/ ChildMisreadsInit(k)
                    \/ ChildBinds(k)
                    \/ BindFails(k)
                    \/ ChildReceives(k)
                    \/ ChildSeesEof(k)
                    \/ ChildLeaves(k)
                    \/ ChildCrashes(k)

Spec == Init /\ [][Next]_vars

(***************************************************************************)
(* Fairness.  Processes and threads are scheduled.  A blocked write goes   *)
(* through if there is room again and again, because the kernel wakes its  *)
(* writers in turn.  A thread that is told to stop leaves its loop, which  *)
(* supposes that NVML calls return.  Nothing is assumed of crashes,        *)
(* signals, failing system calls or the loss of a GPU.                     *)
(***************************************************************************)
FairSpec ==
  /\ Spec
  /\ WF_vars(Main)
  /\ \A g \in GPU : /\ WF_vars(ReadParentFd(g) \/ WriteFails(g))
                    /\ SF_vars(Write(g))
                    /\ WF_vars(stop /\ ThreadEnds(g))
  /\ \A k \in Gen : WF_vars(ChildMain(k)) /\ WF_vars(ChildReceiver(k))

-----------------------------------------------------------------------------
TypeOK ==
  /\ main_pc \in MainStates
  /\ g_running \in BOOLEAN
  /\ stop \in BOOLEAN
  /\ notified \in BOOLEAN
  /\ filesd \in BOOLEAN
  /\ parent_fd \in Fd \cup {NoFd}
  /\ old_fd \in Fd \cup {NoFd}
  /\ child_pid \in Gen \cup {None}
  /\ gen \in Gen \cup {0}
  /\ fdtab \in [Fd -> Gen \cup {None}]
  /\ parent_end \in [Gen -> SUBSET ({Parent} \cup Gen)]
  /\ child_end \in [Gen -> SUBSET ({Parent} \cup Gen)]
  /\ stream \in [Gen -> Seq(GPU \cup {InitMsg})]
  /\ \A k \in Gen : Len(stream[k]) <= SocketRoom + 1
  /\ thread \in [GPU -> {"poll", "write", "done"}]
  /\ thread_fd \in [GPU -> Fd \cup {NoFd}]
  /\ child \in [Gen -> ChildStates]
  /\ inherited \in [Gen -> Gen \cup {None}]
  /\ child_run \in [Gen -> BOOLEAN]
  /\ received \in [Gen -> SUBSET GPU]

\* main() is outside spawn_http_child and has not begun to tear down.
Settled == main_pc \in {"wait", "monitor", "reaped", "join", "kill", "await"}

(***************************************************************************)
(* No respawn, failed respawn or race with a signal leaks a descriptor.    *)
(* Outside spawn_http_child the parent holds the parent's end of one       *)
(* socketpair, the one of exp->parent_fd, and nobody's child end; a child  *)
(* that serves holds no parent's end at all, its own included, for that    *)
(* would keep it and its predecessor from ever seeing end of file          *)
(* (main.c:152-172, 206-215).                                              *)
(***************************************************************************)
DescriptorsAccounted ==
  /\ Settled =>
       /\ \A f \in Fd : fdtab[f] # None <=> f = parent_fd
       /\ \A k \in Gen : /\ Parent \in parent_end[k] <=> k = ParentSocket
                         /\ Parent \notin child_end[k]
  /\ \A k \in Gen : child[k] \in {"closed", "started", "serving"} =>
       /\ \A j \in Gen : k \notin parent_end[j]
       /\ \A j \in Gen : k \in child_end[j] <=> j = k

(***************************************************************************)
(* Two children never compete for the port or for the snapshots: a new one *)
(* is forked only when the one before has been reaped, and only the one    *)
(* main knows as child_pid can be alive outside spawn_http_child.          *)
(***************************************************************************)
OneChildAtATime ==
  /\ Cardinality({k \in Gen : Alive(k)}) <= 1
  /\ Settled => \A k \in Gen : Alive(k) => k = child_pid

(***************************************************************************)
(* main() returns only when nothing that it started still uses what it     *)
(* tears down: no poll thread is left to call NVML or to write, the        *)
(* file_sd target is gone, and no descriptor is open (main.c:227-272,      *)
(* 669-670).                                                               *)
(***************************************************************************)
CleanExit ==
  /\ main_pc \in {"kill", "await", "teardown", "exited"} =>
       /\ \A g \in GPU : thread[g] = "done"
       /\ ~ filesd
  /\ main_pc = "exited" =>
       \A k \in Gen : Parent \notin parent_end[k] \cup child_end[k]

(***************************************************************************)
(* A signal ends the exporter: main gets through the monitor loop and      *)
(* joins every poll thread, also one that is blocked in write() on a full  *)
(* socket or on the socket of a child that has died.                       *)
(***************************************************************************)
ShutdownCompletes == ~ g_running ~> main_pc \in Ended

(***************************************************************************)
(* The HTTP child does not outlive the exporter, even when the parent was  *)
(* killed or its SIGTERM was lost: end of file reaches every child.        *)
(***************************************************************************)
ChildDiesWithParent == main_pc \in Ended ~> \A k \in Gen : ~ Alive(k)

(***************************************************************************)
(* After the child has died, however it died, service comes back: a child  *)
(* serves again and has a snapshot of every GPU that is still polled,      *)
(* unless the exporter itself is going down.  The bound on the number of   *)
(* children ends a behaviour as a failing socketpair does, where the code  *)
(* would go on to replace a child that keeps dying.                        *)
(***************************************************************************)
ServiceRestored ==
  notified ~> \/ \E k \in Gen :
                   /\ child[k] = "serving"
                   /\ \A g \in GPU : g \in received[k] \/ thread[g] = "done"
              \/ ~ g_running
              \/ main_pc \in Ended

(***************************************************************************)
(* main.c:126-129 says that the worst a poll thread can meet while         *)
(* parent_fd is swapped is one EBADF.  In particular its snapshot does not *)
(* end up in front of the init message of a later child.                   *)
(***************************************************************************)
InitComesFirst ==
  \A k \in Gen : child[k] \in {"none", "forked", "closed"} /\ stream[k] # << >>
                   => Head(stream[k]) = InitMsg
=============================================================================
