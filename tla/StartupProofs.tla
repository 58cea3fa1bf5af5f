--------------------------- MODULE StartupProofs ---------------------------
(***************************************************************************)
(* main() keeps the order of its resources for every number of GPUs, every *)
(* configuration and every point at which a call fails or a signal comes;  *)
(* and config_load does what the documentation says with every file and    *)
(* every environment.                                                      *)
(***************************************************************************)
EXTENDS Startup, WellFoundedInduction, TLAPS

\* The stretches of main() between the changes of the libraries' state.
BeforeNvml == {"config", "dirs", "nvml"}
Enumerating == {"count", "enumerate", "setup"}
Joining == {"join", "teardown"}
Serving == {"handlers", "spawn", "wait", "monitor"}
Polling == {"threads"} \cup Serving \cup Joining
NvmlUp == {"dcgm", "dcgmInit"} \cup Enumerating \cup Polling

Vtable == {"null", "valid", "dangling"}
Dcgm == [open : BOOLEAN, vtable : Vtable, inits : Int, connected : BOOLEAN]

Types ==
  /\ pc \in BeforeNvml \cup {"nvmlInit", "ended"} \cup NvmlUp
  /\ dcgm \in Dcgm
  /\ next \in GPU
  /\ thread \in [GPU -> {"none", "failed", "running", "lost", "stopped"}]
  /\ exit \in {"no", "0", "1", "signal", "crash"}

\* A DCGM that main() counts on.
DcgmServes == dcgm.open /\ dcgm.vtable = "valid"

\* What each stretch of main() finds.
Libraries ==
  /\ pc \in BeforeNvml => nvml = "closed"
  /\ pc \in NvmlUp => nvml = "up"
  /\ pc \in BeforeNvml \cup {"nvmlInit", "dcgm"} => dcgm = Closed /\ dcgm_available = 0
  /\ pc = "dcgmInit" => DcgmServes /\ ~ dcgm.connected /\ dcgm_available = 0
  /\ pc \in Enumerating =>
       /\ dcgm_available \in {0, -1}
       /\ dcgm_available = -1 => DcgmServes
       /\ dcgm_available = 0 => ~ dcgm.open
       /\ ~ dcgm.connected
  /\ pc \in Polling =>
       /\ dcgm_available \in {0, 1}
       /\ dcgm_available = 1 => DcgmServes /\ dcgm.connected
       /\ dcgm_available = 0 => ~ dcgm.open /\ ~ dcgm.connected

\* Threads run only between their start and their join.
Threads ==
  /\ pc \notin Polling \cup {"ended"} => \A g \in GPU : thread[g] = "none"
  /\ pc \in Serving => next = 1
  /\ pc = "join" => \A g \in GPU : g < next => thread[g] # "running"
  /\ pc = "teardown" => \A g \in GPU : thread[g] # "running"
  /\ exit \in {"0", "1"} /\ pc = "ended" => \A g \in GPU : thread[g] # "running"

\* How main() ends: exit is set before the end only by a failed first spawn,
\* and stop only by shutdown_all.
Ending ==
  /\ pc \notin Joining \cup {"ended"} => exit = "no" /\ ~ stop
  /\ pc \in Joining => exit \in {"no", "1"} /\ stop
  /\ pc = "ended" => exit # "no"
  /\ EndsInOrder

StartupInv == Types /\ Libraries /\ Threads /\ Ending

-----------------------------------------------------------------------------
\* main() begins with nothing loaded and no thread started.
LEMMA StartupInvInit == Init => StartupInv
<1> SUFFICES ASSUME Init PROVE StartupInv
  OBVIOUS
<1>1. Types
  BY StartupAssumption
  DEF Init, Types, Dcgm, Vtable, Closed, GPU, BeforeNvml
<1>2. Libraries
  BY DEF Init, Libraries, BeforeNvml, NvmlUp, Enumerating, Polling, Serving, Joining
<1>3. Threads
  BY DEF Init, Threads, Polling, Serving, Joining
<1>4. Ending
  BY DEF Init, Ending, EndsInOrder, Joining
<1> QED
  BY <1>1, <1>2, <1>3, <1>4 DEF StartupInv

\* Records of type Dcgm with some of their fields replaced.
LEMMA ClosedType == Closed \in Dcgm
BY DEF Dcgm, Vtable, Closed

\* The table is looked up.
LEMMA SetVtable ==
  ASSUME NEW d \in Dcgm, NEW v \in Vtable
  PROVE  LET e == [d EXCEPT !.vtable = v]
         IN  e \in Dcgm /\ e.open = d.open /\ e.connected = d.connected
BY DEF Dcgm

\* The library is opened or closed, and the table with it.
LEMMA SetOpen ==
  ASSUME NEW d \in Dcgm, NEW o \in BOOLEAN, NEW v \in Vtable
  PROVE  LET e == [d EXCEPT !.open = o, !.vtable = v]
         IN  e \in Dcgm /\ e.open = o /\ e.vtable = v /\ e.connected = d.connected
BY DEF Dcgm

\* dcgmInit and the connection.
LEMMA SetConnected ==
  ASSUME NEW d \in Dcgm, NEW i \in Int, NEW c \in BOOLEAN
  PROVE  LET e == [d EXCEPT !.inits = i, !.connected = c]
         IN  e \in Dcgm /\ e.open = d.open /\ e.vtable = d.vtable /\ e.connected = c
BY DEF Dcgm

\* The steps before the poll threads: configuration, libraries, enumeration.
LEMMA BeforeThreads ==
  ASSUME StartupInv,
         \/ LoadConfig \/ CheckDirs \/ nvml_load \/ NvmlInit \/ dcgm_load
         \/ DcgmInit \/ CountFails \/ DeviceGetCount \/ Enumerate \/ ConnectDcgm
  PROVE  StartupInv'
<1> USE DEF StartupInv, Goto, Return, libVars, gpuVars, sigVars
<1> USE DEF BeforeNvml, NvmlUp, Enumerating, Polling, Serving, Joining
<1>1. /\ thread' = thread /\ stop' = stop /\ ~ stop
      /\ \A g \in GPU : thread[g] = "none"
      /\ pc \notin Polling \cup {"ended"} /\ exit = "no"
      /\ exit' \in {"no", "1"} /\ (exit' = "1" <=> pc' = "ended")
      /\ pc' \notin Serving \cup Joining
  BY DEF Threads, Ending, LoadConfig, CheckDirs, nvml_load, NvmlInit, dcgm_load,
         DcgmInit, CountFails, DeviceGetCount, Enumerate, ConnectDcgm
<1>2. Threads'
  BY <1>1 DEF Threads
<1>3. CASE LoadConfig \/ CheckDirs
  <2>1. Types' /\ Libraries'
    BY <1>3 DEF Types, Libraries, LoadConfig, CheckDirs
  <2>2. Ending'
    BY <1>1, <1>3 DEF Ending, EndsInOrder, Libraries, LoadConfig, CheckDirs, Closed
  <2> QED
    BY <1>2, <2>1, <2>2
<1>4. CASE nvml_load \/ NvmlInit
  <2>1. Types' /\ Libraries'
    BY <1>4 DEF Types, Libraries, nvml_load, NvmlInit
  <2>2. Ending'
    BY <1>1, <1>4 DEF Ending, EndsInOrder, Libraries, nvml_load, NvmlInit, Closed
  <2> QED
    BY <1>2, <2>1, <2>2
<1>5. CASE dcgm_load
  <2>a. /\ dcgm' \in Dcgm /\ ~ dcgm'.connected /\ (dcgm'.open => dcgm'.vtable = "valid")
        /\ pc' = IF dcgm'.open THEN "dcgmInit" ELSE "count"
    <3>1. TRUE \in BOOLEAN /\ "valid" \in Vtable /\ "dangling" \in Vtable
      BY DEF Vtable
    <3>2. /\ dcgm' \in Dcgm /\ dcgm'.connected = Closed.connected
          /\ dcgm'.open = Closed.open \/ dcgm'.vtable = "valid"
      <4>1. CASE dcgm' = Closed
        BY <4>1, ClosedType
      <4>2. CASE dcgm' = [Closed EXCEPT !.vtable = "dangling"]
        BY <3>1, <4>2, ClosedType, SetVtable, ZenonT(60)
      <4>3. CASE dcgm' = [Closed EXCEPT !.open = TRUE, !.vtable = "valid"]
        BY <3>1, <4>3, ClosedType, SetOpen, ZenonT(60)
      <4> QED
        BY <1>5, <4>1, <4>2, <4>3, Zenon DEF dcgm_load
    <3>3. ~ Closed.connected /\ ~ Closed.open
      BY DEF Closed
    <3> QED
      BY <1>5, <3>2, <3>3 DEF dcgm_load
  <2>b. UNCHANGED << nvml, dcgm_available, next, exit >> /\ pc = "dcgm"
    BY <1>5 DEF dcgm_load
  <2>1. Types' /\ Libraries'
    BY <1>1, <2>a, <2>b DEF Types, Libraries, DcgmServes
  <2>2. Ending'
    BY <1>1, <1>5 DEF Ending, EndsInOrder, dcgm_load
  <2> QED
    BY <1>2, <2>1, <2>2
<1>6. CASE DcgmInit
  <2>a. /\ dcgm' \in Dcgm /\ ~ dcgm'.connected
        /\ \/ dcgm_available' = 0 /\ ~ dcgm'.open
           \/ dcgm_available' = -1 /\ dcgm'.open /\ dcgm'.vtable = "valid"
    <3>1. CASE dcgm' = [dcgm EXCEPT !.inits = 1] /\ dcgm_available' = -1
      <4>1. /\ dcgm' \in Dcgm /\ dcgm'.open = dcgm.open
            /\ dcgm'.vtable = dcgm.vtable /\ dcgm'.connected = dcgm.connected
        BY <3>1 DEF Types, Dcgm
      <4> QED
        BY <1>6, <3>1, <4>1 DEF DcgmInit, Libraries, DcgmServes
    <3>2. CASE dcgm' = Closed /\ dcgm_available' = 0
      BY <3>2, ClosedType DEF Closed
    <3> QED
      BY <1>6, <3>1, <3>2 DEF DcgmInit
  <2>b. UNCHANGED << nvml, next, exit >> /\ pc = "dcgmInit" /\ pc' = "count"
    BY <1>6 DEF DcgmInit
  <2>1. Types' /\ Libraries'
    BY <1>1, <2>a, <2>b DEF Types, Libraries, DcgmServes
  <2>2. Ending'
    BY <1>1, <1>6 DEF Ending, EndsInOrder, DcgmInit
  <2> QED
    BY <1>2, <2>1, <2>2
<1>7. CASE CountFails \/ DeviceGetCount
  <2>1. Types' /\ Libraries'
    BY <1>7 DEF Types, Libraries, DcgmServes, CountFails, DeviceGetCount
  <2>2. Ending'
    BY <1>1, <1>7 DEF Ending, EndsInOrder, Libraries, CountFails, DeviceGetCount
  <2> QED
    BY <1>2, <2>1, <2>2
<1>8. CASE Enumerate
  <2>1. Types' /\ Libraries'
    BY <1>8, StartupAssumption DEF Types, Libraries, DcgmServes, Enumerate, GPU
  <2>2. Ending'
    BY <1>1, <1>8 DEF Ending, EndsInOrder, Enumerate
  <2> QED
    BY <1>2, <2>1, <2>2
<1>9. CASE ConnectDcgm
  <2>a. /\ dcgm' \in Dcgm
        /\ \/ dcgm_available' = 0 /\ ~ dcgm'.open /\ ~ dcgm'.connected
           \/ /\ dcgm_available' = 1 /\ dcgm'.open /\ dcgm'.vtable = "valid"
              /\ dcgm'.connected
    <3>1. CASE /\ dcgm_available = -1
               /\ dcgm' = [dcgm EXCEPT !.inits = @ + 1, !.connected = TRUE]
               /\ dcgm_available' = 1
      <4>1. dcgm \in Dcgm /\ dcgm.inits + 1 \in Int /\ TRUE \in BOOLEAN
        BY DEF Types, Dcgm
      <4>2. /\ dcgm' \in Dcgm /\ dcgm'.open = dcgm.open
            /\ dcgm'.vtable = dcgm.vtable /\ dcgm'.connected = TRUE
        BY <3>1, <4>1, SetConnected, Zenon
      <4>3. dcgm.open /\ dcgm.vtable = "valid"
        BY <1>9, <3>1 DEF ConnectDcgm, Libraries, DcgmServes
      <4> QED
        BY <3>1, <4>2, <4>3
    <3>2. CASE dcgm' = Closed /\ dcgm_available' = 0
      BY <3>2, ClosedType DEF Closed
    <3>3. CASE dcgm_available # -1 /\ UNCHANGED << dcgm, dcgm_available >>
      BY <1>9, <3>3 DEF ConnectDcgm, Types, Libraries
    <3> QED
      BY <1>9, <3>1, <3>2, <3>3 DEF ConnectDcgm, dcgm_setup, SetupFails
  <2>b. UNCHANGED << nvml, next, exit >> /\ pc = "setup" /\ pc' = "threads"
    BY <1>9 DEF ConnectDcgm
  <2>1. Types' /\ Libraries'
    BY <1>1, <2>a, <2>b DEF Types, Libraries, DcgmServes
  <2>2. Ending'
    BY <1>1, <1>9 DEF Ending, EndsInOrder, ConnectDcgm
  <2> QED
    BY <1>2, <2>1, <2>2
<1> QED
  BY <1>3, <1>4, <1>5, <1>6, <1>7, <1>8, <1>9

\* The life of the poll threads, up to the request that they stop.
LEMMA WhileThreads ==
  ASSUME StartupInv,
         \/ StartThread \/ InstallHandlers \/ Spawn \/ WaitEnds \/ RespawnFails
         \/ LeaveMonitor
  PROVE  StartupInv'
<1> USE DEF StartupInv, Goto, libVars, gpuVars, sigVars
<1> USE DEF BeforeNvml, NvmlUp, Enumerating, Polling, Serving, Joining
<1>1. /\ pc \in {"threads"} \cup Serving /\ pc' \in {"threads", "join"} \cup Serving
      /\ UNCHANGED << nvml, dcgm, dcgm_available >> /\ exit = "no" /\ ~ stop
  BY DEF Ending, StartThread, InstallHandlers, Spawn, WaitEnds, RespawnFails, LeaveMonitor
<1>2. Libraries'
  BY <1>1 DEF Libraries, DcgmServes
<1>3. CASE StartThread
  <2>1. Types'
    BY <1>3, StartupAssumption DEF StartThread, Types, GPU
  <2>2. Threads' /\ Ending'
    BY <1>1, <1>3 DEF StartThread, Threads, Ending, EndsInOrder
  <2> QED
    BY <1>2, <2>1, <2>2
<1>4. CASE InstallHandlers \/ Spawn \/ WaitEnds \/ RespawnFails \/ LeaveMonitor
  <2>1. /\ next' = next /\ thread' = thread /\ next = 1
        /\ pc' # "threads" /\ exit' \in {"no", "1"}
        /\ IF pc' = "join" THEN stop' ELSE exit' = "no" /\ ~ stop'
    BY <1>1, <1>4
    DEF InstallHandlers, Spawn, WaitEnds, RespawnFails, LeaveMonitor, Threads
  <2>2. Types'
    BY <1>1, <2>1 DEF Types
  <2>3. Threads'
    BY <1>1, <2>1 DEF Threads, GPU
  <2>4. Ending'
    BY <1>1, <2>1 DEF Ending, EndsInOrder
  <2> QED
    BY <1>2, <2>2, <2>3, <2>4
<1> QED
  BY <1>3, <1>4

\* The rest of shutdown_all.
LEMMA AfterThreads ==
  ASSUME StartupInv, collector_stop \/ Teardown
  PROVE  StartupInv'
<1> USE DEF StartupInv, Goto, Return, libVars, gpuVars, sigVars
<1> USE DEF BeforeNvml, NvmlUp, Enumerating, Polling, Serving, Joining
<1>1. CASE collector_stop
  <2>1. /\ pc = "join" /\ thread[next] # "running" /\ stop
        /\ UNCHANGED << thread, stop, nvml, dcgm, dcgm_available >>
    BY <1>1 DEF collector_stop, Ending
  <2>2. CASE pc' = "ended"
    <3>1. exit' = "crash" /\ thread[next] = "failed" /\ next' = next
      BY <1>1, <2>2 DEF collector_stop, NeverCreated
    <3> QED
      BY <2>1, <2>2, <3>1 DEF Types, Libraries, Threads, Ending, EndsInOrder
  <2>3. CASE pc' # "ended"
    <3>1. /\ next' = IF next = NumGpus THEN 1 ELSE next + 1
          /\ pc' = IF next = NumGpus THEN "teardown" ELSE "join"
          /\ exit' = exit
      BY <1>1, <2>3 DEF collector_stop
    <3>2. next \in 1 .. NumGpus
      BY DEF Types, GPU
    <3>3. Types'
      BY <2>1, <3>1, <3>2, StartupAssumption DEF Types, GPU
    <3>4. Libraries' /\ Ending'
      BY <2>1, <3>1 DEF Libraries, DcgmServes, Ending, EndsInOrder
    <3>5. ASSUME NEW g \in GPU, pc' = "teardown" \/ g < next' PROVE thread[g] # "running"
      <4>1. g <= next
        BY <3>1, <3>2, <3>5 DEF GPU
      <4> QED
        BY <2>1, <3>2, <4>1 DEF Threads, GPU
    <3>6. Threads'
      BY <2>1, <3>1, <3>5 DEF Threads
    <3> QED
      BY <3>3, <3>4, <3>6
  <2> QED
    BY <2>2, <2>3
<1>2. CASE Teardown
  <2>1. /\ pc = "teardown" /\ pc' = "ended" /\ nvml' = "closed"
        /\ exit' \in {"0", "1"} /\ UNCHANGED << thread, next >>
    BY <1>2 DEF Teardown, Ending
  <2>2. dcgm' \in Dcgm /\ ~ dcgm'.open /\ ~ dcgm'.connected
    <3>1. CASE dcgm_available # 0
      <4>1. dcgm \in Dcgm /\ dcgm.inits - 1 \in Int /\ "dangling" \in Vtable
        BY DEF Types, Dcgm, Vtable
      <4>2. PICK b \in BOOLEAN, i \in Int, v \in Vtable :
              b = FALSE /\ i = dcgm.inits - 1 /\ v = "dangling"
        BY <4>1
      <4>3. dcgm' = [dcgm EXCEPT !.inits = i, !.open = b, !.vtable = v, !.connected = b]
        BY <1>2, <3>1, <4>2, Zenon DEF Teardown
      <4>4. dcgm' \in Dcgm /\ dcgm'.open = b /\ dcgm'.connected = b
        BY <4>1, <4>3 DEF Dcgm
      <4> QED
        BY <4>2, <4>4
    <3>2. CASE dcgm_available = 0
      BY <1>2, <3>2 DEF Teardown, Types, Libraries
    <3> QED
      BY <3>1, <3>2
  <2>3. Types' /\ Libraries'
    BY <2>1, <2>2 DEF Types, Libraries
  <2>4. Threads' /\ Ending'
    BY <2>1, <2>2 DEF Threads, Ending, EndsInOrder
  <2> QED
    BY <2>3, <2>4
<1> QED
  BY <1>1, <1>2

\* What happens beside main(): the threads' own steps, and SIGTERM.
LEMMA BesideMain ==
  ASSUME StartupInv,
         Sigterm \/ (\E g \in GPU : Poll(g) \/ ThreadStops(g)) \/ UNCHANGED vars
  PROVE  StartupInv'
<1> USE DEF StartupInv, confVars, libVars, gpuVars, sigVars
<1> USE DEF BeforeNvml, NvmlUp, Enumerating, Polling, Serving, Joining
<1>1. CASE Sigterm
  <2>1. CASE handlers
    <3>1. UNCHANGED << pc, nvml, dcgm, dcgm_available, next, thread, stop, exit >>
      BY <1>1, <2>1 DEF Sigterm
    <3> QED
      BY <3>1 DEF Types, Libraries, DcgmServes, Threads, Ending, EndsInOrder
  <2>2. CASE ~ handlers
    <3>1. /\ pc' = "ended" /\ exit' = "signal"
          /\ UNCHANGED << nvml, dcgm, dcgm_available, next, thread, stop >>
      BY <1>1, <2>2 DEF Sigterm, Return
    <3> QED
      BY <3>1 DEF Types, Libraries, Threads, Ending, EndsInOrder
  <2> QED
    BY <2>1, <2>2
<1>2. ASSUME NEW g \in GPU, Poll(g) \/ ThreadStops(g) PROVE StartupInv'
  <2>1. /\ UNCHANGED << pc, nvml, dcgm, dcgm_available, next, stop, exit >>
        /\ thread[g] = "running" /\ pc # "ended"
        /\ \E t \in {"running", "lost", "stopped"} : thread' = [thread EXCEPT ![g] = t]
    BY <1>2 DEF Poll, ThreadStops
  <2>2. /\ thread' \in [GPU -> {"none", "failed", "running", "lost", "stopped"}]
        /\ \A h \in GPU : thread'[h] = "running" => thread[h] = "running"
        /\ \A h \in GPU : h # g => thread'[h] = thread[h]
    BY <2>1 DEF Types
  <2>3. Types' /\ Libraries'
    BY <2>1, <2>2 DEF Types, Libraries, DcgmServes
  <2>4. pc \in Polling
    BY <2>1 DEF Threads
  <2>5. Threads'
    BY <2>1, <2>2, <2>4 DEF Threads
  <2>6. Ending'
    BY <2>1, <2>4 DEF Ending, EndsInOrder
  <2> QED
    BY <2>3, <2>5, <2>6
<1>3. CASE UNCHANGED vars
  BY <1>3 DEF vars, Types, Libraries, DcgmServes, Threads, Ending, EndsInOrder
<1> QED
  BY <1>1, <1>2, <1>3

\* Every step of main(), of a thread and of SIGTERM.
LEMMA StartupInvStep == StartupInv /\ [Next]_vars => StartupInv'
BY BeforeThreads, WhileThreads, AfterThreads, BesideMain DEF Next, Main

\* For any number of GPUs, and whichever calls fail, the place main() has
\* reached determines which libraries are loaded and connected, which threads
\* may run and what has been released (main.c:320-674).
THEOREM StartupInvariant == Spec => []StartupInv
BY StartupInvInit, StartupInvStep, PTL DEF Spec

\* Whatever fails and whenever SIGTERM comes, main() ends with what it opened
\* closed again, for any number of GPUs.
THEOREM MainEndsInOrder == Spec => []EndsInOrder
<1>1. StartupInv => EndsInOrder
  BY DEF StartupInv, Ending
<1> QED
  BY <1>1, StartupInvariant, PTL

\* No poll thread runs without the libraries that it calls, for any number of
\* GPUs and any choice of threads that could not be started.
THEOREM LibrariesOutliveThreads == Spec => []ThreadsHaveTheirLibraries
<1>1. StartupInv => ThreadsHaveTheirLibraries
  <2> SUFFICES ASSUME StartupInv, exit \notin {"signal", "crash"},
                      NEW g \in GPU, thread[g] = "running"
               PROVE  /\ nvml = "up"
                      /\ dcgm_available \in {0, 1}
                      /\ dcgm_available = 1 =>
                           dcgm.open /\ dcgm.connected /\ dcgm.vtable = "valid"
    BY DEF ThreadsHaveTheirLibraries
  <2>1. pc # "ended"
    BY DEF StartupInv, Types, Threads, Ending
  <2>2. pc \in Polling
    BY <2>1 DEF StartupInv, Threads
  <2> QED
    BY <2>2 DEF StartupInv, Libraries, DcgmServes, NvmlUp
<1> QED
  BY <1>1, StartupInvariant, PTL

-----------------------------------------------------------------------------
(* The configuration.                                                      *)

\* A set of numbers that is not empty has a least one.
LEMMA LeastNat ==
  ASSUME NEW T, T \subseteq Nat, T # {}
  PROVE  \E m \in T : \A n \in T : m <= n
<1>1. PICK m \in T : \A n \in T : ~ (<< n, m >> \in OpToRel(<, Nat))
  BY NatLessThanWellFounded, WFMin, Zenon
<1>2. ASSUME NEW n \in T PROVE m <= n
  <2>1. ~ (n < m)
    BY <1>1 DEF OpToRel
  <2> QED
    BY <2>1
<1> QED
  BY <1>2

\* What config_load has at some point, and what a setting looks like.
Value == Int \cup Text \cup {Garbage}
Result == [ok : BOOLEAN, cfg : [Key -> Value]]

\* The setting s gives the key k a value.
Sets(s, k) == s.key = k /\ s.text # Unset

\* One turn of either loop: the setting's key, if it has a value, gets it.
LEMMA OneSetting ==
  ASSUME NEW r \in Result, NEW s, s.text \in Value \cup {Unset}
  PROVE  /\ ApplySetting(r, s) \in Result
         /\ ApplySetting(r, s).ok <=>
              r.ok /\ (\A k \in Key : Sets(s, k) => Parses(k, s.text))
         /\ ApplySetting(r, s).ok => \A k \in Key :
              ApplySetting(r, s).cfg[k] = IF Sets(s, k) THEN s.text ELSE r.cfg[k]
<1> DEFINE k == s.key
           t == s.text
           good == [r EXCEPT !.cfg[k] = t]
           bad == [r EXCEPT !.ok = FALSE]
<1> HIDE DEF k, t
<1>1. /\ r.ok \in BOOLEAN /\ r.cfg \in [Key -> Value]
      /\ good.ok = r.ok /\ good.cfg = [r.cfg EXCEPT ![k] = t]
      /\ bad.ok = FALSE /\ bad.cfg = r.cfg
      /\ bad \in Result
  BY DEF Result
<1>2. t # Unset => good \in Result
  BY DEF Result, Value, t
<1>3. CASE k \in Key /\ t # Unset /\ r.ok
  <2>1. ApplySetting(r, s) = IF Parses(k, t) THEN good ELSE bad
    BY <1>3 DEF ApplySetting, apply_entry, k, t
  <2>2. \A j \in Key : Sets(s, j) <=> j = k
    BY <1>3 DEF Sets, k, t
  <2> HIDE DEF good, bad
  <2>3. CASE Parses(k, t)
    <3>1. \A j \in Key : good.cfg[j] = IF j = k THEN t ELSE r.cfg[j]
      BY <1>1
    <3> QED
      BY <1>1, <1>2, <1>3, <2>1, <2>2, <2>3, <3>1 DEF t
  <2>4. CASE ~ Parses(k, t)
    BY <1>1, <1>3, <2>1, <2>2, <2>4 DEF t
  <2> QED
    BY <2>3, <2>4
<1>4. CASE ~ (k \in Key /\ t # Unset /\ r.ok)
  <2>1. ApplySetting(r, s) = r
    BY <1>4 DEF ApplySetting, k, t
  <2>2. r.ok => \A j \in Key : ~ Sets(s, j)
    BY <1>4 DEF Sets, k, t
  <2> QED
    BY <2>1, <2>2
<1> QED
  BY <1>3, <1>4

(***************************************************************************)
(* q is what a loop of config_load that began with r has after n settings: *)
(* it has failed exactly if one of them does not parse, and otherwise each *)
(* key has the value of the last setting for it, or the one of r.          *)
(***************************************************************************)
LastFor(k, i, st, n) == Sets(st[i], k) /\ \A j \in i + 1 .. n : ~ Sets(st[j], k)
NoneFor(k, st, n) == \A i \in 1 .. n : ~ Sets(st[i], k)
AllParse(st, n) == \A i \in 1 .. n : \A k \in Key : Sets(st[i], k) => Parses(k, st[i].text)

After(q, r, st, n) ==
  /\ q \in Result
  /\ q.ok <=> r.ok /\ AllParse(st, n)
  /\ q.ok => \A k \in Key :
       \/ NoneFor(k, st, n) /\ q.cfg[k] = r.cfg[k]
       \/ \E i \in 1 .. n : LastFor(k, i, st, n) /\ q.cfg[k] = st[i].text

\* Before the first turn.
LEMMA AfterNone ==
  ASSUME NEW r \in Result, NEW st
  PROVE  After(r, r, st, 0)
BY DEF After, AllParse, NoneFor

\* One turn leads from the state after n - 1 settings to the one after n.
LEMMA AfterOneMore ==
  ASSUME NEW r \in Result, NEW N \in Nat, NEW st, NEW n \in 1 .. N,
         \A i \in 1 .. N : st[i].text \in Value \cup {Unset},
         NEW q, After(q, r, st, n - 1)
  PROVE  After(ApplySetting(q, st[n]), r, st, n)
<1> DEFINE p == ApplySetting(q, st[n])
           s == st[n]
<1>1. q \in Result /\ s.text \in Value \cup {Unset}
  BY DEF After
<1>2. /\ p \in Result
      /\ p.ok <=> q.ok /\ (\A k \in Key : Sets(s, k) => Parses(k, s.text))
      /\ p.ok => \A k \in Key : p.cfg[k] = IF Sets(s, k) THEN s.text ELSE q.cfg[k]
  BY <1>1, OneSetting
<1> HIDE DEF p
<1>3. \A i \in 1 .. n : i = n \/ i \in 1 .. n - 1
  OBVIOUS
<1>4. \A i \in 1 .. n - 1 : i \in 1 .. n
  OBVIOUS
<1>5. p.ok <=> r.ok /\ AllParse(st, n)
  <2>1. AllParse(st, n) <=>
          AllParse(st, n - 1) /\ (\A k \in Key : Sets(s, k) => Parses(k, s.text))
    BY <1>3, <1>4 DEF AllParse
  <2> QED
    BY <1>2, <2>1 DEF After
<1>6. ASSUME p.ok, NEW k \in Key
      PROVE  \/ NoneFor(k, st, n) /\ p.cfg[k] = r.cfg[k]
             \/ \E i \in 1 .. n : LastFor(k, i, st, n) /\ p.cfg[k] = st[i].text
  <2>1. CASE Sets(s, k)
    <3>1. n \in 1 .. n /\ LastFor(k, n, st, n)
      BY <2>1 DEF LastFor
    <3>2. p.cfg[k] = st[n].text
      BY <1>2, <1>6, <2>1
    <3> QED
      BY <3>1, <3>2
  <2>2. CASE ~ Sets(s, k)
    <3>1. q.ok /\ p.cfg[k] = q.cfg[k]
      BY <1>2, <1>6, <2>2
    <3>2. CASE NoneFor(k, st, n - 1) /\ q.cfg[k] = r.cfg[k]
      BY <1>3, <2>2, <3>1, <3>2 DEF NoneFor
    <3>3. CASE \E i \in 1 .. n - 1 : LastFor(k, i, st, n - 1) /\ q.cfg[k] = st[i].text
      <4>1. PICK i \in 1 .. n - 1 : LastFor(k, i, st, n - 1) /\ q.cfg[k] = st[i].text
        BY <3>3
      <4>2. \A j \in i + 1 .. n : j = n \/ j \in i + 1 .. n - 1
        OBVIOUS
      <4>3. i \in 1 .. n /\ LastFor(k, i, st, n)
        BY <1>4, <2>2, <4>1, <4>2 DEF LastFor
      <4> QED
        BY <3>1, <4>1, <4>3
    <3> QED
      BY <3>1, <3>2, <3>3 DEF After
  <2> QED
    BY <2>1, <2>2
<1>7. After(p, r, st, n)
  BY <1>2, <1>5, <1>6 DEF After
<1> QED
  BY <1>7 DEF p

(***************************************************************************)
(* A loop of config_load over any number of settings does what After says. *)
(* To the provers a recursive function is a CHOOSE, so that the proof      *)
(* first builds one, and then takes the least n at which either would go   *)
(* wrong.                                                                  *)
(***************************************************************************)
LEMMA LoopResult ==
  ASSUME NEW r \in Result, NEW N \in Nat, NEW st, st = [i \in 1 .. N |-> st[i]],
         \A i \in 1 .. N : st[i].text \in Value \cup {Unset}
  PROVE  After(ApplyAll(r, st), r, st, N)
<1> DEFINE Run(g, n) == /\ g = [i \in 0 .. n |-> g[i]] /\ g[0] = r
                        /\ \A i \in 1 .. n : g[i] = ApplySetting(g[i - 1], st[i])
<1>1. \A n \in 0 .. N : \E g : Run(g, n)
  <2> SUFFICES ASSUME NEW n0 \in 0 .. N, ~ \E g : Run(g, n0) PROVE FALSE
    OBVIOUS
  <2> DEFINE Can(n) == \E g : Run(g, n)
             Bad == {n \in 0 .. N : ~ Can(n)}
  <2> HIDE DEF Can
  <2>1. Bad \subseteq Nat /\ Bad # {}
    <3>1. ~ Can(n0)
      BY DEF Can
    <3> QED
      BY <3>1
  <2>2. PICK n \in Bad : \A m \in Bad : n <= m
    BY <2>1, LeastNat
  <2>3. CASE n = 0
    <3> DEFINE h == [i \in 0 .. 0 |-> r]
    <3>1. Run(h, 0)
      OBVIOUS
    <3> QED
      BY <2>2, <2>3, <3>1 DEF Can
  <2>4. CASE n # 0
    <3>1. n - 1 \in 0 .. N /\ n - 1 \notin Bad
      BY <2>2, <2>4
    <3>2. PICK g : Run(g, n - 1)
      BY <3>1 DEF Can
    <3> DEFINE h == [i \in 0 .. n |-> IF i = n THEN ApplySetting(g[n - 1], st[n]) ELSE g[i]]
    <3>3. h[0] = r /\ h = [i \in 0 .. n |-> h[i]]
      BY <2>4, <3>2
    <3>4. ASSUME NEW i \in 1 .. n PROVE h[i] = ApplySetting(h[i - 1], st[i])
      <4>1. h[i - 1] = g[i - 1]
        OBVIOUS
      <4>2. i = n \/ i \in 1 .. n - 1
        OBVIOUS
      <4>3. CASE i = n
        BY <4>1, <4>3
      <4>4. CASE i \in 1 .. n - 1
        <5>1. h[i] = g[i]
          BY <4>4
        <5> QED
          BY <3>2, <4>1, <4>4, <5>1
      <4> QED
        BY <4>2, <4>3, <4>4
    <3> HIDE DEF h
    <3>5. Run(h, n)
      BY <3>3, <3>4
    <3> QED
      BY <2>2, <3>5 DEF Can
  <2> QED
    BY <2>3, <2>4
<1>2. PICK g : Run(g, N)
  <2>1. N \in 0 .. N
    OBVIOUS
  <2> HIDE DEF Run
  <2> QED
    BY <1>1, <2>1
<1> DEFINE Rec(f) == [n \in 0 .. N |-> IF n = 0 THEN r ELSE ApplySetting(f[n - 1], st[n])]
           F == CHOOSE f : f = Rec(f)
<1>3. g = Rec(g)
  <2>1. ASSUME NEW n \in 0 .. N
        PROVE  g[n] = IF n = 0 THEN r ELSE ApplySetting(g[n - 1], st[n])
    <3>1. n = 0 \/ n \in 1 .. N
      OBVIOUS
    <3> QED
      BY <1>2, <3>1
  <2> QED
    BY <1>2, <2>1
<1>4. F = Rec(F)
  BY <1>3
<1>5. ApplyAll(r, st) = F[N]
  <2>1. Len(st) = N
    OBVIOUS
  <2> QED
    BY <2>1 DEF ApplyAll
<1> HIDE DEF F
<1>6. \A n \in 0 .. N : After(F[n], r, st, n)
  <2> SUFFICES ASSUME NEW n0 \in 0 .. N, ~ After(F[n0], r, st, n0) PROVE FALSE
    OBVIOUS
  <2> DEFINE Right(n) == After(F[n], r, st, n)
             Bad == {n \in 0 .. N : ~ Right(n)}
  <2> HIDE DEF Right
  <2>1. Bad \subseteq Nat /\ Bad # {}
    <3>1. ~ Right(n0)
      BY DEF Right
    <3> QED
      BY <3>1
  <2>2. PICK n \in Bad : \A m \in Bad : n <= m
    BY <2>1, LeastNat
  <2>3. CASE n = 0
    BY <1>4, <2>2, <2>3, AfterNone DEF Right
  <2>4. CASE n # 0
    <3>1. n \in 1 .. N /\ Right(n - 1)
      BY <2>2, <2>4
    <3>2. F[n] = ApplySetting(F[n - 1], st[n])
      <4>1. n \in 0 .. N /\ n # 0
        BY <3>1
      <4>2. Rec(F)[n] = ApplySetting(F[n - 1], st[n])
        BY <4>1
      <4> HIDE DEF Rec
      <4> QED
        BY <1>4, <4>2
    <3>3. After(F[n], r, st, n)
      BY <3>1, <3>2, AfterOneMore DEF Right
    <3> QED
      BY <2>2, <3>3 DEF Right
  <2> QED
    BY <2>3, <2>4
<1> QED
  BY <1>5, <1>6

\* The keys of the table.
Names == {"temp_p95_warn_c", "temp_p95_bad_c", "retired_pages_warn", "retired_pages_bad"}

\* The keys, and the type of the defaults.
LEMMA KeyNames == Key = Names /\ cfg_defaults \in [Key -> Value]
<1>1. Key = Names
  BY DEF Key, Names, cfg_defaults
<1> QED
  BY <1>1 DEF Names, cfg_defaults, Value

\* The row of each key; no two rows are for the same one.
LEMMA Entries ==
  /\ find_entry("temp_p95_warn_c") = cfg_table[1]
  /\ find_entry("temp_p95_bad_c") = cfg_table[2]
  /\ find_entry("retired_pages_warn") = cfg_table[3]
  /\ find_entry("retired_pages_bad") = cfg_table[4]
<1>1. ToSet(cfg_table) = {cfg_table[1], cfg_table[2], cfg_table[3], cfg_table[4]}
  BY DEF ToSet, cfg_table
<1>2. /\ cfg_table[1].key = "temp_p95_warn_c" /\ cfg_table[2].key = "temp_p95_bad_c"
      /\ cfg_table[3].key = "retired_pages_warn" /\ cfg_table[4].key = "retired_pages_bad"
  BY DEF cfg_table
<1> HIDE DEF cfg_table
<1> QED
  BY <1>1, <1>2 DEF find_entry

\* What parses is a number, or NaN where the key takes a double.
LEMMA Kinds ==
  /\ \A t : Parses("retired_pages_warn", t) => t \in Int
  /\ \A t : Parses("retired_pages_bad", t) => t \in Int
  /\ \A t : Parses("temp_p95_warn_c", t) => t = NaN \/ t \in Int
  /\ \A t : Parses("temp_p95_bad_c", t) => t = NaN \/ t \in Int
<1>1. cfg_table[3].type = "int" /\ cfg_table[4].type = "int"
  BY DEF cfg_table
<1> QED
  BY <1>1, Entries DEF Parses, parse_double, parse_int, InRange

\* The defaults would pass as values of a file.
LEMMA DefaultsParse == \A k \in Key : Parses(k, cfg_defaults[k])
<1>1. /\ InRange(cfg_table[1], cfg_defaults["temp_p95_warn_c"])
      /\ InRange(cfg_table[2], cfg_defaults["temp_p95_bad_c"])
      /\ InRange(cfg_table[3], cfg_defaults["retired_pages_warn"])
      /\ InRange(cfg_table[4], cfg_defaults["retired_pages_bad"])
  BY DEF cfg_table, cfg_defaults, InRange
<1> HIDE DEF cfg_table
<1> QED
  BY <1>1, Entries, KeyNames DEF Parses, parse_double, parse_int, Names

\* The second loop asks for the variable of every key, and of each one once.
LEMMA VariablesOfKeys ==
  ASSUME NEW e \in [Key -> Text \cup {Unset}]
  PROVE  /\ Variables(e) = [i \in 1 .. 4 |-> Variables(e)[i]]
         /\ \A i \in 1 .. 4 : /\ Variables(e)[i].key \in Key
                              /\ Variables(e)[i].text = e[Variables(e)[i].key]
         /\ \A k \in Key : \E i \in 1 .. 4 : Variables(e)[i].key = k
<1>1. DOMAIN cfg_table = 1 .. 4
  BY DEF cfg_table
<1>2. \A i \in 1 .. 4 : cfg_table[i].key \in Names
  BY DEF cfg_table, Names
<1>3. \A k \in Names : \E i \in 1 .. 4 : cfg_table[i].key = k
  BY DEF cfg_table, Names
<1> HIDE DEF cfg_table
<1>4. \A i \in 1 .. 4 : /\ Variables(e)[i].key = cfg_table[i].key
                        /\ Variables(e)[i].text = e[cfg_table[i].key]
  BY <1>1 DEF Variables
<1>5. Variables(e) = [i \in 1 .. 4 |-> Variables(e)[i]]
  BY <1>1 DEF Variables
<1> QED
  BY <1>2, <1>3, <1>4, <1>5, KeyNames

\* A line for a key always gives it a value.
LEMMA LinesSet ==
  ASSUME NEW N \in Nat, NEW lines \in [1 .. N -> Line], NEW i \in 1 .. N
  PROVE  /\ lines[i].text \in Value \cup {Unset}
         /\ \A k \in Key : Sets(lines[i], k) <=> lines[i].key = k
<1>1. lines[i] \in Line
  OBVIOUS
<1>2. CASE \E k \in Key, t \in Text : lines[i] = [key |-> k, text |-> t]
  BY <1>2, StartupAssumption DEF Sets, Value
<1>3. CASE lines[i] = [key |-> "unknown", text |-> Garbage]
  <2>1. lines[i].key \notin Key
    BY <1>3, KeyNames DEF Names
  <2> QED
    BY <1>3, <2>1 DEF Sets, Value
<1> QED
  BY <1>1, <1>2, <1>3 DEF Line

\* The last line for a key is the one that Documented chooses.
LEMMA LastLine ==
  ASSUME NEW N \in Nat, NEW lines \in [1 .. N -> Line], NEW k \in Key,
         NEW i \in 1 .. N, LastFor(k, i, lines, N)
  PROVE  LET L == {j \in DOMAIN lines : lines[j].key = k}
         IN  L # {} /\ i = CHOOSE m \in L : \A j \in L : j <= m
<1> DEFINE L == {j \in DOMAIN lines : lines[j].key = k}
<1>1. \A j \in 1 .. N : Sets(lines[j], k) <=> lines[j].key = k
  BY LinesSet
<1>2. i \in L /\ L \subseteq 1 .. N
  BY <1>1 DEF LastFor
<1>3. \A j \in L : j <= i
  <2> SUFFICES ASSUME NEW j \in L, j > i PROVE FALSE
    BY <1>2
  <2>1. j \in i + 1 .. N /\ Sets(lines[j], k)
    BY <1>1, <1>2
  <2> QED
    BY <2>1 DEF LastFor
<1> HIDE DEF L
<1>4. \A m \in L : (\A j \in L : j <= m) => m = i
  BY <1>2, <1>3
<1>5. (CHOOSE m \in L : \A j \in L : j <= m) \in L /\
      \A j \in L : j <= CHOOSE m \in L : \A j2 \in L : j2 <= m
  BY <1>2, <1>3
<1> QED
  BY <1>2, <1>4, <1>5 DEF L

\* For every file and every environment config_load accepts what is well formed,
\* and then returns what the documentation promises.
LEMMA LoadAsDocumented ==
  ASSUME NEW rd \in BOOLEAN, NEW N \in Nat, NEW lines \in [1 .. N -> Line],
         NEW e \in [Key -> Text \cup {Unset}]
  PROVE  /\ config_load(rd, lines, e) \in Result
         /\ config_load(rd, lines, e).ok <=> rd /\ WellFormed(lines, e)
         /\ config_load(rd, lines, e).ok =>
              /\ config_load(rd, lines, e).cfg = Documented(lines, e)
              /\ \A k \in Key : Parses(k, config_load(rd, lines, e).cfg[k])
<1> DEFINE r == [ok |-> rd, cfg |-> cfg_defaults]
           q == ApplyAll(r, lines)
           v == Variables(e)
           p == ApplyAll(q, v)
<1>1. config_load(rd, lines, e) = p
  BY DEF config_load
<1>2. r \in Result /\ r.ok = rd /\ r.cfg = cfg_defaults
  BY KeyNames DEF Result
<1>3. lines = [i \in 1 .. N |-> lines[i]] /\ DOMAIN lines = 1 .. N
  OBVIOUS
<1>4. \A i \in 1 .. N : /\ lines[i].text \in Value \cup {Unset}
                        /\ \A k \in Key : Sets(lines[i], k) <=> lines[i].key = k
  BY LinesSet
<1> HIDE DEF r, v
<1>5. After(q, r, lines, N)
  BY <1>2, <1>3, <1>4, LoopResult
<1>6. q \in Result
  BY <1>5 DEF After
<1>7. /\ v = [i \in 1 .. 4 |-> v[i]]
      /\ \A i \in 1 .. 4 : v[i].key \in Key /\ v[i].text = e[v[i].key]
      /\ \A k \in Key : \E i \in 1 .. 4 : v[i].key = k
  BY VariablesOfKeys DEF v
<1>8. \A i \in 1 .. 4 : v[i].text \in Value \cup {Unset}
  BY <1>7 DEF Value
<1> HIDE DEF q
<1>9. After(p, q, v, 4)
  BY <1>6, <1>7, <1>8, LoopResult
<1> HIDE DEF p
<1>10. AllParse(lines, N) <=>
         \A i \in DOMAIN lines : lines[i].key \in Key => Parses(lines[i].key, lines[i].text)
  BY <1>3, <1>4 DEF AllParse
<1>11. AllParse(v, 4) <=> \A k \in Key : e[k] # Unset => Parses(k, e[k])
  <2>1. \A i \in 1 .. 4 : \A k \in Key :
          Sets(v[i], k) <=> v[i].key = k /\ e[k] # Unset
    BY <1>7 DEF Sets
  <2> QED
    BY <1>7, <2>1 DEF AllParse
<1>12. p.ok <=> rd /\ WellFormed(lines, e)
  BY <1>2, <1>5, <1>9, <1>10, <1>11 DEF After, WellFormed
<1>13. ASSUME p.ok, NEW k \in Key PROVE p.cfg[k] = Documented(lines, e)[k]
  <2> DEFINE L == {i \in DOMAIN lines : lines[i].key = k}
             last == CHOOSE i \in L : \A j \in L : j <= i
  <2>1. Documented(lines, e)[k] =
          CASE e[k] # Unset -> e[k]
            [] e[k] = Unset /\ L # {} -> lines[last].text
            [] OTHER -> cfg_defaults[k]
    BY DEF Documented
  <2> HIDE DEF L, last
  <2>2. q.ok
    BY <1>9, <1>13 DEF After
  <2>3. CASE e[k] # Unset
    <3>1. ~ NoneFor(k, v, 4)
      BY <1>7, <2>3 DEF NoneFor, Sets
    <3>2. PICK i \in 1 .. 4 : LastFor(k, i, v, 4) /\ p.cfg[k] = v[i].text
      BY <1>9, <1>13, <3>1 DEF After
    <3>3. p.cfg[k] = e[k]
      BY <1>7, <3>2 DEF LastFor, Sets
    <3> QED
      BY <2>1, <2>3, <3>3
  <2>4. CASE e[k] = Unset
    <3>1. \A i \in 1 .. 4 : ~ Sets(v[i], k)
      BY <1>7, <2>4 DEF Sets
    <3>2. p.cfg[k] = q.cfg[k]
      BY <1>9, <1>13, <3>1 DEF After, LastFor
    <3>3. CASE NoneFor(k, lines, N) /\ q.cfg[k] = r.cfg[k]
      <4>1. L = {}
        BY <1>3, <1>4, <3>3 DEF L, NoneFor
      <4> QED
        BY <1>2, <2>1, <2>4, <3>2, <3>3, <4>1
    <3>4. CASE \E i \in 1 .. N : LastFor(k, i, lines, N) /\ q.cfg[k] = lines[i].text
      <4>1. PICK i \in 1 .. N : LastFor(k, i, lines, N) /\ q.cfg[k] = lines[i].text
        BY <3>4
      <4>2. L # {} /\ i = last
        BY <4>1, LastLine DEF L, last
      <4> QED
        BY <2>1, <2>4, <3>2, <4>1, <4>2
    <3> QED
      BY <1>5, <2>2, <3>3, <3>4 DEF After
  <2> QED
    BY <2>3, <2>4
<1>14. p \in Result
  BY <1>9 DEF After
<1>15. p.ok => p.cfg = Documented(lines, e)
  <2> DEFINE D == Documented(lines, e)
  <2>1. p.cfg = [k \in Key |-> p.cfg[k]]
    BY <1>14 DEF Result
  <2>2. D = [k \in Key |-> D[k]]
    BY DEF Documented
  <2> HIDE DEF D
  <2>3. p.ok => \A k \in Key : p.cfg[k] = D[k]
    BY <1>13 DEF D
  <2> QED
    BY <2>1, <2>2, <2>3 DEF D
<1>16. p.ok => \A k \in Key : Parses(k, p.cfg[k])
  <2> SUFFICES ASSUME p.ok, NEW k \in Key PROVE Parses(k, p.cfg[k])
    OBVIOUS
  <2>1. q.ok => Parses(k, q.cfg[k])
    BY <1>2, <1>5, DefaultsParse DEF After, AllParse, LastFor
  <2> QED
    BY <1>9, <2>1 DEF After, AllParse, LastFor
<1> QED
  BY <1>1, <1>12, <1>14, <1>15, <1>16

-----------------------------------------------------------------------------
\* AcceptedIsOrdered, of any configuration.
Ordered(c) ==
  /\ NaN \notin {c.temp_p95_warn_c, c.temp_p95_bad_c} =>
       c.temp_p95_warn_c < c.temp_p95_bad_c
  /\ c.retired_pages_warn <= c.retired_pages_bad

\* What parses and passes config_validate is in order, NaN aside.
LEMMA ValidIsOrdered ==
  ASSUME NEW c, \A k \in Key : Parses(k, c[k]), config_validate(c)
  PROVE  Ordered(c)
<1>1. /\ c.retired_pages_warn \in Int /\ c.retired_pages_bad \in Int
      /\ c.temp_p95_warn_c = NaN \/ c.temp_p95_warn_c \in Int
      /\ c.temp_p95_bad_c = NaN \/ c.temp_p95_bad_c \in Int
  BY Kinds, KeyNames DEF Names
<1> QED
  BY <1>1, NaNAssumption DEF Ordered, config_validate, NotLess, Greater

\* The inputs of config_load, and what the exporter runs with.
Inputs ==
  /\ readable \in BOOLEAN
  /\ \E N \in Nat : file \in [1 .. N -> Line]
  /\ env \in [Key -> Text \cup {Unset}]

ConfigInv ==
  /\ pc = "config" => Inputs
  /\ AcceptedIsOrdered

\* A file is a sequence of lines, and the environment has a text or nothing for
\* every key.
LEMMA InputsInit == Init => Inputs
<1> SUFFICES ASSUME Init PROVE Inputs
  OBVIOUS
<1>1. \E N \in Nat : file \in [1 .. N -> Line]
  BY StartupAssumption DEF Init, BoundedSeq, SeqOf
<1>2. env \in [Key -> Text \cup {Unset}]
  BY StartupAssumption DEF Init, Environment
<1> QED
  BY <1>1, <1>2 DEF Init, Inputs

\* LoadConfig goes on exactly with what is well formed and consistent.
LEMMA LoadStep ==
  ASSUME LoadConfig, Inputs
  PROVE  LET good == /\ readable /\ WellFormed(file, env)
                     /\ config_validate(Documented(file, env))
         IN  /\ good => pc' = "dirs" /\ exit' = exit
             /\ ~ good => pc' = "ended" /\ exit' = "1"
             /\ good => cfg' = Documented(file, env) /\ Ordered(cfg')
<1> DEFINE q == config_load(readable, file, env)
           D == Documented(file, env)
<1>1. PICK N \in Nat : file \in [1 .. N -> Line]
  BY DEF Inputs
<1>2. /\ q \in Result
      /\ q.ok <=> readable /\ WellFormed(file, env)
      /\ q.ok => q.cfg = D /\ \A k \in Key : Parses(k, q.cfg[k])
  BY <1>1, LoadAsDocumented DEF Inputs
<1>3. /\ cfg' = q.cfg
      /\ (q.ok /\ config_validate(q.cfg)) => pc' = "dirs" /\ exit' = exit
      /\ ~ (q.ok /\ config_validate(q.cfg)) => pc' = "ended" /\ exit' = "1"
  BY DEF LoadConfig, Goto, Return
<1> HIDE DEF q, D
<1>4. q.ok /\ config_validate(q.cfg) => Ordered(q.cfg)
  BY <1>2, ValidIsOrdered
<1> QED
  BY <1>2, <1>3, <1>4 DEF D

\* Nothing else touches the configuration or leaves its place for another one
\* than the end.
ConfigSettled ==
  /\ UNCHANGED confVars
  /\ pc' = "config" => pc = "config"
  /\ pc = "ended" => pc' = "ended"
  /\ pc = "config" => pc' \in {"config", "ended"} /\ exit' \in {exit, "signal"}

\* No step but LoadConfig does more.
LEMMA ConfigKept ==
  ASSUME [Next]_vars, ~ LoadConfig
  PROVE  ConfigSettled
<1> USE DEF ConfigSettled, Goto, Return
<1>1. CASE \/ CheckDirs \/ nvml_load \/ NvmlInit \/ dcgm_load \/ DcgmInit
           \/ CountFails \/ DeviceGetCount
  BY <1>1 DEF CheckDirs, nvml_load, NvmlInit, dcgm_load, DcgmInit, CountFails,
              DeviceGetCount
<1>2. CASE Enumerate \/ ConnectDcgm \/ StartThread \/ InstallHandlers \/ Spawn
  BY <1>2 DEF Enumerate, ConnectDcgm, StartThread, InstallHandlers, Spawn
<1>3. CASE WaitEnds \/ LeaveMonitor \/ collector_stop \/ Teardown \/ RespawnFails
  BY <1>3 DEF WaitEnds, LeaveMonitor, collector_stop, Teardown, RespawnFails
<1>4. CASE Sigterm
  BY <1>4 DEF Sigterm
<1>5. CASE \E g \in GPU : Poll(g) \/ ThreadStops(g)
  BY <1>5 DEF Poll, ThreadStops
<1>6. CASE UNCHANGED vars
  BY <1>6 DEF vars, confVars
<1> QED
  BY <1>1, <1>2, <1>3, <1>4, <1>5, <1>6 DEF Next, Main

\* From its start main() has inputs that config_load can read, and once it has
\* read them its thresholds are in order (main.c:320-350).
THEOREM ConfigInvariant == Spec => []ConfigInv
<1>1. Init => ConfigInv
  BY InputsInit DEF Init, ConfigInv, AcceptedIsOrdered
<1>2. ConfigInv /\ [Next]_vars => ConfigInv'
  <2> SUFFICES ASSUME ConfigInv, [Next]_vars PROVE ConfigInv'
    OBVIOUS
  <2>1. CASE LoadConfig
    <3>1. pc' \in {"dirs", "ended"} /\ (pc' # "ended" => Ordered(cfg'))
      BY <2>1, LoadStep DEF ConfigInv, LoadConfig
    <3> QED
      BY <3>1 DEF ConfigInv, AcceptedIsOrdered, Ordered
  <2>2. CASE ~ LoadConfig
    BY <2>2, ConfigKept DEF ConfigSettled, ConfigInv, AcceptedIsOrdered, Inputs, confVars
  <2> QED
    BY <2>1, <2>2
<1> QED
  BY <1>1, <1>2, PTL DEF Spec

\* Whatever the file's length and whatever file and environment say, main() goes
\* on only with thresholds that are in order wherever they are numbers.
THEOREM RunsWithOrderedThresholds == Spec => []AcceptedIsOrdered
<1>1. ConfigInv => AcceptedIsOrdered
  BY DEF ConfigInv
<1> QED
  BY <1>1, ConfigInvariant, PTL

\* For every file that can be read and every environment, config_load, which
\* overwrites in two passes, ends with what README.md:111 promises, and main()
\* goes on exactly if every value given anywhere is well formed and the result
\* consistent.
THEOREM LoadsWhatIsDocumented == Spec => ConfigAsDocumented
<1> DEFINE good == /\ WellFormed(file, env)
                   /\ config_validate(Documented(file, env))
           A == pc = "config" /\ readable =>
                  /\ pc' = "dirs" => good /\ cfg' = Documented(file, env)
                  /\ exit' = "1" => ~good
<1>1. ConfigInv /\ StartupInv /\ [Next]_vars => [A]_vars
  <2> SUFFICES ASSUME ConfigInv, StartupInv, [Next]_vars, pc = "config", readable
               PROVE  /\ pc' = "dirs" => good /\ cfg' = Documented(file, env)
                      /\ exit' = "1" => ~good
    OBVIOUS
  <2>1. exit = "no"
    BY DEF StartupInv, Ending, Joining
  <2>2. CASE LoadConfig
    <3>1. /\ good => pc' = "dirs" /\ exit' = exit
          /\ ~ good => pc' = "ended" /\ exit' = "1"
          /\ good => cfg' = Documented(file, env)
      BY <2>2, LoadStep DEF ConfigInv
    <3> HIDE DEF good
    <3> QED
      BY <2>1, <3>1
  <2>3. CASE ~ LoadConfig
    <3>1. pc' # "dirs" /\ exit' # "1"
      BY <2>1, <2>3, ConfigKept DEF ConfigSettled
    <3> QED
      BY <3>1
  <2> QED
    BY <2>2, <2>3
<1> QED
  BY <1>1, ConfigInvariant, StartupInvariant, PTL DEF Spec, ConfigAsDocumented

-----------------------------------------------------------------------------
(* Progress.                                                               *)

\* The order of the places in main().
Stage == [config |-> 0, dirs |-> 1, nvml |-> 2, nvmlInit |-> 3, dcgm |-> 4,
          dcgmInit |-> 5, count |-> 6, enumerate |-> 7, setup |-> 8,
          threads |-> 9, handlers |-> 10, spawn |-> 11, wait |-> 12,
          monitor |-> 13, join |-> 14, teardown |-> 15, ended |-> 16]

\* Every step of main() leads to a later place, or to the next GPU in a loop.
MainAdvances ==
  [][Main => Stage[pc] < Stage[pc'] \/ (pc' = pc /\ next < next' /\ next' <= NumGpus)]_vars

\* For any number of GPUs main() runs through its places in order and each of its
\* loops over the GPUs once, whatever fails, so that it can only be kept from its
\* end by a thread it joins: the part of TermEnds that needs no fairness.
THEOREM MainNeverGoesBack == Spec => MainAdvances
<1>1. StartupInv /\ [Next]_vars =>
        [Main => Stage[pc] < Stage[pc']
                   \/ (pc' = pc /\ next < next' /\ next' <= NumGpus)]_vars
  <2> SUFFICES ASSUME StartupInv, Main
               PROVE  Stage[pc] < Stage[pc']
                        \/ (pc' = pc /\ next < next' /\ next' <= NumGpus)
    OBVIOUS
  <2>1. next \in 1 .. NumGpus /\ NumGpus \in Nat
    BY StartupAssumption DEF StartupInv, Types, GPU
  <2> USE DEF Goto, Return
  <2>2. CASE \/ LoadConfig \/ CheckDirs \/ nvml_load \/ NvmlInit \/ dcgm_load
             \/ DcgmInit
    BY <2>2 DEF LoadConfig, CheckDirs, nvml_load, NvmlInit, dcgm_load, DcgmInit, Stage
  <2>3. CASE \/ CountFails \/ DeviceGetCount \/ ConnectDcgm \/ InstallHandlers
             \/ Spawn \/ WaitEnds \/ LeaveMonitor \/ Teardown
    BY <2>3 DEF CountFails, DeviceGetCount, ConnectDcgm, InstallHandlers, Spawn,
                WaitEnds, LeaveMonitor, Teardown, Stage
  <2>4. CASE Enumerate
    BY <2>1, <2>4 DEF Enumerate, Stage
  <2>5. CASE StartThread
    BY <2>1, <2>5 DEF StartThread, Stage
  <2>6. CASE collector_stop
    BY <2>1, <2>6 DEF collector_stop, Stage
  <2> QED
    BY <2>2, <2>3, <2>4, <2>5, <2>6 DEF Main
<1> QED
  BY <1>1, StartupInvariant, PTL DEF Spec, MainAdvances
=============================================================================
