-------------------------- MODULE SupervisorProofs --------------------------
(***************************************************************************)
(* Descriptors, children and a clean end, for every number of GPUs and any *)
(* number of respawns: the inductive invariant says who holds which end of *)
(* which socketpair at every point of spawn_http_child, of the child that  *)
(* it forks, and of the shutdown.                                          *)
(***************************************************************************)
EXTENDS Supervisor, FiniteSetTheorems, TLAPS

Holders == {Parent} \cup Gen

Types ==
  /\ main_pc \in MainStates
  /\ parent_fd \in Fd \cup {NoFd}
  /\ old_fd \in Fd \cup {NoFd}
  /\ gen \in 0 .. MaxSpawns
  /\ fdtab \in [Fd -> Gen \cup {None}]
  /\ parent_end \in [Gen -> SUBSET Holders]
  /\ child_end \in [Gen -> SUBSET Holders]
  /\ thread \in [GPU -> {"poll", "write", "done"}]
  /\ child \in [Gen -> ChildStates]
  /\ inherited \in [Gen -> Gen \cup {None}]

\* The points of main() that are neither inside spawn_http_child nor the end.
Idle == {"socketpair", "wait", "monitor", "reaped", "join", "kill", "await",
         "teardown"}
Spawning == {"init", "fork", "swap"}

\* The socketpairs in S, and the numbers in F, are those the parent has open.
Holds(S) == \A j \in Gen : Parent \in parent_end[j] <=> j \in S
Numbers(F) == \A f \in Fd : fdtab[f] # None <=> f \in F

\* The parent's child ends: that of the socketpair being set up, or none.
HoldsChildEnd(S) == \A j \in Gen : Parent \in child_end[j] <=> j \in S

ParentEnds ==
  /\ main_pc \in Idle =>
       /\ Holds({ParentSocket}) /\ Numbers({parent_fd}) /\ HoldsChildEnd({})
       /\ ParentSocket <= gen
  /\ main_pc \in Spawning =>
       /\ gen \in Gen /\ ParentSocket < gen
       /\ \E n \in Fd : /\ n # parent_fd /\ fdtab[n] = gen
                        /\ Numbers({parent_fd, n})
       /\ Holds({ParentSocket, gen}) /\ HoldsChildEnd({gen})
  /\ main_pc = "close" =>
       /\ gen \in Gen /\ parent_fd \in Fd /\ fdtab[parent_fd] = gen
       /\ old_fd # parent_fd /\ Target(old_fd) < gen
       /\ Numbers({parent_fd, old_fd})
       /\ Holds({Target(old_fd), gen}) /\ HoldsChildEnd({gen})
  /\ main_pc \in Ended => Holds({}) /\ HoldsChildEnd({})

\* A child has its own child end as long as it lives, and until it has closed
\* them the parent's ends that it was forked with.
ChildEnds(k) ==
  /\ ~ Alive(k) => \A j \in Gen : k \notin parent_end[j] /\ k \notin child_end[j]
  /\ Alive(k) => \A j \in Gen : k \in child_end[j] <=> j = k
  /\ child[k] = "forked" =>
       \A j \in Gen : k \in parent_end[j] => j \in {k, inherited[k]}
  /\ Alive(k) /\ child[k] # "forked" => \A j \in Gen : k \notin parent_end[j]

\* A child is forked only when no other lives, and child_pid follows it.
Children ==
  /\ \A j, k \in Gen : Alive(j) /\ Alive(k) => j = k
  /\ main_pc \in {"reaped", "socketpair", "init", "fork"} =>
       \A k \in Gen : ~ Alive(k)
  /\ main_pc = "swap" => \A k \in Gen : Alive(k) => k = gen
  /\ main_pc \notin {"swap", "killed"} => \A k \in Gen : Alive(k) => k = child_pid

Shutdown ==
  /\ ~ notified => ~ filesd
  /\ main_pc = "join" => ~ filesd
  /\ main_pc \in {"kill", "await", "teardown", "exited"} =>
       ~ filesd /\ \A g \in GPU : thread[g] = "done"

SupervisorInv ==
  /\ Types
  /\ ParentEnds
  /\ \A k \in Gen : ChildEnds(k)
  /\ Children
  /\ Shutdown

-----------------------------------------------------------------------------
(* The facts about the numbers that the steps of main() need.              *)

\* While a socketpair is set up, NewFd is the one number that names it, and
\* it is not exp->parent_fd.
LEMMA NewNumber ==
  ASSUME Types, ParentEnds, main_pc \in Spawning
  PROVE  /\ NewFd \in Fd /\ NewFd # parent_fd /\ fdtab[NewFd] = gen
         /\ Numbers({parent_fd, NewFd})
<1>1. PICK n \in Fd : /\ n # parent_fd /\ fdtab[n] = gen
                      /\ Numbers({parent_fd, n})
  BY DEF ParentEnds
<1>2. NewFd \in Fd /\ fdtab[NewFd] = gen
  BY <1>1 DEF NewFd
<1>3. ParentSocket # gen
  BY DEF ParentEnds, Types, ParentSocket, Gen, None
<1>4. NewFd # parent_fd
  BY <1>2, <1>3 DEF ParentSocket, Fd, NoFd
<1>5. gen # None
  BY DEF ParentEnds, Gen, None
<1>6. NewFd = n
  BY <1>1, <1>2, <1>4, <1>5 DEF Numbers
<1> QED
  BY <1>1, <1>2, <1>4, <1>6

\* exp->parent_fd names a socketpair, or none.
LEMMA ParentSocketType ==
  ASSUME Types
  PROVE  ParentSocket \in Gen \cup {None}
BY DEF Types, ParentSocket, Fd, NoFd

-----------------------------------------------------------------------------
(* Types.                                                                  *)

\* Nothing that Types speaks of changes, but for where main() is.
LEMMA TypesKept ==
  ASSUME Types, main_pc' \in MainStates,
         UNCHANGED << pidVars, gen, fdtab, endVars, thread, child, inherited >>
  PROVE  Types'
BY DEF Types, pidVars, endVars

\* A child that ends, or is reaped, leaves the types as they are.
LEMMA ChildTypes ==
  ASSUME Types, NEW k, NEW s \in ChildStates
  PROVE  /\ [child EXCEPT ![k] = s] \in [Gen -> ChildStates]
         /\ Drop(parent_end, k) \in [Gen -> SUBSET Holders]
         /\ Drop(child_end, k) \in [Gen -> SUBSET Holders]
BY DEF Types, Drop

\* fork copies descriptors to a process of the model.
LEMMA InheritTypes ==
  ASSUME NEW ends \in [Gen -> SUBSET Holders], NEW k \in Gen
  PROVE  Inherit(ends, k) \in [Gen -> SUBSET Holders]
BY DEF Inherit, Holders

\* Every step of main() keeps the types.
LEMMA MainTypes ==
  ASSUME SupervisorAssumption, Types, ParentEnds,
         Main \/ sig_handler \/ ParentKilled
  PROVE  Types'
<1> USE DEF MainStates, Ended
<1>1. CASE Socketpair
  <2>1. gen' \in 0 .. MaxSpawns /\ gen + 1 \in Gen /\ main_pc' \in MainStates
    BY <1>1 DEF Socketpair, Types, SupervisorAssumption, Gen
  <2>2. fdtab' \in [Fd -> Gen \cup {None}]
    BY <1>1, <2>1 DEF Socketpair, Types
  <2>3. Parent \in Holders
    BY DEF Holders
  <2>4. /\ parent_end' \in [Gen -> SUBSET Holders]
        /\ child_end' \in [Gen -> SUBSET Holders]
    BY <1>1, <2>1, <2>3 DEF Socketpair, Types
  <2> QED
    BY <1>1, <2>1, <2>2, <2>4 DEF Socketpair, Types, pidVars, threadVars, childVars
<1>2. CASE SocketpairFails
  BY <1>2, TypesKept DEF SocketpairFails, SpawnFails, threadVars, childVars
<1>3. CASE WriteInit
  BY <1>3, TypesKept DEF WriteInit, threadVars, childVars
<1>4. CASE Fork
  <2>1. gen \in Gen
    BY <1>4 DEF Fork, ParentEnds, Spawning
  <2>2. /\ parent_end' \in [Gen -> SUBSET Holders]
        /\ child_end' \in [Gen -> SUBSET Holders]
    BY <1>4, <2>1, InheritTypes DEF Fork, Types
  <2>3. child' \in [Gen -> ChildStates]
    BY <1>4, <2>1 DEF Fork, Types, ChildStates, Living
  <2>4. inherited' \in [Gen -> Gen \cup {None}]
    BY <1>4, <2>1, ParentSocketType DEF Fork, Types
  <2> QED
    BY <1>4, <2>1, <2>2, <2>3, <2>4 DEF Fork, Types, pidVars, threadVars
<1>5. CASE WriteInitFails \/ ForkFails
  <2>1. NewFd \in Fd
    BY <1>5, NewNumber DEF WriteInitFails, ForkFails, GiveUp, Spawning
  <2>2. fdtab' \in [Fd -> Gen \cup {None}]
    BY <1>5, <2>1 DEF WriteInitFails, ForkFails, GiveUp, Types
  <2>3. /\ parent_end' \in [Gen -> SUBSET Holders]
        /\ child_end' \in [Gen -> SUBSET Holders]
    BY <1>5 DEF WriteInitFails, ForkFails, GiveUp, Types
  <2> QED
    BY <1>5, <2>2, <2>3 DEF WriteInitFails, ForkFails, GiveUp, SpawnFails, Types, pidVars, threadVars, childVars
<1>6. CASE Swap
  <2>1. NewFd \in Fd
    BY <1>6, NewNumber DEF Swap, Spawning
  <2> QED
    BY <1>6, <2>1 DEF Swap, Types, sockVars, endVars, threadVars, childVars
<1>7. CASE CloseOld
  <2>1. /\ fdtab' \in [Fd -> Gen \cup {None}]
        /\ parent_end' \in [Gen -> SUBSET Holders]
        /\ child_end' \in [Gen -> SUBSET Holders]
    <3>1. child_end' \in [Gen -> SUBSET Holders]
      BY <1>7 DEF CloseOld, Types
    <3>2. CASE old_fd = NoFd
      BY <1>7, <3>1, <3>2 DEF CloseOld, Types
    <3>3. CASE old_fd # NoFd
      BY <1>7, <3>1, <3>3 DEF CloseOld, Types
    <3> QED
      BY <3>2, <3>3
  <2> QED
    BY <1>7, <2>1 DEF CloseOld, Types, threadVars, childVars
<1>8. CASE AnnounceReady \/ Respawn \/ LeaveMonitor \/ Join \/ Kill \/ sig_handler
  <2>1. main_pc' \in MainStates
    BY <1>8 DEF AnnounceReady, Respawn, LeaveMonitor, Join, Kill, sig_handler, Types
  <2>2. UNCHANGED << pidVars, gen, fdtab, endVars, thread, child, inherited >>
    BY <1>8 DEF AnnounceReady, Respawn, LeaveMonitor, Join, Kill, sig_handler,
                sockVars, threadVars, childVars
  <2> QED
    BY <2>1, <2>2, TypesKept
<1>9. CASE Reap \/ Await
  <2>1. child' \in [Gen -> ChildStates]
    <3>1. child' = [child EXCEPT ![child_pid] = "reaped"] \/ child' = child
      BY <1>9 DEF Reap, Await
    <3>2. "reaped" \in ChildStates
      BY DEF ChildStates
    <3>3. [child EXCEPT ![child_pid] = "reaped"] \in [Gen -> ChildStates]
      BY <3>2, ChildTypes
    <3> QED
      BY <3>1, <3>3 DEF Types
  <2> QED
    BY <1>9, <2>1 DEF Reap, Await, Types, pidVars, sockVars, endVars, threadVars
<1>10. CASE Teardown
  <2>1. /\ fdtab' \in [Fd -> Gen \cup {None}]
        /\ parent_end' \in [Gen -> SUBSET Holders]
    BY <1>10 DEF Teardown, Types
  <2> QED
    BY <1>10, <2>1 DEF Teardown, Types, threadVars, childVars
<1>11. CASE ParentKilled
  <2>1. /\ parent_end' \in [Gen -> SUBSET Holders]
        /\ child_end' \in [Gen -> SUBSET Holders]
    BY <1>11, ChildTypes DEF ParentKilled, ChildStates
  <2>2. thread' \in [GPU -> {"poll", "write", "done"}]
    BY <1>11 DEF ParentKilled
  <2> QED
    BY <1>11, <2>1, <2>2 DEF ParentKilled, Types, pidVars, childVars
<1> QED
  BY <1>1, <1>2, <1>3, <1>4, <1>5, <1>6, <1>7, <1>8, <1>9, <1>10, <1>11 DEF Main

-----------------------------------------------------------------------------
(* Threads and children.                                                   *)

ThreadStep(g) == ReadParentFd(g) \/ WriteFails(g) \/ Write(g) \/ ThreadEnds(g)

ChildStep(k) ==
  \/ ChildCloses(k) \/ ChildStarts(k) \/ ChildMisreadsInit(k) \/ ChildBinds(k)
  \/ BindFails(k) \/ ChildReceives(k) \/ ChildSeesEof(k) \/ ChildLeaves(k)
  \/ ChildCrashes(k)

\* What a child does to the processes and their descriptors: it moves on with
\* what it holds, it ends, or it closes the parent's ends it was forked with.
Moves(k) ==
  /\ \/ child' = child
     \/ /\ child[k] \in {"closed", "started"}
        /\ \E s \in {"started", "serving"} : child' = [child EXCEPT ![k] = s]
  /\ UNCHANGED endVars

\* Every step of a child is one of the three, and it leaves main(), the
\* numbers and the threads alone.
LEMMA ChildEffect ==
  ASSUME NEW k \in Gen, ChildStep(k)
  PROVE  /\ UNCHANGED << mainVars, gen, fdtab, threadVars, inherited >>
         /\ \/ Moves(k)
            \/ Alive(k) /\ Ends(k)
            \/ ChildCloses(k)
<1> USE DEF Alive, Living
<1>1. CASE ChildCloses(k)
  BY <1>1 DEF ChildCloses
<1>2. CASE ChildStarts(k)
  BY <1>2 DEF ChildStarts, Moves
<1>3. CASE ChildMisreadsInit(k)
  BY <1>3 DEF ChildMisreadsInit, Ends, Moves
<1>4. CASE ChildBinds(k)
  BY <1>4 DEF ChildBinds, Moves, sockVars
<1>5. CASE BindFails(k) \/ ChildLeaves(k) \/ ChildCrashes(k)
  BY <1>5 DEF BindFails, ChildLeaves, ChildCrashes, Ends
<1>6. CASE ChildReceives(k)
  BY <1>6 DEF ChildReceives, Moves
<1>7. CASE ChildSeesEof(k)
  BY <1>7 DEF ChildSeesEof, Moves, sockVars
<1> QED
  BY <1>1, <1>2, <1>3, <1>4, <1>5, <1>6, <1>7 DEF ChildStep

\* A poll thread changes nothing but its own state, the stream and the number
\* that it writes to; one that is done stays so.
LEMMA ThreadEffect ==
  ASSUME Types, NEW g \in GPU, ThreadStep(g)
  PROVE  /\ UNCHANGED << mainVars, gen, fdtab, endVars, childVars >>
         /\ thread' \in [GPU -> {"poll", "write", "done"}]
         /\ \A h \in GPU : thread[h] = "done" => thread'[h] = "done"
<1>1. UNCHANGED << mainVars, gen, fdtab, endVars, childVars >>
  BY DEF ThreadStep, ReadParentFd, WriteFails, Write, ThreadEnds, Sent, sockVars
<1>2. thread[g] # "done" /\ \E s \in {"poll", "write", "done"} :
                               thread' = [thread EXCEPT ![g] = s]
  BY DEF ThreadStep, ReadParentFd, WriteFails, Write, ThreadEnds, Sent
<1> QED
  BY <1>1, <1>2 DEF Types

\* The steps of threads and children keep the types.
LEMMA OtherTypes ==
  ASSUME Types,
         \/ \E g \in GPU : ThreadStep(g)
         \/ \E k \in Gen : ChildStep(k)
  PROVE  Types'
<1>1. ASSUME NEW g \in GPU, ThreadStep(g)
      PROVE  Types'
  BY <1>1, ThreadEffect DEF Types, mainVars, pidVars, endVars, childVars
<1>2. ASSUME NEW k \in Gen, ChildStep(k)
      PROVE  Types'
  <2>1. UNCHANGED << mainVars, gen, fdtab, threadVars, inherited >>
    BY <1>2, ChildEffect
  <2>2. child' \in [Gen -> ChildStates]
    BY <1>2, ChildEffect DEF Moves, Ends, ChildCloses, ChildStates, Living, Types
  <2>3. /\ parent_end' \in [Gen -> SUBSET Holders]
        /\ child_end' \in [Gen -> SUBSET Holders]
    <3>1. CASE Moves(k)
      BY <3>1 DEF Moves, endVars, Types
    <3>2. CASE Ends(k)
      BY <3>2 DEF Ends, Drop, Types
    <3>3. CASE ChildCloses(k)
      BY <3>3 DEF ChildCloses, Types
    <3> QED
      BY <1>2, <3>1, <3>2, <3>3, ChildEffect
  <2> QED
    BY <2>1, <2>2, <2>3 DEF Types, mainVars, pidVars, threadVars
<1> QED
  BY <1>1, <1>2

-----------------------------------------------------------------------------
(* The parent's descriptors.                                               *)

\* They are kept by a step that neither moves main() nor opens or closes
\* anything in the parent.
LEMMA ParentEndsKept ==
  ASSUME ParentEnds,
         UNCHANGED << main_pc, parent_fd, old_fd, gen, fdtab >>,
         \A j \in Gen : /\ Parent \in parent_end'[j] <=> Parent \in parent_end[j]
                        /\ Parent \in child_end'[j] <=> Parent \in child_end[j]
  PROVE  ParentEnds'
BY DEF ParentEnds, Holds, HoldsChildEnd, Numbers, ParentSocket, Target

\* They are kept by a step of main() from one idle point to another.
LEMMA IdleKept ==
  ASSUME ParentEnds, main_pc \in Idle, main_pc' \in Idle,
         UNCHANGED << parent_fd, gen, fdtab, endVars >>
  PROVE  ParentEnds'
BY DEF ParentEnds, Holds, HoldsChildEnd, Numbers, ParentSocket, Idle, Spawning,
       Ended, endVars

\* Threads and children open and close nothing in the parent.
LEMMA OtherParentEnds ==
  ASSUME Types, ParentEnds,
         \/ \E g \in GPU : ThreadStep(g)
         \/ \E k \in Gen : ChildStep(k)
  PROVE  ParentEnds'
<1>1. ASSUME NEW g \in GPU, ThreadStep(g)
      PROVE  ParentEnds'
  BY <1>1, ThreadEffect, ParentEndsKept DEF mainVars, pidVars, endVars
<1>2. ASSUME NEW k \in Gen, ChildStep(k)
      PROVE  ParentEnds'
  <2>1. UNCHANGED << mainVars, gen, fdtab, threadVars, inherited >>
    BY <1>2, ChildEffect
  <2>2. k # Parent
    BY DEF Gen, Parent
  <2>3. \A j \in Gen : /\ Parent \in parent_end'[j] <=> Parent \in parent_end[j]
                       /\ Parent \in child_end'[j] <=> Parent \in child_end[j]
    <3>1. CASE Moves(k)
      BY <3>1 DEF Moves, endVars
    <3>2. CASE Ends(k)
      BY <2>2, <3>2 DEF Ends, Drop, Types
    <3>3. CASE ChildCloses(k)
      BY <2>2, <3>3 DEF ChildCloses, Types
    <3> QED
      BY <1>2, <3>1, <3>2, <3>3, ChildEffect
  <2> QED
    BY <2>1, <2>3, ParentEndsKept DEF mainVars, pidVars
<1> QED
  BY <1>1, <1>2

\* Every step of main() leaves the parent with the descriptors that the next
\* point of spawn_http_child, or of the shutdown, expects.
LEMMA MainParentEnds ==
  ASSUME SupervisorAssumption, Types, ParentEnds,
         Main \/ sig_handler \/ ParentKilled
  PROVE  ParentEnds'
<1> USE DEF Idle, Spawning, Ended
<1>1. CASE Socketpair
  <2>1. /\ Holds({ParentSocket}) /\ Numbers({parent_fd}) /\ HoldsChildEnd({})
        /\ ParentSocket <= gen
    BY <1>1 DEF Socketpair, ParentEnds
  <2>2. PICK f \in Fd : fdtab[f] = None /\ fdtab' = [fdtab EXCEPT ![f] = gen + 1]
    BY <1>1 DEF Socketpair
  <2>3. gen' = gen + 1 /\ gen' \in Gen
    BY <1>1 DEF Socketpair, Types, SupervisorAssumption, Gen
  <2>4. f # parent_fd
    BY <2>1, <2>2 DEF Numbers
  <2>5. parent_fd' = parent_fd /\ main_pc' = "init"
    BY <1>1 DEF Socketpair, pidVars
  <2>6. ParentSocket' = ParentSocket
    BY <2>2, <2>4, <2>5 DEF ParentSocket, Types, Fd, NoFd
  <2>7. fdtab'[f] = gen' /\ Numbers({parent_fd, f})'
    BY <2>1, <2>2, <2>3, <2>4, <2>5 DEF Numbers, Types, Gen, None
  <2>8. Holds({ParentSocket, gen})'
    <3> SUFFICES ASSUME NEW j \in Gen
                 PROVE  Parent \in parent_end'[j] <=> j \in {ParentSocket', gen'}
      BY DEF Holds
    <3>1. parent_end'[j] = IF j = gen + 1 THEN {Parent} ELSE parent_end[j]
      BY <1>1 DEF Socketpair, Types
    <3> QED
      BY <2>1, <2>3, <2>6, <3>1 DEF Holds
  <2>9. HoldsChildEnd({gen})'
    <3> SUFFICES ASSUME NEW j \in Gen
                 PROVE  Parent \in child_end'[j] <=> j = gen'
      BY DEF HoldsChildEnd
    <3>1. child_end'[j] = IF j = gen + 1 THEN {Parent} ELSE child_end[j]
      BY <1>1 DEF Socketpair, Types
    <3> QED
      BY <2>1, <2>3, <3>1 DEF HoldsChildEnd
  <2>10. ParentSocket' < gen'
    BY <2>1, <2>3, <2>6, ParentSocketType DEF Types, Gen, None
  <2> QED
    BY <2>3, <2>4, <2>5, <2>7, <2>8, <2>9, <2>10 DEF ParentEnds
<1>2. CASE SocketpairFails
  BY <1>2, IdleKept DEF SocketpairFails, SpawnFails, pidVars
<1>3. CASE WriteInit \/ Fork
  <2>1. /\ main_pc \in Spawning /\ main_pc' \in Spawning
        /\ UNCHANGED << parent_fd, gen, fdtab >>
    BY <1>3 DEF WriteInit, Fork, pidVars
  <2>2. gen # Parent
    BY <2>1 DEF ParentEnds, Gen, Parent
  <2>3. \A j \in Gen : /\ Parent \in parent_end'[j] <=> Parent \in parent_end[j]
                       /\ Parent \in child_end'[j] <=> Parent \in child_end[j]
    <3>1. CASE WriteInit
      BY <3>1 DEF WriteInit, endVars
    <3>2. CASE Fork
      BY <2>2, <3>2 DEF Fork, Inherit, Types
    <3> QED
      BY <1>3, <3>1, <3>2
  <2> QED
    BY <2>1, <2>3 DEF ParentEnds, Holds, HoldsChildEnd, Numbers, ParentSocket
<1>5. CASE WriteInitFails \/ ForkFails
  <2>1. /\ NewFd \in Fd /\ NewFd # parent_fd /\ Numbers({parent_fd, NewFd})
        /\ Holds({ParentSocket, gen}) /\ HoldsChildEnd({gen})
        /\ gen \in Gen /\ ParentSocket < gen
    BY <1>5, NewNumber DEF WriteInitFails, ForkFails, GiveUp, ParentEnds
  <2>2. main_pc' \in Idle /\ UNCHANGED << parent_fd, gen >>
    BY <1>5 DEF WriteInitFails, ForkFails, GiveUp, SpawnFails, pidVars
  <2>3. fdtab' = [fdtab EXCEPT ![NewFd] = None]
    BY <1>5 DEF WriteInitFails, ForkFails, GiveUp
  <2>4. ParentSocket' = ParentSocket
    BY <2>1, <2>2, <2>3 DEF ParentSocket, Types, Fd, NoFd
  <2>5. Numbers({parent_fd})'
    BY <2>1, <2>2, <2>3 DEF Numbers, Types
  <2>6. ParentSocket <= gen /\ ParentSocket # gen
    BY <2>1, ParentSocketType DEF Types, Gen, None
  <2>7. Holds({ParentSocket})'
    BY <1>5, <2>1, <2>4, <2>6 DEF WriteInitFails, ForkFails, GiveUp, Holds, Types
  <2>8. HoldsChildEnd({})'
    BY <1>5, <2>1 DEF WriteInitFails, ForkFails, GiveUp, HoldsChildEnd, Types
  <2> QED
    BY <2>2, <2>4, <2>5, <2>6, <2>7, <2>8 DEF ParentEnds
<1>6. CASE Swap
  <2>1. /\ NewFd \in Fd /\ NewFd # parent_fd /\ fdtab[NewFd] = gen
        /\ Numbers({parent_fd, NewFd})
        /\ Holds({ParentSocket, gen}) /\ HoldsChildEnd({gen})
        /\ gen \in Gen /\ ParentSocket < gen
    BY <1>6, NewNumber DEF Swap, ParentEnds
  <2>2. /\ main_pc' = "close" /\ old_fd' = parent_fd /\ parent_fd' = NewFd
        /\ UNCHANGED << gen, fdtab, parent_end, child_end >>
    BY <1>6 DEF Swap, sockVars, endVars
  <2>3. Target(old_fd)' = ParentSocket
    BY <2>2 DEF Target, ParentSocket
  <2>4. Numbers({parent_fd, old_fd})'
    BY <2>1, <2>2 DEF Numbers
  <2>5. Holds({Target(old_fd), gen})' /\ HoldsChildEnd({gen})'
    BY <2>1, <2>2, <2>3 DEF Holds, HoldsChildEnd
  <2> QED
    BY <2>1, <2>2, <2>3, <2>4, <2>5 DEF ParentEnds
<1>7. CASE CloseOld
  <2>1. /\ gen \in Gen /\ parent_fd \in Fd /\ fdtab[parent_fd] = gen
        /\ old_fd # parent_fd /\ Target(old_fd) < gen
        /\ Numbers({parent_fd, old_fd})
        /\ Holds({Target(old_fd), gen}) /\ HoldsChildEnd({gen})
    BY <1>7 DEF CloseOld, ParentEnds
  <2>2. main_pc' \in Idle /\ UNCHANGED << parent_fd, gen >>
    BY <1>7 DEF CloseOld
  <2>3. fdtab' = [f \in Fd |-> IF f = old_fd THEN None ELSE fdtab[f]]
    BY <1>7 DEF CloseOld, Types, Fd, NoFd
  <2>4. ParentSocket' = gen
    BY <2>1, <2>2, <2>3 DEF ParentSocket, Fd, NoFd
  <2>5. Numbers({parent_fd})'
    BY <2>1, <2>2, <2>3 DEF Numbers
  <2>6. Holds({ParentSocket})'
    <3> SUFFICES ASSUME NEW j \in Gen
                 PROVE  Parent \in parent_end'[j] <=> j = gen
      BY <2>4 DEF Holds
    <3>1. CASE old_fd = NoFd
      <4>1. parent_end' = parent_end /\ Target(old_fd) = None
        BY <1>7, <3>1 DEF CloseOld, Target
      <4> QED
        BY <2>1, <4>1 DEF Holds, Gen, None
    <3>2. CASE old_fd # NoFd
      <4>1. Target(old_fd) = fdtab[old_fd] /\ Target(old_fd) # gen
        BY <2>1, <3>2 DEF Target, Types, Gen, None
      <4>2. parent_end' = [parent_end EXCEPT ![fdtab[old_fd]] = @ \ {Parent}]
        BY <1>7, <3>2 DEF CloseOld
      <4> QED
        BY <2>1, <4>1, <4>2 DEF Holds, Types
    <3> QED
      BY <3>1, <3>2
  <2>7. HoldsChildEnd({})'
    BY <1>7, <2>1 DEF CloseOld, HoldsChildEnd, Types
  <2> QED
    BY <2>2, <2>4, <2>5, <2>6, <2>7 DEF ParentEnds, Types
<1>8. CASE AnnounceReady \/ Reap \/ Respawn \/ LeaveMonitor \/ Join \/ Kill \/ Await
  <2>1. main_pc \in Idle /\ main_pc' \in Idle
    BY <1>8 DEF AnnounceReady, Reap, Respawn, LeaveMonitor, Join, Kill, Await
  <2>2. UNCHANGED << parent_fd, gen, fdtab, endVars >>
    BY <1>8 DEF AnnounceReady, Reap, Respawn, LeaveMonitor, Join, Kill, Await,
                pidVars, sockVars
  <2> QED
    BY <2>1, <2>2, IdleKept
<1>9. CASE sig_handler
  BY <1>9, ParentEndsKept DEF sig_handler, pidVars, sockVars, endVars
<1>10. CASE Teardown
  <2>1. Holds({ParentSocket}) /\ HoldsChildEnd({})
    BY <1>10 DEF Teardown, ParentEnds
  <2>2. HoldsChildEnd({})'
    BY <1>10, <2>1 DEF Teardown, HoldsChildEnd
  <2>3. Holds({})'
    <3>1. CASE parent_fd = NoFd
      BY <1>10, <2>1, <3>1 DEF Teardown, Holds, ParentSocket, Gen, None
    <3>2. CASE parent_fd # NoFd
      BY <1>10, <2>1, <3>2 DEF Teardown, Holds, Types
    <3> QED
      BY <3>1, <3>2
  <2> QED
    BY <1>10, <2>2, <2>3 DEF Teardown, ParentEnds
<1>11. CASE ParentKilled
  <2>1. Holds({})' /\ HoldsChildEnd({})'
    BY <1>11 DEF ParentKilled, Holds, HoldsChildEnd, Drop
  <2> QED
    BY <1>11, <2>1 DEF ParentKilled, ParentEnds
<1> QED
  BY <1>1, <1>2, <1>3, <1>5, <1>6, <1>7, <1>8, <1>9, <1>10, <1>11 DEF Main

-----------------------------------------------------------------------------
(* The children's descriptors.                                             *)

\* They depend on who is alive and on what each child holds only.
LEMMA ChildEndsKept ==
  ASSUME NEW k \in Gen, ChildEnds(k), child'[k] = child[k],
         inherited'[k] = inherited[k],
         \A j \in Gen : /\ k \in parent_end'[j] => k \in parent_end[j]
                        /\ k \in child_end'[j] <=> k \in child_end[j]
  PROVE  ChildEnds(k)'
BY DEF ChildEnds, Alive

\* What main() closes are ends of its own; fork copies the parent's ends to
\* the new child, which holds nothing before.
LEMMA MainChildEnds ==
  ASSUME SupervisorAssumption, Types, ParentEnds, Children,
         Main \/ sig_handler \/ ParentKilled,
         NEW k \in Gen, ChildEnds(k)
  PROVE  ChildEnds(k)'
<1> USE DEF Spawning
<1>0. k # Parent
  BY DEF Gen, Parent
<1>1. CASE Socketpair
  <2>1. child' = child /\ inherited' = inherited
    BY <1>1 DEF Socketpair, childVars
  <2>3. ~ Alive(k)
    BY <1>1 DEF Socketpair, Children
  <2>4. \A j \in Gen : /\ k \in parent_end'[j] => k \in parent_end[j]
                       /\ k \in child_end'[j] <=> k \in child_end[j]
    BY <1>0, <1>1, <2>3 DEF Socketpair, Types, ChildEnds
  <2> QED
    BY <2>1, <2>4, ChildEndsKept
<1>2. CASE WriteInitFails \/ ForkFails \/ CloseOld \/ Teardown \/ ParentKilled
  <2>1. child' = child /\ inherited' = inherited
    BY <1>2 DEF WriteInitFails, ForkFails, GiveUp, SpawnFails, CloseOld, Teardown, ParentKilled, childVars
  <2>2. \A j \in Gen : /\ k \in parent_end'[j] => k \in parent_end[j]
                       /\ k \in child_end'[j] <=> k \in child_end[j]
    <3>1. CASE WriteInitFails \/ ForkFails
      BY <1>0, <3>1 DEF WriteInitFails, ForkFails, GiveUp, Types
    <3>2. CASE CloseOld
      BY <1>0, <3>2 DEF CloseOld, Types
    <3>3. CASE Teardown
      BY <1>0, <3>3 DEF Teardown, Types
    <3>4. CASE ParentKilled
      BY <1>0, <3>4 DEF ParentKilled, Drop, Types
    <3> QED
      BY <1>2, <3>1, <3>2, <3>3, <3>4
  <2> QED
    BY <2>1, <2>2, ChildEndsKept
<1>3. CASE Fork
  <2>1. gen \in Gen /\ Holds({ParentSocket, gen}) /\ HoldsChildEnd({gen})
    BY <1>3 DEF Fork, ParentEnds
  <2>2. ~ Alive(k)
    BY <1>3 DEF Fork, Children
  <2>3. \A j \in Gen : k \notin parent_end[j] /\ k \notin child_end[j]
    BY <2>2 DEF ChildEnds
  <2>4. CASE k = gen
    <3>1. child'[k] = "forked" /\ inherited'[k] = ParentSocket
      BY <1>3, <2>4 DEF Fork, Types
    <3>2. \A j \in Gen : k \in parent_end'[j] => j \in {ParentSocket, gen}
      BY <1>3, <2>1, <2>3, <2>4 DEF Fork, Inherit, Holds
    <3>3. \A j \in Gen : k \in child_end'[j] <=> j = k
      BY <1>3, <2>1, <2>3, <2>4 DEF Fork, Inherit, HoldsChildEnd
    <3> QED
      BY <2>4, <3>1, <3>2, <3>3 DEF ChildEnds, Alive, Living
  <2>5. CASE k # gen
    <3>1. child'[k] = child[k] /\ inherited'[k] = inherited[k]
      BY <1>3, <2>5 DEF Fork, Types
    <3>2. \A j \in Gen : k \notin parent_end'[j] /\ k \notin child_end'[j]
      BY <1>3, <2>3, <2>5 DEF Fork, Inherit
    <3> QED
      BY <2>3, <3>1, <3>2, ChildEndsKept
  <2> QED
    BY <2>4, <2>5
<1>4. CASE Reap \/ Await
  <2>1. UNCHANGED << parent_end, child_end, inherited >>
    BY <1>4 DEF Reap, Await, sockVars, endVars
  <2>2. \/ child'[k] = child[k]
        \/ child[k] = "zombie" /\ child'[k] = "reaped"
    BY <1>4 DEF Reap, Await, Types
  <2> QED
    BY <2>1, <2>2 DEF ChildEnds, Alive, Living
<1>5. CASE \/ SocketpairFails \/ WriteInit \/ Swap \/ AnnounceReady \/ Respawn
           \/ LeaveMonitor \/ Join \/ Kill \/ sig_handler
  <2>1. UNCHANGED << parent_end, child_end, child, inherited >>
    BY <1>5 DEF SocketpairFails, SpawnFails, WriteInit, Swap, AnnounceReady,
                Respawn, LeaveMonitor, Join, Kill, sig_handler, sockVars, endVars,
                childVars
  <2> QED
    BY <2>1, ChildEndsKept
<1> QED
  BY <1>1, <1>2, <1>3, <1>4, <1>5 DEF Main

\* A step of one child is about what that child holds.
LEMMA OtherChildEnds ==
  ASSUME Types,
         \/ \E g \in GPU : ThreadStep(g)
         \/ \E i \in Gen : ChildStep(i),
         NEW k \in Gen, ChildEnds(k)
  PROVE  ChildEnds(k)'
<1>1. ASSUME NEW g \in GPU, ThreadStep(g)
      PROVE  ChildEnds(k)'
  BY <1>1, ThreadEffect, ChildEndsKept DEF endVars, childVars
<1>2. ASSUME NEW i \in Gen, ChildStep(i), i # k
      PROVE  ChildEnds(k)'
  <2>1. inherited' = inherited /\ child'[k] = child[k]
    BY <1>2, ChildEffect DEF Moves, Ends, ChildCloses, Types
  <2>2. \A j \in Gen : /\ k \in parent_end'[j] <=> k \in parent_end[j]
                       /\ k \in child_end'[j] <=> k \in child_end[j]
    <3>1. CASE Moves(i)
      BY <3>1 DEF Moves, endVars
    <3>2. CASE Ends(i)
      BY <1>2, <3>2 DEF Ends, Drop, Types
    <3>3. CASE ChildCloses(i)
      BY <1>2, <3>3 DEF ChildCloses, Types
    <3> QED
      BY <1>2, <3>1, <3>2, <3>3, ChildEffect
  <2> QED
    BY <2>1, <2>2, ChildEndsKept
<1>3. ASSUME ChildStep(k)
      PROVE  ChildEnds(k)'
  <2>1. inherited' = inherited
    BY <1>3, ChildEffect
  <2>2. CASE Moves(k)
    BY <2>1, <2>2 DEF Moves, endVars, ChildEnds, Alive, Living, Types
  <2>3. CASE Ends(k)
    BY <2>3 DEF Ends, Drop, ChildEnds, Alive, Living, Types
  <2>4. CASE ChildCloses(k)
    BY <2>1, <2>4 DEF ChildCloses, ChildEnds, Alive, Living, Types
  <2> QED
    BY <1>3, <2>2, <2>3, <2>4, ChildEffect
<1> QED
  BY <1>1, <1>2, <1>3

-----------------------------------------------------------------------------
(* Who is alive.                                                           *)

\* Nobody comes to life where main() keeps child_pid.
LEMMA ChildrenKept ==
  ASSUME Children, UNCHANGED << main_pc, child_pid, gen >>,
         \A k \in Gen : Alive(k)' => Alive(k)
  PROVE  Children'
BY DEF Children

\* main() forks only where no child is alive, and records the one it forked.
LEMMA MainChildren ==
  ASSUME Types, ParentEnds, Children, Main \/ sig_handler \/ ParentKilled
  PROVE  Children'
<1>1. CASE Fork
  <2>1. gen \in Gen /\ gen' = gen /\ main_pc' = "swap"
    BY <1>1 DEF Fork, ParentEnds, Spawning
  <2>2. \A k \in Gen : Alive(k)' => k = gen
    BY <1>1, <2>1 DEF Fork, Children, Alive, Types
  <2> QED
    BY <2>1, <2>2 DEF Children
<1>2. CASE Swap
  BY <1>2 DEF Swap, Children, Alive, childVars, sockVars
<1>3. CASE Reap
  <2>1. main_pc = "monitor" /\ main_pc' = "reaped" /\ child_pid' = child_pid
    BY <1>3 DEF Reap, pidVars
  <2>2. \A k \in Gen : ~ Alive(k)'
    BY <1>3, <2>1 DEF Reap, Children, Alive, Living, Types
  <2> QED
    BY <2>1, <2>2 DEF Children
<1>4. CASE Await
  <2>1. main_pc = "await" /\ main_pc' = "teardown" /\ child_pid' = child_pid
    BY <1>4 DEF Await, pidVars
  <2>2. \A k \in Gen : Alive(k)' => Alive(k)
    BY <1>4 DEF Await, Alive, Living, Types
  <2> QED
    BY <2>1, <2>2 DEF Children
<1>5. CASE Socketpair \/ SocketpairFails \/ WriteInit \/ WriteInitFails \/ ForkFails \/ CloseOld
  <2>1. child' = child /\ child_pid' = child_pid
    BY <1>5 DEF Socketpair, SocketpairFails, WriteInit, WriteInitFails, ForkFails, GiveUp, CloseOld,
                SpawnFails, pidVars, childVars
  <2>2. \/ /\ main_pc \in {"socketpair", "init", "fork"}
           /\ main_pc' \in {"init", "fork", "monitor", "join"}
        \/ main_pc = "close" /\ main_pc' \in {"monitor", "wait"}
    BY <1>5 DEF Socketpair, SocketpairFails, WriteInit, WriteInitFails, ForkFails, GiveUp, CloseOld, SpawnFails
  <2> QED
    BY <2>1, <2>2 DEF Children, Alive
<1>6. CASE AnnounceReady \/ Respawn \/ LeaveMonitor \/ Join \/ Kill \/ Teardown
  <2>1. child' = child /\ child_pid' = child_pid
    BY <1>6 DEF AnnounceReady, Respawn, LeaveMonitor, Join, Kill, Teardown,
                pidVars, childVars
  <2>2. \/ main_pc = "reaped" /\ main_pc' \in {"socketpair", "monitor"}
        \/ /\ main_pc \in {"wait", "monitor", "join", "kill", "teardown"}
           /\ main_pc' \in {"monitor", "join", "kill", "teardown", "await", "exited"}
    BY <1>6 DEF AnnounceReady, Respawn, LeaveMonitor, Join, Kill, Teardown
  <2> QED
    BY <2>1, <2>2 DEF Children, Alive
<1>7. CASE sig_handler
  BY <1>7, ChildrenKept DEF sig_handler, pidVars, sockVars, childVars, Alive
<1>8. CASE ParentKilled
  BY <1>8 DEF ParentKilled, Children, Alive, childVars
<1> QED
  BY <1>1, <1>2, <1>3, <1>4, <1>5, <1>6, <1>7, <1>8 DEF Main

\* No other step brings a child to life.
LEMMA OtherChildren ==
  ASSUME Types, Children,
         \/ \E g \in GPU : ThreadStep(g)
         \/ \E k \in Gen : ChildStep(k)
  PROVE  Children'
<1>1. ASSUME NEW g \in GPU, ThreadStep(g)
      PROVE  Children'
  BY <1>1, ThreadEffect, ChildrenKept DEF mainVars, pidVars, childVars, Alive
<1>2. ASSUME NEW k \in Gen, ChildStep(k)
      PROVE  Children'
  <2>1. UNCHANGED << main_pc, child_pid, gen >>
    BY <1>2, ChildEffect DEF mainVars, pidVars
  <2>2. \A j \in Gen : Alive(j)' => Alive(j)
    BY <1>2, ChildEffect DEF Moves, Ends, ChildCloses, Alive, Living, Types
  <2> QED
    BY <2>1, <2>2, ChildrenKept
<1> QED
  BY <1>1, <1>2

-----------------------------------------------------------------------------
(* The shutdown, and the invariant.                                        *)

\* The target goes before the threads are told to stop, and no thread comes
\* back once it has been joined.
LEMMA ShutdownStep ==
  ASSUME Types, Shutdown, Next
  PROVE  Shutdown'
<1> USE DEF Ended
<1>1. CASE Join
  BY <1>1 DEF Join, Shutdown, flagVars, threadVars
<1>2. CASE AnnounceReady \/ LeaveMonitor
  BY <1>2 DEF AnnounceReady, LeaveMonitor, Shutdown, threadVars
<1>3. CASE SocketpairFails \/ WriteInitFails \/ ForkFails
  BY <1>3 DEF SocketpairFails, WriteInitFails, ForkFails, GiveUp, SpawnFails, Shutdown
<1>4. CASE \/ Socketpair \/ WriteInit \/ Fork \/ Swap \/ CloseOld \/ Reap \/ Respawn
           \/ sig_handler \/ ParentKilled
  <2>1. UNCHANGED << notified, filesd >>
    BY <1>4 DEF Socketpair, WriteInit, Fork, Swap, CloseOld, Reap, Respawn,
                sig_handler, ParentKilled, flagVars
  <2>2. \/ main_pc' \notin {"join", "kill", "await", "teardown", "exited"}
        \/ main_pc' = main_pc /\ thread' = thread
    BY <1>4 DEF Socketpair, WriteInit, Fork, Swap, CloseOld, Reap, Respawn,
                sig_handler, ParentKilled, threadVars
  <2> QED
    BY <2>1, <2>2 DEF Shutdown
<1>5. CASE Kill \/ Await \/ Teardown
  BY <1>5 DEF Kill, Await, Teardown, Shutdown, flagVars, threadVars
<1>6. CASE \E g \in GPU : ThreadStep(g)
  BY <1>6, ThreadEffect DEF Shutdown, mainVars, flagVars
<1>7. CASE \E k \in Gen : ChildStep(k)
  BY <1>7, ChildEffect DEF Shutdown, mainVars, flagVars, threadVars
<1> QED
  BY <1>1, <1>2, <1>3, <1>4, <1>5, <1>6, <1>7 DEF Next, ThreadStep, ChildStep

\* Before the first spawn nothing is open and nobody is alive.
LEMMA SupervisorInvInit ==
  ASSUME SupervisorAssumption, Init
  PROVE  SupervisorInv
<1>1. Types
  BY DEF Init, SupervisorAssumption, Types, MainStates, Ended, Fd, NoFd, None,
         ChildStates, Holders
<1>2. ParentEnds
  BY DEF Init, ParentEnds, Idle, Spawning, Ended, Holds, HoldsChildEnd, Numbers,
         ParentSocket, Gen, None, Fd, NoFd
<1>3. \A k \in Gen : ~ Alive(k)
  BY DEF Init, Alive, Living
<1>4. \A k \in Gen : ChildEnds(k)
  BY <1>3 DEF Init, ChildEnds
<1>5. Children
  BY <1>3 DEF Children
<1>6. Shutdown
  BY DEF Init, Shutdown
<1> QED
  BY <1>1, <1>2, <1>4, <1>5, <1>6 DEF SupervisorInv

\* Every step of a process or a thread keeps the invariant.
LEMMA SupervisorInvStep ==
  ASSUME SupervisorAssumption, SupervisorInv, [Next]_vars
  PROVE  SupervisorInv'
<1>1. CASE Main \/ sig_handler \/ ParentKilled
  <2>1. Next
    BY <1>1 DEF Main, Next
  <2> QED
    BY <1>1, <2>1, MainTypes, MainParentEnds, MainChildEnds, MainChildren,
       ShutdownStep DEF SupervisorInv
<1>2. CASE (\E g \in GPU : ThreadStep(g)) \/ (\E k \in Gen : ChildStep(k))
  <2>1. Next
    BY <1>2 DEF Next, ThreadStep, ChildStep
  <2> QED
    BY <1>2, <2>1, OtherTypes, OtherParentEnds, OtherChildEnds, OtherChildren,
       ShutdownStep DEF SupervisorInv
<1>3. CASE UNCHANGED vars
  BY <1>3 DEF vars, mainVars, flagVars, pidVars, sockVars, endVars, threadVars,
              childVars, SupervisorInv, Types, ParentEnds, Holds, HoldsChildEnd,
              Numbers, ParentSocket, Target, ChildEnds, Children, Alive, Shutdown
<1> QED
  BY <1>1, <1>2, <1>3 DEF Next, Main, ThreadStep, ChildStep

(***************************************************************************)
(* At every point of spawn_http_child, of a child's start and of           *)
(* shutdown_all, each process holds exactly the descriptors it should, at  *)
(* most one child is alive, and the shutdown is in order: for any number   *)
(* of GPUs and of respawns.                                                *)
(***************************************************************************)
THEOREM SupervisorInvariant == Spec => []SupervisorInv
BY SupervisorInvInit, SupervisorInvStep, SupervisorAssumption, PTL DEF Spec

(***************************************************************************)
(* No respawn, failed fork or race with a signal leaks a descriptor        *)
(* (main.c:152-172, 206-215).                                              *)
(***************************************************************************)
THEOREM NoDescriptorLeaks == Spec => []DescriptorsAccounted
<1>1. SupervisorInv => DescriptorsAccounted
  <2> SUFFICES ASSUME SupervisorInv
               PROVE  DescriptorsAccounted
    OBVIOUS
  <2>1. ASSUME Settled
        PROVE  /\ \A f \in Fd : fdtab[f] # None <=> f = parent_fd
               /\ \A k \in Gen : /\ Parent \in parent_end[k] <=> k = ParentSocket
                                 /\ Parent \notin child_end[k]
    BY <2>1 DEF SupervisorInv, ParentEnds, Settled, Idle, Holds, Numbers, HoldsChildEnd
  <2>2. ASSUME NEW k \in Gen, child[k] \in {"closed", "started", "serving"}
        PROVE  /\ \A j \in Gen : k \notin parent_end[j]
               /\ \A j \in Gen : k \in child_end[j] <=> j = k
    BY <2>2 DEF SupervisorInv, ChildEnds, Alive, Living
  <2> QED
    BY <2>1, <2>2 DEF DescriptorsAccounted
<1> QED
  BY <1>1, SupervisorInvariant, PTL

(***************************************************************************)
(* Two children are never alive together, whatever the order of crashes,   *)
(* signals and failing system calls (main.c:150-185, 638-662).             *)
(***************************************************************************)
THEOREM NoTwoChildren == Spec => []OneChildAtATime
<1>1. SupervisorInv => OneChildAtATime
  <2> SUFFICES ASSUME SupervisorInv
               PROVE  OneChildAtATime
    OBVIOUS
  <2> DEFINE S == {k \in Gen : Alive(k)}
  <2>1. Cardinality(S) <= 1
    <3>1. CASE S = {}
      <4>1. Cardinality({}) = 0
        BY FS_EmptySet
      <4> QED
        BY <3>1, <4>1
    <3>2. ASSUME NEW k \in S
          PROVE  Cardinality(S) <= 1
      <4>1. S = {k}
        BY <3>2 DEF SupervisorInv, Children
      <4>2. Cardinality({k}) = 1
        BY FS_Singleton
      <4> QED
        BY <4>1, <4>2
    <3> QED
      BY <3>1, <3>2
  <2>2. Settled => \A k \in Gen : Alive(k) => k = child_pid
    BY DEF SupervisorInv, Children, Settled
  <2> QED
    BY <2>1, <2>2 DEF OneChildAtATime
<1> QED
  BY <1>1, SupervisorInvariant, PTL

(***************************************************************************)
(* main() returns with its threads joined, its target removed and no       *)
(* descriptor open (main.c:227-272, 669-670).                              *)
(***************************************************************************)
THEOREM NothingLeftBehind == Spec => []CleanExit
<1>1. SupervisorInv => CleanExit
  BY DEF SupervisorInv, Shutdown, ParentEnds, Ended, Holds, HoldsChildEnd, CleanExit
<1> QED
  BY <1>1, SupervisorInvariant, PTL

-----------------------------------------------------------------------------
(* Ending.                                                                 *)

\* How many steps main() has left at most when g_running is cleared.
StepsLeft == [socketpair |-> 11, init |-> 10, fork |-> 9, swap |-> 8, close |-> 7,
              wait |-> 6, reaped |-> 6, monitor |-> 5, join |-> 4, kill |-> 3,
              await |-> 2, teardown |-> 1, exited |-> 0, killed |-> 0]

\* Once g_running is cleared it stays so, and every step of main() brings it nearer
\* to its return, also in the middle of a respawn.
ReturnIsNear ==
  [][~ g_running =>
       ~ g_running' /\ (Main => StepsLeft[main_pc'] < StepsLeft[main_pc])]_vars

\* A signal at any point, also within spawn_http_child, leaves main() at most eleven
\* steps; it begins no other spawn (main.c:640-659, :227-272).  This is the part of
\* ShutdownCompletes that needs no fairness.
THEOREM ShutdownNeedsFewSteps == Spec => ReturnIsNear
<1>1. [Next]_vars =>
        [~ g_running =>
           ~ g_running' /\ (Main => StepsLeft[main_pc'] < StepsLeft[main_pc])]_vars
  <2> SUFFICES ASSUME Next, ~ g_running
               PROVE  ~ g_running' /\ (Main => StepsLeft[main_pc'] < StepsLeft[main_pc])
    OBVIOUS
  <2>1. Main => << main_pc, main_pc' >> \in
          {<< "socketpair", "init" >>, << "init", "fork" >>, << "fork", "swap" >>,
           << "swap", "close" >>, << "close", "wait" >>, << "close", "monitor" >>,
           << "wait", "monitor" >>, << "reaped", "monitor" >>, << "monitor", "join" >>,
           << "socketpair", "join" >>, << "socketpair", "monitor" >>,
           << "init", "join" >>, << "init", "monitor" >>,
           << "fork", "join" >>, << "fork", "monitor" >>, << "join", "kill" >>,
           << "join", "teardown" >>, << "kill", "await" >>, << "await", "teardown" >>,
           << "teardown", "exited" >>}
    BY DEF Main, Socketpair, SocketpairFails, SpawnFails, WriteInit, Fork, WriteInitFails, ForkFails, GiveUp,
           Swap, CloseOld, AnnounceReady, Reap, Respawn, LeaveMonitor, Join, Kill,
           Await, Teardown
  <2>2. Main => StepsLeft[main_pc'] < StepsLeft[main_pc]
    BY <2>1 DEF StepsLeft
  <2>3. CASE SocketpairFails \/ WriteInitFails \/ ForkFails
    <3>1. SpawnFails
      BY <2>3 DEF SocketpairFails, WriteInitFails, ForkFails, GiveUp
    <3>2. ~ g_running'
      BY <3>1, Zenon DEF SpawnFails
    <3> QED
      BY <2>2, <3>2
  <2>4. CASE sig_handler
    BY <2>4 DEF sig_handler
  <2>5. CASE UNCHANGED g_running
    BY <2>2, <2>5
  <2>6. SocketpairFails \/ WriteInitFails \/ ForkFails \/ sig_handler \/ UNCHANGED g_running
    <3>1. ASSUME NEW g \in GPU, ThreadStep(g) PROVE UNCHANGED g_running
      BY <3>1
      DEF ThreadStep, ReadParentFd, WriteFails, Write, ThreadEnds, Sent, mainVars, flagVars
    <3>2. ASSUME NEW k \in Gen, ChildStep(k) PROVE UNCHANGED g_running
      BY <3>2, ChildEffect DEF mainVars, flagVars
    <3>3. CASE ParentKilled
      BY <3>3 DEF ParentKilled, flagVars
    <3>4. CASE \/ Socketpair \/ WriteInit \/ Fork \/ Swap \/ CloseOld \/ AnnounceReady
               \/ Reap \/ Respawn \/ LeaveMonitor \/ Join \/ Kill \/ Await \/ Teardown
      BY <3>4
      DEF Socketpair, WriteInit, Fork, Swap, CloseOld, AnnounceReady, Reap, Respawn,
          LeaveMonitor, Join, Kill, Await, Teardown, flagVars
    <3> QED
      BY <3>1, <3>2, <3>3, <3>4 DEF Next, ThreadStep, ChildStep
  <2> QED
    BY <2>3, <2>4, <2>5, <2>6
<1> QED
  BY <1>1, PTL DEF Spec, ReturnIsNear
=============================================================================
