------------------------------ MODULE Exporter ------------------------------
(***************************************************************************)
(* The path of a snapshot from the driver to an answer over HTTP: one poll *)
(* thread (module Collector), the socket, and the HTTP child (module       *)
(* HttpChild), which can crash and is then replaced by main's monitor      *)
(* loop.  What Collector only assumes of the socket, that it is full,      *)
(* broken or usable and never stays full, is here what the child makes of  *)
(* it.                                                                     *)
(*                                                                         *)
(* A send reads parent_fd and writes in one step; module Supervisor has    *)
(* the descriptors, and what happens when the two are apart.               *)
(***************************************************************************)
EXTENDS Collector, Sequences

CONSTANTS
  Gpu,                 \* the one GPU
  StaleMs, U64, MaxTime, MaxInbox,
  MaxRespawns          \* bound: children after the first one

ASSUME ExporterAssumption ==
  /\ StaleMs \in Nat
  /\ MaxTime \in Nat
  /\ MaxInbox \in Nat \ {0}
  /\ U64 \in Nat
  /\ U64 > MaxTime + StaleMs
  /\ MaxRespawns \in Nat

GPU == {Gpu}

VARIABLES
  now, inbox, parent_open, published, slots, g_all_ready, g_running,
  recv_pc, recv_msg, http_pc, now_ms, answer,
  last_poll_ms,        \* of ctx->snapshot
  respawns             \* children after the first one

H == INSTANCE HttpChild

\* The variables of the poll thread without the socket, which both share.
threadVars == << pc, stop, ready, errorVars, retry_age, sleep_left, snapshot,
                 delivered, library >>
childVars == << now, inbox, parent_open, published, slots, g_all_ready,
                g_running, recv_pc, recv_msg, http_pc, now_ms, answer >>
exporterVars == << vars, childVars, last_poll_ms, respawns >>

\* What the parent's end of the socket looks like to a writer.
LinkState ==
  IF http_pc = "exited" THEN "broken"
  ELSE IF Len(inbox) >= MaxInbox THEN "full" ELSE "up"

ExporterInit ==
  /\ Init
  /\ H!Init
  /\ link = LinkState
  /\ last_poll_ms = 0
  /\ respawns = 0

-----------------------------------------------------------------------------
(* The poll thread, the driver and the stop request.                       *)

\* Steps that do not touch the socket.
Quietly == UNCHANGED << childVars, last_poll_ms, respawns >>

\* snapshot_update stamps the snapshot.
snapshot_update ==
  /\ Update
  /\ last_poll_ms' = now
  /\ UNCHANGED << childVars, respawns >>

\* The snapshot enters the socket, or is dropped because it is broken.
snapshot_send ==
  /\ Send
  /\ IF link = "up" THEN H!Publish(Gpu, last_poll_ms) ELSE UNCHANGED childVars
  /\ link' = LinkState'
  /\ UNCHANGED << last_poll_ms, respawns >>

PollThread ==
  \/ Exit /\ Quietly
  \/ BackOff /\ Quietly
  \/ BeginPoll /\ Quietly
  \/ DeclareLost /\ Quietly
  \/ PollFails /\ Quietly
  \/ PollSucceeds /\ Quietly
  \/ WakeUp /\ Quietly
  \/ snapshot_update
  \/ snapshot_send

-----------------------------------------------------------------------------
(* The child.                                                              *)

\* What a step of the child does to the socket.
ChildMoves ==
  /\ link' = LinkState'
  /\ UNCHANGED << threadVars, last_poll_ms, respawns >>

Receiver ==
  \/ H!Recv /\ ChildMoves
  \/ H!RecvEof /\ ChildMoves
  \/ H!Store /\ ChildMoves

\* The end of the accept loop.  Requests only read what is state already, the
\* slots and g_all_ready; module HttpChild has them.
Leave ==
  \/ H!LeaveLoop /\ ChildMoves
  \/ H!Exit /\ ChildMoves

SelectFails == H!SelectFails /\ ChildMoves

\* A crash; what the socket held is gone.
ChildCrashes ==
  /\ http_pc # "exited"
  /\ http_pc' = "exited"
  /\ inbox' = << >>
  /\ UNCHANGED << now, parent_open, published, slots, g_all_ready, g_running,
                  recv_pc, recv_msg, now_ms, answer >>
  /\ ChildMoves

\* The monitor loop reaps the child and spawn_http_child starts another,
\* which knows nothing of what the one before was sent.
Respawn ==
  /\ http_pc = "exited"
  /\ ~ stop
  /\ respawns < MaxRespawns
  /\ respawns' = respawns + 1
  /\ inbox' = << >>
  /\ published' = [g \in GPU |-> -1]
  /\ slots' = [g \in GPU |-> H!EmptySlot]
  /\ g_all_ready' = FALSE
  /\ g_running' = TRUE
  /\ recv_pc' = "recv"
  /\ recv_msg' = << >>
  /\ http_pc' = "select"
  /\ now_ms' = 0
  /\ answer' = H!NoAnswer
  /\ link' = LinkState'
  /\ UNCHANGED << now, parent_open, threadVars, last_poll_ms >>

\* From the service manager, or from shutdown_all after the join.
SigTerm == H!handle_sigterm /\ ChildMoves

\* shutdown_all closes the socket when the poll thread has been joined.
ParentCloses ==
  /\ stop
  /\ pc = "exited"
  /\ H!ParentCloses
  /\ ChildMoves

-----------------------------------------------------------------------------
(* Time, which the thread's sleep and the child's clock have in common.    *)
(* The clock value stops at its bound; sleeping goes on.                   *)

Sleeping == retry_age < RetryInterval \/ sleep_left > 0

TimePasses ==
  \/ /\ Tick
     /\ IF now < MaxTime THEN H!Tick ELSE UNCHANGED childVars
     /\ UNCHANGED << last_poll_ms, respawns >>
  \/ /\ ~ Sleeping
     /\ H!Tick
     /\ UNCHANGED << threadVars, link, last_poll_ms, respawns >>

ExporterNext ==
  \/ PollThread
  \/ Receiver
  \/ Leave
  \/ SelectFails
  \/ ChildCrashes
  \/ Respawn
  \/ SigTerm
  \/ ParentCloses
  \/ TimePasses
  \/ RequestStop /\ Quietly
  \/ DriverChanges /\ Quietly
  \/ DriverRecovers /\ Quietly

ExporterSpec == ExporterInit /\ [][ExporterNext]_exporterVars

(***************************************************************************)
(* Fairness, as in the two modules: threads are scheduled, a blocked write *)
(* goes through once there is room again and again, time passes, and the   *)
(* monitor loop replaces a dead child.  Nothing is assumed of the socket,  *)
(* the driver, crashes or signals.                                         *)
(***************************************************************************)
FairExporterSpec ==
  /\ ExporterSpec
  /\ WF_exporterVars(PollThread)
  /\ SF_exporterVars(snapshot_send)
  /\ WF_exporterVars(Receiver)
  /\ WF_exporterVars(Leave)
  /\ WF_exporterVars(Respawn)
  /\ WF_exporterVars(TimePasses)
  /\ WF_exporterVars(DriverRecovers /\ Quietly)

-----------------------------------------------------------------------------
(***************************************************************************)
(* The child keeps every promise that module Collector takes for granted:  *)
(* whatever the child does, serving, leaving, crashing or being replaced,  *)
(* the poll thread sees a socket that is usable, full or broken, and a     *)
(* full one is drained or breaks (http.c:199-238, snapshot.c:143-175).     *)
(***************************************************************************)
PollThreadAsSpecified == FairSpec

(***************************************************************************)
(* The newest snapshot the socket accepted is never overtaken or mislaid   *)
(* on its way: it is the last one queued, or the one in the receiver's     *)
(* hand, or the one on display.                                            *)
(***************************************************************************)
NothingLostOnTheWay ==
  http_pc # "exited" /\ recv_pc # "done" =>
    published[Gpu] =
      IF inbox # << >> THEN inbox[Len(inbox)].last_poll_ms
      ELSE IF recv_msg # << >> THEN recv_msg[1].last_poll_ms
      ELSE IF slots[Gpu].received THEN slots[Gpu].last_poll_ms ELSE -1

(***************************************************************************)
(* A child that was just started comes to answer /ready with 200, however  *)
(* many crashes went before and also when the GPU is backing off, unless   *)
(* the GPU has been lost, a call into the driver does not return, or the   *)
(* exporter or the child is on its way out.  The first exception is real:  *)
(* a lost GPU sends nothing, so that a child started after the loss        *)
(* answers 503 for good (http.c:1025).                                     *)
(***************************************************************************)
ReadyComesBack ==
  ~ g_all_ready ~> \/ g_all_ready
                   \/ ~ gpu_present
                   \/ library = "hung"
                   \/ stop
                   \/ ~ g_running
                   \/ http_pc \in {"exiting", "exited"}

(***************************************************************************)
(* A driver call that never returns, a lost GPU and a long back-off are    *)
(* noticed: a snapshot that stays on display becomes stale, so that /live  *)
(* turns to 503 while the child is the same.  A back-off longer than the   *)
(* threshold is one of these cases although the poll loop runs             *)
(* (http.c:904).                                                           *)
(***************************************************************************)
StuckIsNoticed ==
  \A t \in 0 .. MaxTime - StaleMs - 1 :
    slots[Gpu].received /\ slots[Gpu].last_poll_ms = t ~>
      \/ ~ H!check_liveness(now)
      \/ slots[Gpu].last_poll_ms # t
      \/ ~ slots[Gpu].received
=============================================================================
