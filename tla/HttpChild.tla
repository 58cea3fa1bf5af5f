------------------------------ MODULE HttpChild ------------------------------
(***************************************************************************)
(* The HTTP child of http.c: the receiver thread, which moves snapshots    *)
(* from the socket into g_slots under g_lock, and the main thread, which   *)
(* answers one request at a time.  The parent appears as the sender of     *)
(* snapshots and as the one who closes the socket.                         *)
(*                                                                         *)
(* A step is what happens between two points where the other thread can    *)
(* interfere: a critical section of g_lock, a system call, or a single     *)
(* access to a volatile flag.                                              *)
(***************************************************************************)
EXTENDS Integers, Sequences

CONSTANTS
  GPU,        \* the slots, 0 .. num_gpus - 1 in the code
  StaleMs,    \* g_stale_ms
  U64,        \* the modulus of uint64_t arithmetic, scaled down
  MaxTime,    \* bound: the clock of one behaviour
  MaxInbox    \* bound: snapshots the socket buffers

ASSUME ChildAssumption ==
  /\ GPU # {}
  /\ StaleMs \in Nat
  /\ MaxTime \in Nat
  /\ MaxInbox \in Nat \ {0}
  /\ U64 \in Nat
  /\ U64 > MaxTime + StaleMs

VARIABLES
  now,          \* CLOCK_MONOTONIC, shared by both processes
  inbox,        \* snapshots in the socket, oldest first
  parent_open,  \* whether the parent's end of the socket is open
  published,    \* last_poll_ms of the latest snapshot sent for each GPU
  slots,        \* g_slots
  g_all_ready,
  g_running,
  recv_pc,      \* the receiver thread
  recv_msg,     \* its local msg: empty, or the one message in hand
  http_pc,      \* the main thread
  now_ms,       \* check_liveness: the clock value it read
  answer        \* the response to the last request

parentVars == << inbox, parent_open, published >>
slotVars == << slots, g_all_ready >>
recvVars == << recv_pc, recv_msg >>
httpVars == << http_pc, now_ms, answer >>
vars == << now, parentVars, slotVars, g_running, recvVars, httpVars >>

Time == 0 .. MaxTime
Paths == {"metrics", "ready", "live", "unknown", "not_get"}
Message == [gpu : GPU, last_poll_ms : Time]
Slot == [received : BOOLEAN, last_poll_ms : Time]
EmptySlot == [received |-> FALSE, last_poll_ms |-> 0]

\* A response: what was asked, the status, the clock value that was used,
\* the age-relevant field of every slot that was looked at (-1 for one that
\* has received nothing), and whether an earlier /ready had answered 200.
Answer == [path : Paths \cup {"none"}, status : {0, 200, 404, 405, 500, 503},
           at : Time, seen : [GPU -> Time \cup {-1}], after_ready : BOOLEAN]

Nothing == [g \in GPU |-> -1]
NoAnswer == [path |-> "none", status |-> 0, at |-> 0, seen |-> Nothing,
             after_ready |-> FALSE]

\* http_child_run has read the init message, allocated the slots, installed
\* its handlers, started the receiver and bound the port.
Init ==
  /\ now = 0
  /\ inbox = << >>
  /\ parent_open = TRUE
  /\ published = [g \in GPU |-> -1]
  /\ slots = [g \in GPU |-> EmptySlot]
  /\ g_all_ready = FALSE
  /\ g_running = TRUE
  /\ recv_pc = "recv"
  /\ recv_msg = << >>
  /\ http_pc = "select"
  /\ now_ms = 0
  /\ answer = NoAnswer

-----------------------------------------------------------------------------
(* The parent.                                                             *)

\* A poll thread sends the snapshot that snapshot_update stamped with time t.
\* Here the two happen at one time; in module Exporter the write may wait for
\* room, or for the thread to run, and the stamp is older.
Publish(g, t) ==
  /\ parent_open
  /\ t <= now
  /\ published[g] <= t
  /\ Len(inbox) < MaxInbox
  /\ inbox' = Append(inbox, [gpu |-> g, last_poll_ms |-> t])
  /\ published' = [published EXCEPT ![g] = t]
  /\ UNCHANGED << now, parent_open, slotVars, g_running, recvVars, httpVars >>

\* The parent closes its end, in shutdown or by dying.
ParentCloses ==
  /\ parent_open
  /\ parent_open' = FALSE
  /\ UNCHANGED << now, inbox, published, slotVars, g_running, recvVars,
                  httpVars >>

\* SIGTERM to the child.
handle_sigterm ==
  /\ http_pc # "exited"
  /\ g_running
  /\ g_running' = FALSE
  /\ UNCHANGED << now, parentVars, slotVars, recvVars, httpVars >>

Tick ==
  /\ now < MaxTime
  /\ now' = now + 1
  /\ UNCHANGED << parentVars, slotVars, g_running, recvVars, httpVars >>

-----------------------------------------------------------------------------
(* Mutated forms, used to confirm that the properties below can fail.      *)

Recv_TakesNewest ==
  /\ http_pc # "exited"
  /\ recv_pc = "recv"
  /\ inbox # << >>
  /\ recv_msg' = << inbox[Len(inbox)] >>
  /\ inbox' = SubSeq(inbox, 1, Len(inbox) - 1)
  /\ recv_pc' = "store"
  /\ UNCHANGED << now, parent_open, published, slotVars, g_running, httpVars >>

RecvEof_LeavesRunning ==
  /\ http_pc # "exited"
  /\ recv_pc = "recv"
  /\ inbox = << >>
  /\ ~ parent_open
  /\ recv_pc' = "done"
  /\ UNCHANGED << now, parentVars, slotVars, g_running, recv_msg, httpVars >>

Store_AnyReceived ==
  /\ http_pc # "exited"
  /\ recv_pc = "store"
  /\ slots' = [slots EXCEPT ![Head(recv_msg).gpu] =
                 [received |-> TRUE, last_poll_ms |-> Head(recv_msg).last_poll_ms]]
  /\ g_all_ready' = (g_all_ready \/ \E g \in GPU : slots'[g].received)
  /\ recv_msg' = << >>
  /\ recv_pc' = IF g_running THEN "recv" ELSE "done"
  /\ UNCHANGED << now, parentVars, g_running, httpVars >>

Store_OnlyUntilReady ==
  /\ http_pc # "exited"
  /\ recv_pc = "store"
  /\ slots' = IF g_all_ready THEN slots
              ELSE [slots EXCEPT ![Head(recv_msg).gpu] =
                 [received |-> TRUE, last_poll_ms |-> Head(recv_msg).last_poll_ms]]
  /\ g_all_ready' = (g_all_ready \/ \A g \in GPU : slots'[g].received)
  /\ recv_msg' = << >>
  /\ recv_pc' = IF g_running THEN "recv" ELSE "done"
  /\ UNCHANGED << now, parentVars, g_running, httpVars >>

Store_StopsWhenReady ==
  /\ http_pc # "exited"
  /\ recv_pc = "store"
  /\ slots' = [slots EXCEPT ![Head(recv_msg).gpu] =
                 [received |-> TRUE, last_poll_ms |-> Head(recv_msg).last_poll_ms]]
  /\ g_all_ready' = (g_all_ready \/ \A g \in GPU : slots'[g].received)
  /\ recv_msg' = << >>
  /\ recv_pc' = IF g_running /\ ~ g_all_ready THEN "recv" ELSE "done"
  /\ UNCHANGED << now, parentVars, g_running, httpVars >>
-----------------------------------------------------------------------------
(* The receiver thread.  It is gone when the process has exited.           *)

\* snapshot_recv returns a message; a message is read whole.
Recv ==
  /\ http_pc # "exited"
  /\ recv_pc = "recv"
  /\ inbox # << >>
  /\ recv_msg' = << Head(inbox) >>
  /\ inbox' = Tail(inbox)
  /\ recv_pc' = "store"
  /\ UNCHANGED << now, parent_open, published, slotVars, g_running, httpVars >>

\* snapshot_recv returns -1: every byte was read and the parent is gone.
RecvEof ==
  /\ http_pc # "exited"
  /\ recv_pc = "recv"
  /\ inbox = << >>
  /\ ~ parent_open
  /\ g_running' = FALSE
  /\ recv_pc' = "done"
  /\ UNCHANGED << now, parentVars, slotVars, recv_msg, httpVars >>

\* A message for a GPU out of range is passed over; any other is taken over in
\* the critical section.  Then comes the loop condition.
Store ==
  /\ http_pc # "exited"
  /\ recv_pc = "store"
  /\ slots' = IF Head(recv_msg).gpu \notin GPU THEN slots
              ELSE [slots EXCEPT ![Head(recv_msg).gpu] =
                 [received |-> TRUE, last_poll_ms |-> Head(recv_msg).last_poll_ms]]
  /\ g_all_ready' = (g_all_ready \/ \A g \in GPU : slots'[g].received)
  /\ recv_msg' = << >>
  /\ recv_pc' = IF g_running THEN "recv" ELSE "done"
  /\ UNCHANGED << now, parentVars, g_running, httpVars >>

-----------------------------------------------------------------------------
(* The main thread.  At "select" it has found g_running set and waits for  *)
(* a client; the next test of g_running is when the iteration is over.     *)

ReadyAnswer == answer.path = "ready" /\ answer.status = 200

\* A client comes: accept, read_request_line and the dispatch on method and
\* path, also if g_running has been cleared since it was tested.
Accept(p) ==
  /\ http_pc = "select"
  /\ http_pc' = p
  /\ answer' = [NoAnswer EXCEPT !.after_ready = \/ answer.after_ready
                                               \/ ReadyAnswer]
  /\ UNCHANGED << now, parentVars, slotVars, g_running, recvVars, now_ms >>

\* write_response, after which the connection is closed and g_running tested.
Respond(p, status, seen) ==
  /\ http_pc' = IF g_running THEN "select" ELSE "exiting"
  /\ answer' = [path |-> p, status |-> status, at |-> now_ms, seen |-> seen,
                after_ready |-> answer.after_ready]
  /\ now_ms' = 0
  /\ UNCHANGED << now, parentVars, slotVars, g_running, recvVars >>

\* The slots as a reader under g_lock finds them.
Seen == [g \in GPU |-> IF slots[g].received THEN slots[g].last_poll_ms ELSE -1]

RefuseMethod ==
  /\ http_pc = "not_get"
  /\ Respond("not_get", 405, Nothing)

RefusePath ==
  /\ http_pc = "unknown"
  /\ Respond("unknown", 404, Nothing)

\* render_metrics on the copy that copy_slots took under the lock.  A slot
\* that has received nothing yet is not rendered.  When the copy cannot be
\* allocated the answer is an empty 200, when the response buffer cannot, 500.
AnswerMetrics ==
  /\ http_pc = "metrics"
  /\ \/ Respond("metrics", 200, Seen)
     \/ Respond("metrics", 200, Nothing)
     \/ Respond("metrics", 500, Nothing)

AnswerReady ==
  /\ http_pc = "ready"
  /\ Respond("ready", IF g_all_ready THEN 200 ELSE 503, Nothing)

\* check_liveness reads the clock before it takes the lock ...
ReadClock ==
  /\ http_pc = "live"
  /\ now_ms' = now
  /\ http_pc' = "live_scan"
  /\ UNCHANGED << now, parentVars, slotVars, g_running, recvVars, answer >>

\* (Mutated form: both times are cut to a coarser unit first.)
Age_Coarse(t, g) == (t \div 2 - slots[g].last_poll_ms \div 2) % U64

\* ... and subtracts in uint64_t under it.
Age(t, g) == (t - slots[g].last_poll_ms) % U64

\* (Mutated form: a slot that has received nothing counts with its zeroed time.)
check_liveness_AllSlots(t) == \A g \in GPU : Age(t, g) <= StaleMs

check_liveness(t) == \A g \in GPU : slots[g].received => Age(t, g) <= StaleMs

AnswerLive ==
  /\ http_pc = "live_scan"
  /\ Respond("live", IF check_liveness(now_ms) THEN 200 ELSE 503, Seen)

\* select times out or is interrupted, or accept fails, and the test finds
\* g_running cleared: the loop ends, the slots are freed.  If it is set still,
\* the loop goes on and nothing has changed.
LeaveLoop ==
  /\ http_pc = "select"
  /\ ~ g_running
  /\ http_pc' = "exiting"
  /\ UNCHANGED << now, parentVars, slotVars, g_running, recvVars, now_ms,
                  answer >>

\* select fails for another reason, which ends the loop at once.
SelectFails ==
  /\ http_pc = "select"
  /\ http_pc' = "exiting"
  /\ UNCHANGED << now, parentVars, slotVars, g_running, recvVars, now_ms,
                  answer >>

\* exit(0) ends both threads.
Exit ==
  /\ http_pc = "exiting"
  /\ http_pc' = "exited"
  /\ UNCHANGED << now, parentVars, slotVars, g_running, recvVars, now_ms,
                  answer >>

Receiver == Recv \/ RecvEof \/ Store

Serve ==
  \/ RefuseMethod \/ RefusePath \/ AnswerMetrics \/ AnswerReady \/ ReadClock
  \/ AnswerLive \/ LeaveLoop \/ Exit

Next ==
  \/ \E g \in GPU : Publish(g, now)
  \/ ParentCloses
  \/ handle_sigterm
  \/ Tick
  \/ Recv
  \/ RecvEof
  \/ Store
  \/ \E p \in Paths : Accept(p)
  \/ RefuseMethod
  \/ RefusePath
  \/ AnswerMetrics
  \/ AnswerReady
  \/ ReadClock
  \/ AnswerLive
  \/ LeaveLoop
  \/ SelectFails
  \/ Exit

Spec == Init /\ [][Next]_vars

(***************************************************************************)
(* Fairness.  Both threads are scheduled; a request ends because the       *)
(* client socket has send and receive timeouts, and select after a second. *)
(* Nothing is assumed of the parent, of the clients, of signals or of      *)
(* errors of select.                                                       *)
(***************************************************************************)
FairSpec == Spec /\ WF_vars(Receiver) /\ WF_vars(Serve)

-----------------------------------------------------------------------------
TypeOK ==
  /\ now \in Time
  /\ inbox \in Seq(Message)
  /\ Len(inbox) <= MaxInbox
  /\ parent_open \in BOOLEAN
  /\ published \in [GPU -> Time \cup {-1}]
  /\ slots \in [GPU -> Slot]
  /\ g_all_ready \in BOOLEAN
  /\ g_running \in BOOLEAN
  /\ recv_pc \in {"recv", "store", "done"}
  /\ recv_msg \in Seq(Message)
  /\ Len(recv_msg) = IF recv_pc = "store" THEN 1 ELSE 0
  /\ http_pc \in Paths \cup {"select", "live_scan", "exiting", "exited"}
  /\ now_ms \in Time
  /\ answer \in Answer

(***************************************************************************)
(* What a scrape shows of a GPU never goes back in time: snapshots cross   *)
(* the socket and the receiver in the order the poll thread sent them.     *)
(***************************************************************************)
SlotsNeverRegress ==
  [][\A g \in GPU : slots[g].received =>
        slots'[g].received /\ slots'[g].last_poll_ms >= slots[g].last_poll_ms]_vars

(***************************************************************************)
(* Once any client has been told "ready", the slots that a scrape copies   *)
(* are those of every GPU or, if memory ran out, of none: never a subset.  *)
(* The flag is written under g_lock and read without it (http.c:217-228,   *)
(* 1023).  Whether the text made of them fits its buffer (http.c:56, 183)  *)
(* is another matter, which the model leaves out.                          *)
(***************************************************************************)
MetricsCompleteOnceReady ==
  answer.after_ready /\ answer.path = "metrics" =>
    answer.seen = Nothing \/ \A g \in GPU : answer.seen[g] # -1

(***************************************************************************)
(* /live answers for what was in the slots: 200 only if every snapshot     *)
(* there is at most StaleMs old, and 503 only if one is older than that or *)
(* was stored after the clock had been read, so that the unsigned age      *)
(* wrapped (http.c:899-906: the clock is read before the lock is taken). A *)
(* GPU that has sent nothing decides nothing. StaleMeansStale below rules  *)
(* the second cause out, as the README does.                               *)
(***************************************************************************)
LiveIsJustified ==
  answer.path = "live" =>
    LET age(g) == answer.at - answer.seen[g]
        heard == {g \in GPU : answer.seen[g] # -1}
    IN  IF answer.status = 200
        THEN \A g \in heard : age(g) \in 0 .. StaleMs
        ELSE \E g \in heard : age(g) \notin 0 .. StaleMs

(***************************************************************************)
(* Snapshots that were sent are shown: the slot of their GPU catches up    *)
(* with the latest one, however many are sent meanwhile, or the child is   *)
(* on its way out.                                                         *)
(***************************************************************************)
SnapshotsReachSlots ==
  \A g \in GPU :
    published[g] # -1 ~> \/ slots[g].received /\ slots[g].last_poll_ms = published[g]
                        \/ ~ g_running
                        \/ http_pc \in {"exiting", "exited"}

(***************************************************************************)
(* The child does not outlive its parent: after the parent's end of the    *)
(* socket is closed, or after SIGTERM, it exits, whatever request it is    *)
(* serving and however many snapshots are still queued.                    *)
(***************************************************************************)
ChildExits == ~ parent_open \/ ~ g_running ~> http_pc = "exited"

(***************************************************************************)
(* README.md:333 says that /live answers 503 if the age of the last poll   *)
(* exceeds the limit, and 200 otherwise: when it answers 503 some GPU's    *)
(* snapshot is that old.                                                   *)
(***************************************************************************)
StaleMeansStale ==
  answer.path = "live" /\ answer.status = 503 =>
    \E g \in GPU : answer.seen[g] # -1 /\ answer.at - answer.seen[g] > StaleMs
=============================================================================
