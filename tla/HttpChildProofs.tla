-------------------------- MODULE HttpChildProofs --------------------------
(***************************************************************************)
(* Safety of the HTTP child for every number of GPUs, every socket size    *)
(* and every staleness limit: what the two threads make of the slots, and  *)
(* what a client can conclude from an answer.                              *)
(***************************************************************************)
EXTENDS HttpChild, SequenceTheorems, TLAPS

-----------------------------------------------------------------------------
(* Types.                                                                  *)

\* The state in which http_child_run enters its loop (http.c:1262-1316).
LEMMA InitTypes == Init => TypeOK
<1> SUFFICES ASSUME Init PROVE TypeOK
  OBVIOUS
<1>1. 0 \in Time
  BY ChildAssumption DEF Time
<1>2. Nothing \in [GPU -> Time \cup {-1}] /\ published = Nothing
  BY DEF Nothing, Init
<1>3. answer \in Answer
  BY <1>1, <1>2 DEF Init, NoAnswer, Answer
<1>4. slots \in [GPU -> Slot]
  BY <1>1 DEF Init, EmptySlot, Slot
<1>5. inbox \in Seq(Message) /\ recv_msg \in Seq(Message)
      /\ Len(inbox) <= MaxInbox /\ Len(recv_msg) = 0
  BY ChildAssumption DEF Init
<1>6. parent_open \in BOOLEAN /\ g_all_ready \in BOOLEAN /\ g_running \in BOOLEAN
  BY DEF Init
<1> QED
  BY <1>1, <1>2, <1>3, <1>4, <1>5, <1>6 DEF Init, TypeOK

\* What a reader under g_lock finds has the type of an answer's field.
LEMMA SeenType == TypeOK => Seen \in [GPU -> Time \cup {-1}]
BY DEF TypeOK, Seen, Slot

\* Every response has the type of an answer.
LEMMA RespondTypes ==
  ASSUME TypeOK, NEW p \in Paths, NEW s \in {0, 200, 404, 405, 500, 503},
         NEW seen \in [GPU -> Time \cup {-1}], Respond(p, s, seen)
  PROVE  TypeOK'
<1>1. answer' \in Answer
  BY DEF Respond, TypeOK, Answer
<1>2. now_ms' \in Time
  BY ChildAssumption DEF Respond, Time
<1>3. http_pc' \in Paths \cup {"select", "live_scan", "exiting", "exited"}
  BY DEF Respond
<1> QED
  BY <1>1, <1>2, <1>3
  DEF TypeOK, Respond, parentVars, slotVars, recvVars

\* A new request forgets the last answer, except that /ready once said 200.
LEMMA AcceptAnswer ==
  ASSUME TypeOK, NEW p \in Paths, Accept(p)
  PROVE  \E told \in BOOLEAN :
           /\ told <=> answer.after_ready \/ ReadyAnswer
           /\ answer' = [path |-> "none", status |-> 0, at |-> 0,
                         seen |-> Nothing, after_ready |-> told]
<1> DEFINE told == answer.after_ready \/ ReadyAnswer
<1>1. told \in BOOLEAN
  BY DEF TypeOK, Answer, ReadyAnswer
<1>2. answer' = [NoAnswer EXCEPT !.after_ready = told]
  BY DEF Accept
<1>3. answer' = [path |-> "none", status |-> 0, at |-> 0, seen |-> Nothing,
                 after_ready |-> told]
  <2> HIDE DEF told
  <2> QED
    BY <1>1, <1>2 DEF NoAnswer
<1> QED
  BY <1>1, <1>3

\* Every step of the two threads, the parent, clients and signals.
LEMMA NextTypes == TypeOK /\ [Next]_vars => TypeOK'
<1> SUFFICES ASSUME TypeOK, [Next]_vars PROVE TypeOK'
  OBVIOUS
<1> USE DEF parentVars, slotVars, recvVars, httpVars
<1>1. ASSUME NEW g \in GPU, Publish(g, now) PROVE TypeOK'
  <2>1. [gpu |-> g, last_poll_ms |-> now] \in Message
    BY DEF TypeOK, Message
  <2>2. inbox' \in Seq(Message) /\ Len(inbox') <= MaxInbox
    BY <1>1, <2>1, ChildAssumption DEF Publish, TypeOK
  <2>3. published' \in [GPU -> Time \cup {-1}]
    BY <1>1 DEF Publish, TypeOK
  <2> QED
    BY <1>1, <2>2, <2>3 DEF Publish, TypeOK
<1>2. CASE ParentCloses \/ handle_sigterm \/ LeaveLoop \/ SelectFails \/ Exit
  BY <1>2 DEF TypeOK, ParentCloses, handle_sigterm, LeaveLoop, SelectFails, Exit
<1>3. CASE Tick
  <2>1. now' \in Time
    BY <1>3, ChildAssumption DEF Tick, TypeOK, Time
  <2> QED
    BY <1>3, <2>1 DEF Tick, TypeOK
<1>4. CASE Recv
  <2>1. Head(inbox) \in Message /\ Tail(inbox) \in Seq(Message)
        /\ Len(Tail(inbox)) <= MaxInbox
    BY <1>4, ChildAssumption DEF Recv, TypeOK
  <2>2. recv_msg' \in Seq(Message) /\ Len(recv_msg') = 1
    BY <1>4, <2>1 DEF Recv
  <2> QED
    BY <1>4, <2>1, <2>2 DEF Recv, TypeOK
<1>5. CASE RecvEof
  BY <1>5 DEF RecvEof, TypeOK
<1>6. CASE Store
  <2>1. slots' \in [GPU -> Slot]
    <3>1. recv_msg \in Seq(Message) /\ Len(recv_msg) = 1
      BY <1>6 DEF Store, TypeOK
    <3>2. Head(recv_msg) \in Message
      BY <3>1
    <3> QED
      BY <1>6, <3>2 DEF Store, TypeOK, Message, Slot
  <2>2. g_all_ready' \in BOOLEAN
    BY <1>6 DEF Store, TypeOK
  <2>3. recv_msg' \in Seq(Message) /\ Len(recv_msg') = 0 /\ recv_pc' \in {"recv", "done"}
    BY <1>6 DEF Store
  <2> QED
    BY <1>6, <2>1, <2>2, <2>3 DEF Store, TypeOK
<1>7. ASSUME NEW p \in Paths, Accept(p) PROVE TypeOK'
  <2>1. answer' \in Answer
    BY <1>7, AcceptAnswer, ChildAssumption DEF Answer, Nothing, Time
  <2> QED
    BY <1>7, <2>1 DEF Accept, TypeOK
<1>8. CASE ReadClock
  BY <1>8 DEF ReadClock, TypeOK
<1>9. CASE RefuseMethod \/ RefusePath \/ AnswerMetrics \/ AnswerReady \/ AnswerLive
  <2>1. Nothing \in [GPU -> Time \cup {-1}]
    BY DEF Nothing
  <2> QED
    BY <1>9, <2>1, SeenType, RespondTypes
    DEF RefuseMethod, RefusePath, AnswerMetrics, AnswerReady, AnswerLive, Paths
<1>10. CASE UNCHANGED vars
  BY <1>10 DEF vars, TypeOK
<1> QED
  BY <1>1, <1>2, <1>3, <1>4, <1>5, <1>6, <1>7, <1>8, <1>9, <1>10 DEF Next

\* The variables of the child keep their types.
THEOREM ChildTypeCorrect == Spec => []TypeOK
BY InitTypes, NextTypes, PTL DEF Spec

-----------------------------------------------------------------------------
(* Liveness answers.                                                       *)

\* uint64_t subtraction as check_liveness uses it: an age that is not
\* negative is exact, and a negative one wraps to more than any limit.
LEMMA AgeOrWrap ==
  ASSUME NEW t \in Time, NEW l \in Time
  PROVE  (t - l) % U64 <= StaleMs <=> t - l \in 0 .. StaleMs
<1> DEFINE d == t - l
<1>1. d \in Int /\ -MaxTime <= d /\ d <= MaxTime /\ U64 \in Nat \ {0}
  BY ChildAssumption DEF Time
<1>2. CASE 0 <= d
  <2>1. d % U64 = d
    <3>1. d < U64
      BY <1>1, ChildAssumption
    <3> HIDE DEF d
    <3> QED
      BY <1>1, <1>2, <3>1, SMT
  <2> HIDE DEF d
  <2>2. d % U64 <= StaleMs <=> d \in 0 .. StaleMs
    BY <1>1, <1>2, <2>1, ChildAssumption
  <2> QED
    BY <2>2 DEF d
<1>3. CASE d < 0
  <2>1. -U64 < d
    BY <1>1, ChildAssumption
  <2> HIDE DEF d
  <2>2. d % U64 = d + U64
    BY <1>1, <1>3, <2>1, SMT
  <2>3. d % U64 > StaleMs
    BY <1>1, <2>2, ChildAssumption
  <2>4. d % U64 <= StaleMs <=> d \in 0 .. StaleMs
    BY <1>1, <1>3, <2>2, <2>3, ChildAssumption
  <2> QED
    BY <2>4 DEF d
<1> QED
  BY <1>1, <1>2, <1>3

\* A step other than AnswerLive leaves no new answer for /live.
LEMMA OtherAnswers ==
  ASSUME TypeOK, [Next]_vars, ~ AnswerLive, answer' # answer
  PROVE  answer'.path # "live"
<1>1. ASSUME NEW p \in Paths, Accept(p) PROVE answer'.path # "live"
  BY <1>1, AcceptAnswer
<1>2. CASE RefuseMethod \/ RefusePath \/ AnswerMetrics \/ AnswerReady
  BY <1>2 DEF Respond, RefuseMethod, RefusePath, AnswerMetrics, AnswerReady
<1> QED
  BY <1>1, <1>2
  DEF Next, vars, parentVars, slotVars, recvVars, httpVars, Publish,
      ParentCloses, handle_sigterm, Tick, Recv, RecvEof, Store, ReadClock,
      LeaveLoop, SelectFails, Exit

\* An answer of /live is the one that the times in the slots justify, for any
\* number of GPUs and any limit, wherever the clock stood when it was read.
THEOREM LiveAnswersAreJustified == Spec => []LiveIsJustified
<1>1. Init => LiveIsJustified
  BY DEF Init, NoAnswer, LiveIsJustified
<1>2. TypeOK /\ LiveIsJustified /\ [Next]_vars => LiveIsJustified'
  <2> SUFFICES ASSUME TypeOK, LiveIsJustified, [Next]_vars PROVE LiveIsJustified'
    OBVIOUS
  <2>1. CASE AnswerLive
    <3>1. ASSUME NEW g \in GPU, slots[g].received
          PROVE  Age(now_ms, g) <= StaleMs <=> now_ms - Seen[g] \in 0 .. StaleMs
      <4>1. slots[g].last_poll_ms \in Time /\ now_ms \in Time
        BY DEF TypeOK, Slot
      <4> QED
        BY <3>1, <4>1, AgeOrWrap DEF Age, Seen
    <3>2. ASSUME NEW g \in GPU PROVE Seen[g] # -1 <=> slots[g].received
      BY ChildAssumption DEF TypeOK, Slot, Seen, Time
    <3>3. /\ answer'.path = "live" /\ answer'.at = now_ms /\ answer'.seen = Seen
          /\ answer'.status = IF check_liveness(now_ms) THEN 200 ELSE 503
      BY <2>1 DEF AnswerLive, Respond
    <3>4. check_liveness(now_ms) <=>
            \A g \in {h \in GPU : Seen[h] # -1} : now_ms - Seen[g] \in 0 .. StaleMs
      BY <3>1, <3>2 DEF check_liveness
    <3> QED
      BY <3>3, <3>4 DEF LiveIsJustified
  <2>2. CASE ~ AnswerLive /\ answer' # answer
    BY <2>2, OtherAnswers DEF LiveIsJustified
  <2>3. CASE answer' = answer
    BY <2>3 DEF LiveIsJustified
  <2> QED
    BY <2>1, <2>2, <2>3
<1> QED
  BY <1>1, <1>2, ChildTypeCorrect, PTL DEF Spec

-----------------------------------------------------------------------------
(* Readiness.                                                              *)

\* What makes MetricsCompleteOnceReady inductive: the flag is raised only
\* over full slots, and no client was told "ready" before it was raised.
ReadyInv ==
  /\ g_all_ready => \A g \in GPU : slots[g].received
  /\ answer.after_ready \/ ReadyAnswer => g_all_ready
  /\ MetricsCompleteOnceReady

\* Slots and the flag only ever fill.
LEMMA SlotsFill ==
  ASSUME TypeOK, [Next]_vars
  PROVE  /\ g_all_ready => g_all_ready'
         /\ \A g \in GPU : slots[g].received => slots'[g].received
         /\ (\A g \in GPU : slots[g].received) \/ g_all_ready' = g_all_ready
            \/ \A g \in GPU : slots'[g].received
<1>1. CASE Store
  <2>1. recv_msg \in Seq(Message) /\ Len(recv_msg) = 1
    BY <1>1 DEF Store, TypeOK
  <2>2. Head(recv_msg).gpu \in GPU
    <3>1. Head(recv_msg) \in Message
      BY <2>1
    <3> QED
      BY <3>1 DEF Message
  <2> QED
    BY <1>1, <2>2 DEF Store, TypeOK, Slot
<1>2. CASE UNCHANGED << slots, g_all_ready >>
  BY <1>2
<1> QED
  BY <1>1, <1>2
  DEF Next, vars, parentVars, slotVars, recvVars, httpVars, Publish,
      ParentCloses, handle_sigterm, Tick, Recv, RecvEof, Accept, Respond,
      RefuseMethod, RefusePath, AnswerMetrics, AnswerReady, ReadClock,
      AnswerLive, LeaveLoop, SelectFails, Exit

\* A slot once received stays so, and the flag is raised over full slots only.
LEMMA ReadyInvStep == TypeOK /\ ReadyInv /\ [Next]_vars => ReadyInv'
<1> SUFFICES ASSUME TypeOK, ReadyInv, [Next]_vars PROVE ReadyInv'
  OBVIOUS
<1>1. g_all_ready' => \A g \in GPU : slots'[g].received
  BY SlotsFill DEF ReadyInv
<1>2. ASSUME NEW p \in Paths, Accept(p) PROVE ReadyInv'
  <2>1. UNCHANGED << slots, g_all_ready >>
    BY <1>2 DEF Accept, slotVars
  <2> QED
    BY <1>1, <1>2, <2>1, AcceptAnswer
    DEF ReadyInv, ReadyAnswer, MetricsCompleteOnceReady
<1>3. ASSUME NEW p, NEW s, NEW seen, Respond(p, s, seen),
             p = "ready" /\ s = 200 => g_all_ready,
             p = "metrics" => seen = Nothing \/ seen = Seen
      PROVE  ReadyInv'
  <2>1. /\ answer' = [path |-> p, status |-> s, at |-> now_ms, seen |-> seen,
                      after_ready |-> answer.after_ready]
        /\ UNCHANGED << slots, g_all_ready >>
    BY <1>3 DEF Respond, slotVars
  <2>2. answer'.after_ready \/ ReadyAnswer' => g_all_ready'
    BY <1>3, <2>1 DEF ReadyInv, ReadyAnswer
  <2>3. ASSUME answer.after_ready, NEW g \in GPU PROVE Seen[g] # -1
    <3>1. slots[g].received
      BY <2>3 DEF ReadyInv
    <3> QED
      BY <3>1, ChildAssumption DEF TypeOK, Slot, Seen, Time
  <2>4. MetricsCompleteOnceReady'
    BY <1>3, <2>1, <2>3 DEF MetricsCompleteOnceReady
  <2> QED
    BY <1>1, <2>2, <2>4 DEF ReadyInv
<1>4. CASE RefuseMethod \/ RefusePath \/ AnswerMetrics \/ AnswerReady \/ AnswerLive
  BY <1>3, <1>4
  DEF RefuseMethod, RefusePath, AnswerMetrics, AnswerReady, AnswerLive
<1>5. CASE answer' = answer
  BY <1>1, <1>5, SlotsFill DEF ReadyInv, ReadyAnswer, MetricsCompleteOnceReady
<1> QED
  BY <1>2, <1>4, <1>5
  DEF Next, vars, parentVars, slotVars, recvVars, httpVars, Publish,
      ParentCloses, handle_sigterm, Tick, Recv, RecvEof, Store, ReadClock,
      LeaveLoop, SelectFails, Exit

\* After a client was told "ready", no copy of the slots that a scrape makes is of a
\* part of the GPUs, for any number of them and although the flag is read without
\* the lock; what of the copy fits into the text (http.c:56, 183) is left out.
THEOREM ReadyMeansComplete == Spec => []MetricsCompleteOnceReady
<1>1. Init => ReadyInv
  BY DEF Init, NoAnswer, ReadyAnswer, ReadyInv, MetricsCompleteOnceReady
<1>2. ReadyInv => MetricsCompleteOnceReady
  BY DEF ReadyInv
<1> QED
  BY <1>1, <1>2, ReadyInvStep, ChildTypeCorrect, PTL DEF Spec

-----------------------------------------------------------------------------
(* Order.                                                                  *)

\* Message m is not older than what the slot of its GPU shows, and not newer
\* than what was sent for it last.
InTurn(m, shown, sent) ==
  /\ shown[m.gpu].received => shown[m.gpu].last_poll_ms <= m.last_poll_ms
  /\ m.last_poll_ms <= sent[m.gpu]

\* Message m comes before message n.
Before(m, n) == m.gpu = n.gpu => m.last_poll_ms <= n.last_poll_ms

\* What makes SlotsNeverRegress hold: from the slot over the receiver's hand
\* and the socket to the parent, the times of a GPU ascend.
InOrder ==
  /\ \A g \in GPU : slots[g].received => slots[g].last_poll_ms <= published[g]
  /\ \A i \in 1 .. Len(inbox) : InTurn(inbox[i], slots, published)
  /\ \A i, j \in 1 .. Len(inbox) : i < j => Before(inbox[i], inbox[j])
  /\ recv_pc = "store" =>
       /\ InTurn(Head(recv_msg), slots, published)
       /\ \A i \in 1 .. Len(inbox) : Before(Head(recv_msg), inbox[i])

\* A snapshot moves along the chain of InOrder or joins it at its end.
LEMMA InOrderStep == TypeOK /\ InOrder /\ [Next]_vars => InOrder'
<1> SUFFICES ASSUME TypeOK, InOrder, [Next]_vars PROVE InOrder'
  OBVIOUS
<1>a. inbox \in Seq(Message) /\ \A i \in 1 .. Len(inbox) : inbox[i] \in Message
  BY DEF TypeOK
<1>b. recv_pc = "store" => Head(recv_msg) \in Message
  <2>1. ASSUME recv_pc = "store" PROVE recv_msg \in Seq(Message) /\ Len(recv_msg) = 1
    BY <2>1 DEF TypeOK
  <2> QED
    BY <2>1
<1>1. ASSUME NEW g \in GPU, Publish(g, now) PROVE InOrder'
  <2> DEFINE m == [gpu |-> g, last_poll_ms |-> now]
  <2>1. /\ inbox' = Append(inbox, m) /\ published' = [published EXCEPT ![g] = now]
        /\ UNCHANGED << slots, recv_pc, recv_msg >>
        /\ published[g] <= now /\ now \in Time
        /\ published \in [GPU -> Time \cup {-1}]
    BY <1>1 DEF Publish, TypeOK, slotVars, recvVars
  <2>a. \A h \in GPU : /\ published[h] \in Int /\ published'[h] \in Int
                       /\ published[h] <= published'[h]
    <3> SUFFICES ASSUME NEW h \in GPU
                 PROVE  /\ published[h] \in Int /\ published'[h] \in Int
                        /\ published[h] <= published'[h]
      OBVIOUS
    <3>1. published[h] \in Int /\ now \in Int
      BY <2>1, ChildAssumption DEF Time
    <3>2. published'[h] = IF h = g THEN now ELSE published[h]
      BY <2>1
    <3> QED
      BY <2>1, <3>1, <3>2
  <2>b. \A h \in GPU : slots[h].last_poll_ms \in Int
    BY ChildAssumption DEF TypeOK, Slot, Time
  <2>2. /\ Len(inbox') = Len(inbox) + 1 /\ Len(inbox) \in Nat
        /\ \A i \in 1 .. Len(inbox) : inbox'[i] = inbox[i]
        /\ inbox'[Len(inbox) + 1] = m
    BY <1>a, <2>1
  <2>3. ASSUME NEW n \in Message, InTurn(n, slots, published) PROVE InTurn(n, slots', published') /\ Before(n, m)
    <3>1. n.gpu \in GPU /\ n.last_poll_ms \in Int /\ now \in Int
      BY <2>1, ChildAssumption DEF Message, Time
    <3>2. n.last_poll_ms <= published'[n.gpu] /\ InTurn(n, slots', published')
      BY <2>1, <2>3, <2>a, <3>1 DEF InTurn
    <3>3. Before(n, m)
      BY <2>1, <3>1, <3>2 DEF Before
    <3> QED
      BY <3>2, <3>3
  <2>4. \A h \in GPU : slots'[h].received => slots'[h].last_poll_ms <= published'[h]
    BY <2>1, <2>a, <2>b DEF InOrder
  <2>5. InTurn(m, slots', published')
    <3>1. now \in Int /\ published'[g] = now
      BY <2>1, ChildAssumption DEF Time
    <3> QED
      BY <2>1, <2>4, <3>1 DEF InTurn
  <2>6. \A i \in 1 .. Len(inbox') : InTurn(inbox'[i], slots', published')
    BY <1>a, <2>2, <2>3, <2>5 DEF InOrder
  <2>7. \A i, j \in 1 .. Len(inbox') : i < j => Before(inbox'[i], inbox'[j])
    BY <1>a, <2>2, <2>3 DEF InOrder
  <2>8. recv_pc' = "store" =>
          /\ InTurn(Head(recv_msg'), slots', published')
          /\ \A i \in 1 .. Len(inbox') : Before(Head(recv_msg'), inbox'[i])
    <3> SUFFICES ASSUME recv_pc = "store"
                 PROVE  /\ InTurn(Head(recv_msg), slots', published')
                        /\ \A i \in 1 .. Len(inbox') : Before(Head(recv_msg), inbox'[i])
      BY <2>1
    <3>1. InTurn(Head(recv_msg), slots', published') /\ Before(Head(recv_msg), m)
      BY <1>b, <2>3 DEF InOrder
    <3> QED
      BY <2>2, <3>1 DEF InOrder
  <2> QED
    BY <2>4, <2>6, <2>7, <2>8 DEF InOrder, InTurn, Before
<1>2. CASE Recv
  <2>1. /\ inbox # << >> /\ inbox' = Tail(inbox) /\ recv_msg' = << Head(inbox) >>
        /\ UNCHANGED << slots, published >>
    BY <1>2 DEF Recv, slotVars
  <2>2. /\ Len(inbox') = Len(inbox) - 1 /\ Len(inbox) \in Nat \ {0}
        /\ \A i \in 1 .. Len(inbox') : inbox'[i] = inbox[i + 1]
        /\ Head(recv_msg') = inbox[1]
    BY <1>a, <2>1
  <2>3. \A i \in 1 .. Len(inbox') : i + 1 \in 1 .. Len(inbox) /\ 1 < i + 1
    BY <2>2
  <2>4. \A n \in Message : InTurn(n, slots, published) => InTurn(n, slots', published')
    BY <2>1 DEF InTurn
  <2>5. \A i \in 1 .. Len(inbox') : InTurn(inbox'[i], slots', published')
    BY <1>a, <2>2, <2>3, <2>4 DEF InOrder
  <2>6. \A i, j \in 1 .. Len(inbox') : i < j => Before(inbox'[i], inbox'[j])
    <3> SUFFICES ASSUME NEW i \in 1 .. Len(inbox'), NEW j \in 1 .. Len(inbox'), i < j
                 PROVE  Before(inbox[i + 1], inbox[j + 1])
      BY <2>2
    <3>1. i + 1 < j + 1
      BY <2>2
    <3> QED
      BY <2>3, <3>1 DEF InOrder
  <2>7. /\ InTurn(Head(recv_msg'), slots', published')
        /\ \A i \in 1 .. Len(inbox') : Before(Head(recv_msg'), inbox'[i])
    BY <1>a, <2>2, <2>3, <2>4 DEF InOrder
  <2> QED
    BY <2>1, <2>5, <2>6, <2>7 DEF InOrder, InTurn, Before
<1>3. CASE Store
  <2> DEFINE m == Head(recv_msg)
  <2>a. m \in Message /\ m.gpu \in GPU
    BY <1>3, <1>b DEF Store, Message
  <2>1. /\ m \in Message /\ InTurn(m, slots, published)
        /\ slots' = [slots EXCEPT ![m.gpu] =
                       [received |-> TRUE, last_poll_ms |-> m.last_poll_ms]]
        /\ recv_pc' # "store"
        /\ UNCHANGED << inbox, published >>
        /\ \A i \in 1 .. Len(inbox) : Before(m, inbox[i])
    BY <1>3, <1>b, <2>a DEF Store, InOrder, parentVars
  <2> HIDE DEF m
  <2>2. \A h \in GPU : slots'[h].received => slots'[h].last_poll_ms <= published'[h]
    BY <2>1 DEF InOrder, InTurn, Message, TypeOK
  <2>3. ASSUME NEW n \in Message, InTurn(n, slots, published), Before(m, n) PROVE InTurn(n, slots', published')
    BY <2>1, <2>3 DEF InTurn, Before, Message, TypeOK
  <2>4. \A i \in 1 .. Len(inbox') : InTurn(inbox'[i], slots', published')
    BY <1>a, <2>1, <2>3 DEF InOrder
  <2> QED
    BY <2>1, <2>2, <2>4 DEF InOrder, InTurn, Before
<1>4. CASE UNCHANGED << slots, published, inbox, recv_msg >> /\ (recv_pc' = "store" => recv_pc = "store")
  BY <1>4 DEF InOrder, InTurn, Before
<1> QED
  BY <1>1, <1>2, <1>3, <1>4
  DEF Next, vars, parentVars, slotVars, recvVars, httpVars, ParentCloses,
      handle_sigterm, Tick, RecvEof, Accept, Respond, RefuseMethod, RefusePath,
      AnswerMetrics, AnswerReady, ReadClock, AnswerLive, LeaveLoop, SelectFails, Exit

\* No scrape of /metrics goes back in time, for any number of GPUs and any
\* number of snapshots that wait in the socket.
THEOREM ScrapesNeverGoBack == Spec => SlotsNeverRegress
<1>1. Init => InOrder
  BY DEF Init, InOrder, EmptySlot
<1>2. TypeOK /\ InOrder /\ [Next]_vars =>
        [\A g \in GPU : slots[g].received =>
           slots'[g].received /\ slots'[g].last_poll_ms >= slots[g].last_poll_ms]_vars
  <2> SUFFICES ASSUME TypeOK, InOrder, Next, NEW g \in GPU, slots[g].received
               PROVE  slots'[g].received /\ slots'[g].last_poll_ms >= slots[g].last_poll_ms
    OBVIOUS
  <2>a. slots[g].last_poll_ms \in Int
    BY ChildAssumption DEF TypeOK, Slot, Time
  <2>1. CASE Store
    <3>1. recv_msg \in Seq(Message) /\ Len(recv_msg) = 1
      BY <2>1 DEF Store, TypeOK
    <3>2. Head(recv_msg) \in Message
      BY <3>1
    <3>3. InTurn(Head(recv_msg), slots, published)
      BY <2>1 DEF Store, InOrder
    <3> QED
      BY <2>1, <2>a, <3>2, <3>3, ChildAssumption DEF Store, InTurn, Message, TypeOK, Time
  <2>2. CASE slots' = slots
    BY <2>a, <2>2
  <2> QED
    BY <2>1, <2>2
    DEF Next, vars, parentVars, slotVars, recvVars, httpVars, Publish,
        ParentCloses, handle_sigterm, Tick, Recv, RecvEof, Accept, Respond,
        RefuseMethod, RefusePath, AnswerMetrics, AnswerReady, ReadClock,
        AnswerLive, LeaveLoop, SelectFails, Exit
<1> QED
  BY <1>1, <1>2, InOrderStep, ChildTypeCorrect, PTL DEF Spec, SlotsNeverRegress

-----------------------------------------------------------------------------
(* Ending.                                                                 *)

\* How many steps the main thread has left at most when g_running is cleared.
StepsLeft == [select |-> 4, live |-> 3, live_scan |-> 2, metrics |-> 2, ready |-> 2,
              unknown |-> 2, not_get |-> 2, exiting |-> 1, exited |-> 0]

\* The steps of the main thread, those that a client or an error begins too.
MainThread == Serve \/ SelectFails \/ \E p \in Paths : Accept(p)

\* Once g_running is cleared it stays so, and every step of the main thread brings
\* it nearer to its exit: one request may still be taken, because the loop tests
\* g_running before it waits for a client, and no second one.
ExitIsNear ==
  [][~ g_running =>
       /\ ~ g_running'
       /\ MainThread => StepsLeft[http_pc'] < StepsLeft[http_pc]]_vars

\* Whether it waits in select or serves a request, a child that was told to end
\* takes at most four more steps, among them at most one accept (http.c:1053-1069,
\* 1331-1340): the part of ChildExits that needs no fairness.
THEOREM ExitNeedsFewSteps == Spec => ExitIsNear
<1>1. [Next]_vars =>
        [~ g_running =>
           /\ ~ g_running'
           /\ MainThread => StepsLeft[http_pc'] < StepsLeft[http_pc]]_vars
  <2> SUFFICES ASSUME Next, ~ g_running
               PROVE  /\ ~ g_running'
                      /\ MainThread => StepsLeft[http_pc'] < StepsLeft[http_pc]
    OBVIOUS
  <2>1. ~ g_running'
    BY DEF Next, Publish, ParentCloses, handle_sigterm, Tick, Recv, RecvEof, Store,
           Accept, Respond, RefuseMethod, RefusePath, AnswerMetrics, AnswerReady,
           ReadClock, AnswerLive, LeaveLoop, SelectFails, Exit
  <2>2. Serve \/ SelectFails => StepsLeft[http_pc'] < StepsLeft[http_pc]
    BY DEF Serve, Respond, RefuseMethod, RefusePath, AnswerMetrics, AnswerReady,
           ReadClock, AnswerLive, LeaveLoop, SelectFails, Exit, StepsLeft
  <2>3. ASSUME NEW p \in Paths, Accept(p)
        PROVE  StepsLeft[http_pc'] < StepsLeft[http_pc]
    BY <2>3 DEF Accept, Paths, StepsLeft
  <2> QED
    BY <2>1, <2>2, <2>3 DEF MainThread
<1> QED
  BY <1>1, PTL DEF Spec, ExitIsNear
=============================================================================
