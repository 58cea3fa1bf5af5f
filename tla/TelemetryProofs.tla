-------------------------- MODULE TelemetryProofs ---------------------------
(***************************************************************************)
(* What a poll publishes, for every ring capacity, every range of polls    *)
(* and every choice of DCGM's sentinels that keeps them apart: the poll    *)
(* thread uses its ring as module Ring says, so that what is proved of the *)
(* ring holds in the thread, and a field shows what the libraries said of  *)
(* it.  First the ring itself, which is, for every capacity, the sliding   *)
(* window of module Window.                                                *)
(***************************************************************************)
EXTENDS Telemetry, SequenceTheorems, TLAPS

-----------------------------------------------------------------------------
(* The ring of collector.c.                                                *)

\* Remainders of the two ranges that the index arithmetic stays in.
LEMMA ModSmall ==
  ASSUME NEW a \in Int, NEW c \in Nat \ {0}, 0 <= a, a < c
  PROVE  a % c = a
  BY SMT

\* The remainder of a sum that has gone past the modulus once.
LEMMA ModWrap ==
  ASSUME NEW a \in Int, NEW c \in Nat \ {0}, c <= a, a < 2 * c
  PROVE  a % c = a - c
  BY SMT

-----------------------------------------------------------------------------
\* The ring position of head after a push, without the remainder.
LEMMA HeadAdvances ==
  ASSUME head \in Index
  PROVE  (head + 1) % Capacity = IF head + 1 = Capacity THEN 0 ELSE head + 1
  <1>1. CASE head + 1 = Capacity
    BY <1>1, CapacityAssumption, ModWrap, SMT DEF Index
  <1>2. CASE head + 1 # Capacity
    <2>1. 0 <= head + 1 /\ head + 1 < Capacity
      BY <1>2, CapacityAssumption, SMT DEF Index
    <2> QED
      BY <1>2, <2>1, CapacityAssumption, ModSmall DEF Index
  <1> QED
    BY <1>1, <1>2

\* The ring position of logical index i in a ring with head h and n valid
\* slots, without the remainder: a ring that is not yet full starts at slot
\* 0, a full one starts at its head.
LEMMA IndexClosedForm ==
  ASSUME NEW h \in Index, NEW n \in 0 .. Capacity, n < Capacity => h = n,
         NEW i \in 0 .. n - 1
  PROVE  (h - n + i + Capacity) % Capacity =
           IF n < Capacity THEN i
           ELSE IF h + i < Capacity THEN h + i ELSE h + i - Capacity
  <1> USE CapacityAssumption DEF Index
  <1>1. CASE n < Capacity
    <2>1. h - n + i + Capacity = i + Capacity
      BY <1>1
    <2>2. (i + Capacity) % Capacity = i + Capacity - Capacity
      BY <1>1, ModWrap
    <2> QED
      BY <1>1, <2>1, <2>2
  <1>2. CASE n = Capacity
    <2>1. h - n + i + Capacity = h + i
      BY <1>2
    <2>2. CASE h + i < Capacity
      <3>1. (h + i) % Capacity = h + i
        BY <2>2, ModSmall
      <3> QED
        BY <1>2, <2>1, <2>2, <3>1
    <2>3. CASE ~ (h + i < Capacity)
      <3>1. Capacity <= h + i /\ h + i < 2 * Capacity
        BY <1>2, <2>3
      <3>2. (h + i) % Capacity = h + i - Capacity
        <4> DEFINE a == h + i
        <4>1. a \in Int /\ Capacity <= a /\ a < 2 * Capacity
          BY <3>1
        <4> HIDE DEF a
        <4>2. a % Capacity = a - Capacity
          BY <4>1, ModWrap
        <4> QED
          BY <4>2 DEF a
      <3> QED
        BY <1>2, <2>1, <2>3, <3>2
    <2> QED
      BY <2>2, <2>3
  <1> QED
    BY <1>1, <1>2

-----------------------------------------------------------------------------
\* The ring that collector_start allocates satisfies the invariant.
LEMMA RingInvInit == Init => RingInv
  BY CapacityAssumption, SMT DEF Init, RingInv, TypeOK, FillsInOrder, Index

\* ring_push keeps the invariant, before and after the ring has filled.
LEMMA RingInvStep == RingInv /\ [Next]_vars => RingInv'
  <1> SUFFICES ASSUME RingInv, [Next]_vars PROVE RingInv'
    OBVIOUS
  <1> USE CapacityAssumption DEF RingInv, TypeOK, FillsInOrder, Index
  <1>1. ASSUME NEW s \in Sample, ring_push(s) PROVE RingInv'
    <2>1. head' = IF head + 1 = Capacity THEN 0 ELSE head + 1
      BY <1>1, HeadAdvances DEF ring_push
    <2>2. TypeOK'
      BY <1>1, <2>1 DEF ring_push
    <2>3. FillsInOrder'
      BY <1>1, <2>1 DEF ring_push
    <2> QED
      BY <2>2, <2>3
  <1>2. CASE UNCHANGED vars
    BY <1>2 DEF vars
  <1> QED
    BY <1>1, <1>2 DEF Next

\* RingInv holds in every state: ring_push keeps head and count in step, so
\* type correctness follows for every capacity.
THEOREM RingInvariant == Spec => []RingInv
  BY RingInvInit, RingInvStep, PTL DEF Spec

\* head and count stay within the array that collector_start allocated, for
\* every capacity.
THEOREM TypeCorrect == Spec => []TypeOK
  <1>1. RingInv => TypeOK
    BY DEF RingInv
  <1> QED
    BY <1>1, RingInvariant, PTL

-----------------------------------------------------------------------------
\* A logical index below count resolves to a slot that has been written.
LEMMA HiddenSlots == RingInv => NoUnwrittenSlotVisible
  <1> SUFFICES ASSUME RingInv, NEW i \in 0 .. count - 1
               PROVE  SampleAt(i) \in Sample
    BY DEF NoUnwrittenSlotVisible
  <1>1. SampleIndex(i) = IF count < Capacity THEN i
                         ELSE IF head + i < Capacity THEN head + i
                         ELSE head + i - Capacity
    BY IndexClosedForm DEF RingInv, TypeOK, FillsInOrder, SampleIndex
  <1>2. SampleIndex(i) \in Index /\ SampleIndex(i) < count
    BY <1>1, CapacityAssumption DEF RingInv, TypeOK, Index
  <1> QED
    BY <1>2 DEF RingInv, FillsInOrder, SampleAt

\* No reader ever resolves a logical index to a slot that no poll wrote.
THEOREM UnwrittenSlotsStayHidden == Spec => []NoUnwrittenSlotVisible
  BY HiddenSlots, RingInvariant, PTL

-----------------------------------------------------------------------------
(***************************************************************************)
(* Refinement.  Contents is a sequence of count samples, and a push either *)
(* extends it or drops its oldest element first.                           *)
(***************************************************************************)
LEMMA ContentsIsSeq ==
  RingInv => /\ Contents \in Seq(Sample)
             /\ Len(Contents) = count
             /\ \A i \in 1 .. count : Contents[i] = SampleAt(i - 1)
  <1> SUFFICES ASSUME RingInv
               PROVE  /\ Contents \in Seq(Sample)
                      /\ Len(Contents) = count
                      /\ \A i \in 1 .. count : Contents[i] = SampleAt(i - 1)
    OBVIOUS
  <1> USE DEF RingInv, TypeOK
  <1>1. \A i \in 1 .. count : SampleAt(i - 1) \in Sample
    <2> SUFFICES ASSUME NEW i \in 1 .. count PROVE SampleAt(i - 1) \in Sample
      OBVIOUS
    <2>1. NoUnwrittenSlotVisible
      BY HiddenSlots
    <2>2. i - 1 \in 0 .. count - 1
      OBVIOUS
    <2> QED
      BY <2>1, <2>2 DEF NoUnwrittenSlotVisible
  <1>2. Contents \in [1 .. count -> Sample]
    BY <1>1 DEF Contents
  <1>3. count \in Nat
    BY CapacityAssumption
  <1>4. Contents \in Seq(Sample)
    BY <1>2, <1>3, SeqDef
  <1>5. Len(Contents) = count
    BY <1>2, <1>3, <1>4, LenProperties
  <1> QED
    BY <1>4, <1>5 DEF Contents

\* A push appends to a window that is not full and slides a full one.
LEMMA PushExtendsOrSlides ==
  ASSUME RingInv, RingInv', NEW s \in Sample, ring_push(s)
  PROVE  Contents' = Append(IF Len(Contents) < Capacity THEN Contents
                            ELSE Tail(Contents), s)
  <1> USE CapacityAssumption
  <1>1. /\ Contents \in Seq(Sample)
        /\ Len(Contents) = count
        /\ \A i \in 1 .. count : Contents[i] = samples[SampleIndex(i - 1)]
    BY ContentsIsSeq DEF SampleAt
  <1>2. /\ Contents' \in Seq(Sample)
        /\ Len(Contents') = count'
        /\ \A i \in 1 .. count' :
             Contents'[i] = samples'[(head' - count' + (i - 1) + Capacity) % Capacity]
    <2>1. (/\ Contents \in Seq(Sample)
           /\ Len(Contents) = count
           /\ \A i \in 1 .. count : Contents[i] = SampleAt(i - 1))'
      BY ContentsIsSeq, PTL
    <2> QED
      BY <2>1 DEF SampleAt, SampleIndex
  <1>3. head' = IF head + 1 = Capacity THEN 0 ELSE head + 1
    BY HeadAdvances DEF ring_push, RingInv, TypeOK
  <1>4. CASE count < Capacity
    <2>1. /\ head = count
          /\ count' = count + 1
          /\ samples' = [samples EXCEPT ![count] = s]
      BY <1>4 DEF ring_push, RingInv, TypeOK, FillsInOrder
    <2>2. \A i \in 1 .. count : Contents[i] = samples[i - 1]
      <3> SUFFICES ASSUME NEW i \in 1 .. count
                   PROVE  SampleIndex(i - 1) = i - 1
        BY <1>1
      <3>1. i - 1 \in 0 .. count - 1
        BY DEF RingInv, TypeOK
      <3> QED
        BY <1>4, <3>1, IndexClosedForm
        DEF SampleIndex, RingInv, TypeOK, FillsInOrder
    <2>3. \A i \in 1 .. count' : Contents'[i] = samples'[i - 1]
      <3> SUFFICES ASSUME NEW i \in 1 .. count'
                   PROVE  (head' - count' + (i - 1) + Capacity) % Capacity = i - 1
        BY <1>2
      <3>1. i - 1 \in 0 .. count' - 1
        BY <2>1 DEF RingInv, TypeOK
      <3>2. (head' - count' + (i - 1) + Capacity) % Capacity =
              IF count' < Capacity THEN i - 1
              ELSE IF head' + (i - 1) < Capacity THEN head' + (i - 1)
              ELSE head' + (i - 1) - Capacity
        BY <3>1, IndexClosedForm DEF RingInv, TypeOK, FillsInOrder
      <3> QED
        BY <1>3, <1>4, <2>1, <3>1, <3>2 DEF RingInv, TypeOK, Index
    <2>4. \A i \in 1 .. count + 1 :
            Contents'[i] = IF i <= count THEN Contents[i] ELSE s
      BY <1>4, <2>1, <2>2, <2>3 DEF RingInv, TypeOK, Index
    <2> QED
      BY <1>1, <1>2, <1>4, <2>1, <2>4, SeqEqual
  <1>5. CASE count = Capacity
    <2>1. /\ count' = count
          /\ samples' = [samples EXCEPT ![head] = s]
      BY <1>5 DEF ring_push, RingInv, TypeOK
    <2>2. \A i \in 1 .. count :
            Contents[i] = samples[IF head + (i - 1) < Capacity THEN head + (i - 1)
                                  ELSE head + (i - 1) - Capacity]
      <3> SUFFICES ASSUME NEW i \in 1 .. count
                   PROVE  SampleIndex(i - 1) =
                            IF head + (i - 1) < Capacity THEN head + (i - 1)
                            ELSE head + (i - 1) - Capacity
        BY <1>1
      <3>1. i - 1 \in 0 .. count - 1
        BY DEF RingInv, TypeOK
      <3> QED
        BY <1>5, <3>1, IndexClosedForm
        DEF SampleIndex, RingInv, TypeOK, FillsInOrder
    <2>3. \A i \in 1 .. count :
            Contents'[i] = samples'[IF head' + (i - 1) < Capacity THEN head' + (i - 1)
                                    ELSE head' + (i - 1) - Capacity]
      <3> SUFFICES ASSUME NEW i \in 1 .. count
                   PROVE  (head' - count' + (i - 1) + Capacity) % Capacity =
                            IF head' + (i - 1) < Capacity THEN head' + (i - 1)
                            ELSE head' + (i - 1) - Capacity
        BY <1>2, <2>1
      <3>1. i - 1 \in 0 .. count' - 1
        BY <2>1 DEF RingInv, TypeOK
      <3> QED
        BY <1>5, <2>1, <3>1, IndexClosedForm DEF RingInv, TypeOK, FillsInOrder
    <2>4. \A i \in 1 .. count :
            Contents'[i] = IF i < count THEN Contents[i + 1] ELSE s
      BY <1>3, <1>5, <2>1, <2>2, <2>3 DEF RingInv, TypeOK, Index
    <2>5. Contents # << >>
      BY <1>1, <1>5
    <2>6. /\ Tail(Contents) \in Seq(Sample)
          /\ Len(Tail(Contents)) = count - 1
          /\ \A i \in 1 .. count - 1 : Tail(Contents)[i] = Contents[i + 1]
      BY <1>1, <2>5, HeadTailProperties
    <2> QED
      BY <1>1, <1>2, <1>5, <2>1, <2>4, <2>6, SeqEqual
  <1> QED
    BY <1>4, <1>5 DEF RingInv, TypeOK

\* For every capacity, ring_push and the readers' index arithmetic together
\* implement the sliding window: a scan of the ring sees exactly the last
\* Capacity samples, oldest first.
THEOREM RingImplementsWindow == Spec => ImplementsWindow
  <1>1. Init => W!Init
    <2> SUFFICES ASSUME Init PROVE Contents = << >>
      BY DEF W!Init
    <2>1. RingInv
      BY RingInvInit
    <2> QED
      BY <2>1, ContentsIsSeq, EmptySeq DEF Init
  <1>2. RingInv /\ RingInv' /\ [Next]_vars => [W!Next]_Contents
    <2> SUFFICES ASSUME RingInv, RingInv', [Next]_vars
                 PROVE  [W!Next]_Contents
      OBVIOUS
    <2>1. ASSUME NEW s \in Sample, ring_push(s) PROVE W!Push(s)
      BY <2>1, PushExtendsOrSlides DEF W!Push
    <2>2. CASE UNCHANGED vars
      BY <2>2 DEF vars, Contents, SampleAt, SampleIndex
    <2> QED
      BY <2>1, <2>2 DEF Next, W!Next
  <1> QED
    BY <1>1, <1>2, RingInvariant, PTL DEF Spec, ImplementsWindow, W!Spec

-----------------------------------------------------------------------------
(* The calls of do_nvml_poll.                                              *)

\* A poll that returns 0 has made every call before the return.
LEMMA ReturnIsLast ==
  \A c \in NvmlOptional \cup NvmlRequired : Position[c] < Position["return"]
<1>1. DOMAIN NvmlCalls = 1 .. 8 /\ Len(NvmlCalls) = 8
  BY DEF NvmlCalls
<1>2. /\ NvmlCalls[1] = "sample" /\ NvmlCalls[2] = "ecc_dbe_aggregate"
      /\ NvmlCalls[3] = "retired_pages_dbe" /\ NvmlCalls[4] = "row_remap_failures"
      /\ NvmlCalls[5] = "memory" /\ NvmlCalls[6] = "pcie_replay_count"
      /\ NvmlCalls[7] = "fan_speed_pct" /\ NvmlCalls[8] = "return"
  BY DEF NvmlCalls
<1>3. \A c \in NvmlOptional \cup NvmlRequired \cup {"return"} :
        \E k \in 1 .. 8 : NvmlCalls[k] = c
  BY <1>2 DEF NvmlOptional, NvmlRequired
<1>4. ASSUME NEW c \in NvmlOptional \cup NvmlRequired \cup {"return"}
      PROVE  Position[c] \in 1 .. 8 /\ NvmlCalls[Position[c]] = c
  <2>1. Position[c] = CHOOSE k \in DOMAIN NvmlCalls : NvmlCalls[k] = c
    BY <1>1, <1>3 DEF Position
  <2> QED
    BY <1>1, <1>3, <2>1
<1>5. Position["return"] = 8
  BY <1>2, <1>4
<1>6. \A c \in NvmlOptional \cup NvmlRequired : c # "return"
  BY DEF NvmlOptional, NvmlRequired
<1>7. ASSUME NEW c \in NvmlOptional \cup NvmlRequired
      PROVE  Position[c] < 8
  BY <1>2, <1>4, <1>6
<1> QED
  BY <1>5, <1>7

-----------------------------------------------------------------------------
(* The replies of DCGM.                                                    *)

\* mW are turned into W and back without loss.
LEMMA DivExact ==
  ASSUME NEW v \in Int, NEW m \in Nat \ {0}
  PROVE  (v * m) \div m = v
OBVIOUS

\* A reading in mW is told from a blank, and so is a negative number.
LEMMA MilliBelowBlank ==
  ASSUME NEW v \in (1 .. MaxPolls) \cup {-1, -2}
  PROVE  v * Milli \in Int /\ v * Milli < IntBlank
<1> USE TelemetryAssumption
<1>1. CASE v \in {-1, -2}
  <2>1. (-1) * Milli = 0 - Milli /\ (-2) * Milli = 0 - Milli - Milli
    OBVIOUS
  <2> QED
    BY <1>1, <2>1
<1>2. CASE v \in 1 .. MaxPolls
  <2> DEFINE d == MaxPolls - v
  <2>1. MaxPolls \in Nat /\ Milli \in Nat /\ d \in Nat /\ MaxPolls = v + d
    BY <1>2
  <2> HIDE DEF d
  <2>2. MaxPolls * Milli = v * Milli + d * Milli
    BY <1>2, <2>1
  <2>3. v * Milli \in Nat /\ d * Milli \in Nat
    BY <1>2, <2>1
  <2> QED
    BY <2>2, <2>3
<1> QED
  BY <1>1, <1>2

(***************************************************************************)
(* What dcgm_poll leaves in a field (dcgm.c:257-340): the reading, if the  *)
(* field can show it, and otherwise the sentinel, which no such reading    *)
(* equals; of a negative answer below -1 for a uint64_t nothing is said.   *)
(***************************************************************************)
LEMMA StoredReading ==
  ASSUME NEW f \in DcgmField, NEW n \in 0 .. MaxPolls, NEW r \in Reply(f, n),
         ~ (f \in DcgmU64 /\ Reading(f, r) < -1)
  PROVE  /\ CanShow(f, Reading(f, r)) =>
              Stored(f, r) = Reading(f, r) /\ Stored(f, r) # Unavailable(f)
         /\ ~ CanShow(f, Reading(f, r)) => Stored(f, r) = Unavailable(f)
<1> USE TelemetryAssumption DEF DcgmField, DcgmDbl, DcgmU64, DcgmU32
<1>0. n = 0 \/ n \in 1 .. MaxPolls
  OBVIOUS
<1>1. CASE r.status # "ok"
  BY <1>1 DEF Reading, CanShow, Stored
<1>2. CASE r.status = "ok" /\ r.value = IntBlank
  BY <1>2 DEF Reading, CanShow, Stored
<1>3. CASE r.status = "ok" /\ r.value # IntBlank /\ f \in DcgmDbl
  <2>1. \/ r.type = "int64" /\ \E v \in (1 .. MaxPolls) \cup {-1, -2} : r.value = v * Milli
        \/ r.type = "double" /\ r.value \in (1 .. MaxPolls) \cup {-1, -2}
    BY <1>0, <1>3 DEF Reply
  <2>2. Unavailable(f) = -1 /\ f \notin DcgmU64 /\ f \notin DcgmU32
    BY <1>3 DEF Unavailable
  <2>3. CASE r.type = "int64"
    <3>1. PICK v \in (1 .. MaxPolls) \cup {-1, -2} : r.value = v * Milli
      BY <2>1, <2>3
    <3>2. r.value \in Int /\ r.value < IntBlank /\ v \in Int /\ v < IntBlank
      BY <3>1, MilliBelowBlank
    <3>3. (v * Milli) \div Milli = v
      BY <3>2, DivExact
    <3>4. Reading(f, r) = v /\ Stored(f, r) = v
      BY <1>3, <2>3, <3>1, <3>2, <3>3 DEF Reading, Stored
    <3> QED
      BY <2>2, <3>2, <3>4 DEF CanShow
  <2>4. CASE r.type = "double"
    <3>1. r.value \in Int /\ r.value < IntBlank /\ r.type # "int64"
      BY <2>1, <2>4
    <3>2. Reading(f, r) = r.value /\ Stored(f, r) = r.value
      BY <1>3, <2>4, <3>1 DEF Reading, Stored
    <3> QED
      BY <2>2, <3>1, <3>2 DEF CanShow
  <2> QED
    BY <2>1, <2>3, <2>4
<1>4. CASE r.status = "ok" /\ r.value # IntBlank /\ f \in DcgmU64
  <2>1. Unavailable(f) = U64Max /\ f \notin DcgmDbl /\ f \notin DcgmU32
    BY <1>4 DEF Unavailable
  <2>2. r.value \in (1 .. MaxPolls) \cup {-1, -2}
    BY <1>0, <1>4 DEF Reply
  <2>3. Reading(f, r) = r.value /\ r.value # -2
    BY <1>4, <2>1, <2>2 DEF Reading
  <2>4. r.value < IntBlank /\ Stored(f, r) = r.value % (U64Max + 1)
    BY <1>4, <2>1, <2>2 DEF Stored
  <2>5. CASE r.value = -1
    <3>1. (-1) % (U64Max + 1) = U64Max
      OBVIOUS
    <3> QED
      BY <2>1, <2>3, <2>4, <2>5, <3>1, <1>4 DEF CanShow
  <2>6. CASE r.value \in 1 .. MaxPolls
    <3>1. r.value \in Int /\ 0 <= r.value /\ r.value < U64Max
      BY <2>4, <2>6
    <3>2. r.value % (U64Max + 1) = r.value
      BY <3>1, ModSmall
    <3> QED
      BY <1>4, <2>1, <2>3, <2>4, <3>1, <3>2 DEF CanShow
  <2> QED
    BY <2>2, <2>3, <2>5, <2>6
<1>5. CASE r.status = "ok" /\ r.value # IntBlank /\ f \in DcgmU32
  <2>1. Unavailable(f) = U32Max /\ f \notin DcgmDbl /\ f \notin DcgmU64
    BY <1>5 DEF Unavailable
  <2>2. r.value \in (1 .. MaxPolls) \cup {-1, -2, U32Max, U32Max + 1}
    BY <1>0, <1>5 DEF Reply
  <2>3. Reading(f, r) = r.value
    BY <1>5, <2>1 DEF Reading
  <2>4. r.value < IntBlank
    BY <1>5, <2>2 
  <2> QED
    BY <1>5, <2>1, <2>2, <2>3, <2>4 DEF CanShow, Stored
<1> QED
  BY <1>1, <1>2, <1>3, <1>4, <1>5

-----------------------------------------------------------------------------
(* The invariant of the cycle.                                             *)

\* What is in the state is what the libraries said, and nothing else.
StateAsSaid ==
  /\ state["ecc_dbe_aggregate"] = poll
  /\ \A f \in NvmlOptional \ DcgmField :
       state[f] = IF f \in got THEN poll ELSE IF f = "fan_speed_pct" THEN -1 ELSE 0
  /\ \A f \in DcgmField :
       ~ (f \in DcgmU64 /\ said[f] < -1) =>
         state[f] = IF CanShow(f, said[f]) THEN said[f]
                    ELSE IF f \in got THEN poll ELSE 0

CycleInv ==
  /\ RingInv
  /\ poll \in Sample
  /\ refreshed \in 0 .. MaxPolls
  /\ phase \in {"idle", "nvml", "dcgm", "publish", "published"}
  /\ phase = "nvml" => sample = NoSample /\ state = ZeroState /\ got = {}
  /\ phase \in {"nvml", "dcgm"} => said = Nothing
  /\ phase \in {"dcgm", "publish", "published"} => sample = poll /\ StateAsSaid
  /\ phase = "published" => snapshot.ring = poll /\ snapshot.state = state

\* An idle thread with an empty ring.
LEMMA CycleInvInit == PollInit => CycleInv
BY TelemetryAssumption, RingInvInit DEF PollInit, CycleInv

\* A blank is no reading.
LEMMA NothingToShow ==
  \A f \in DcgmField : Nothing[f] = IntBlank /\ ~ CanShow(f, Nothing[f])
BY TelemetryAssumption DEF Nothing, CanShow

\* do_nvml_poll fills zeroed locals, and goes on only if it made every call.
LEMMA NvmlStep ==
  ASSUME CycleInv, NvmlPoll
  PROVE  CycleInv'
<1>1. PICK ok \in SUBSET NvmlOptional, stop \in NvmlRequired \cup {"return"} :
        do_nvml_poll(ok, stop)
  BY DEF NvmlPoll
<1>2. /\ phase = "nvml" /\ poll' = poll /\ snapshot' = snapshot
      /\ phase' = IF stop = "return" THEN "dcgm" ELSE "idle"
      /\ RingInv' /\ refreshed' = refreshed /\ said' = Nothing
  BY <1>1 DEF do_nvml_poll, CycleInv, ringVars, RingInv, TypeOK, FillsInOrder
<1>3. state = ZeroState
  BY <1>2 DEF CycleInv
<1>4. ASSUME stop = "return"
      PROVE  sample' = poll /\ StateAsSaid'
  <2>1. \A c \in NvmlOptional \cup NvmlRequired :
          Done(c, ok, stop) <=> c \in ok \cup NvmlRequired
    BY <1>4, ReturnIsLast DEF Done
  <2>2. sample' = poll
    BY <1>1, <2>1 DEF do_nvml_poll, NvmlRequired
  <2>3. got' = ok
    BY <1>1, <2>1 DEF do_nvml_poll
  <2>4. state'["ecc_dbe_aggregate"] = poll
    BY <1>1, <2>1 DEF do_nvml_poll, NvmlRequired, NvmlOptional, StateField
  <2>5. ASSUME NEW f \in NvmlOptional
        PROVE  state'[f] = IF f \in ok THEN poll
                           ELSE IF f = "fan_speed_pct" THEN -1 ELSE 0
    <3>1. Position[f] < Position[stop] /\ f \in StateField /\ f \notin NvmlRequired
      BY <1>4, ReturnIsLast DEF StateField, NvmlOptional, NvmlRequired
    <3>2. state[f] = 0
      BY <1>3, <3>1 DEF ZeroState
    <3>3. Done(f, ok, stop) <=> f \in ok
      BY <2>1, <3>1
    <3> QED
      BY <1>1, <3>1, <3>2, <3>3 DEF do_nvml_poll
  <2>6. ASSUME NEW f \in DcgmField
        PROVE  state'[f] = (IF f \in ok THEN poll ELSE 0) /\ f # "fan_speed_pct"
    <3>1. /\ f \in StateField /\ f # "ecc_dbe_aggregate" /\ f # "fan_speed_pct"
      BY DEF StateField, DcgmField, DcgmDbl, DcgmU64, DcgmU32
    <3>2. CASE f \notin NvmlOptional
      BY <1>1, <1>3, <3>1, <3>2 DEF do_nvml_poll, ZeroState
    <3>3. CASE f \in NvmlOptional
      BY <2>5, <3>1, <3>3
    <3> QED
      BY <3>2, <3>3
  <2>7. \A f \in DcgmField : ~ CanShow(f, said'[f])
    BY <1>2, NothingToShow
  <2> QED
    BY <1>2, <2>2, <2>3, <2>4, <2>5, <2>6, <2>7 DEF StateAsSaid
<1> QED
  BY <1>2, <1>4 DEF CycleInv

\* apply_dcgm_state overwrites what DCGM reported and keeps the rest.
LEMMA DcgmStep ==
  ASSUME CycleInv, DcgmPoll
  PROVE  CycleInv'
<1>1. /\ phase = "dcgm" /\ phase' = "publish"
      /\ UNCHANGED << poll, sample, snapshot, got >>
      /\ RingInv' /\ StateAsSaid /\ said = Nothing /\ sample = poll
      /\ refreshed' \in 0 .. MaxPolls
  BY TelemetryAssumption
  DEF DcgmPoll, UpdateAllFields, CycleInv, ringVars, RingInv, TypeOK, FillsInOrder
<1>2. PICK values :
        /\ \A f \in DcgmField : values[f] \in Reply(f, refreshed')
        /\ state' = apply_dcgm_state([f \in DcgmField |-> Stored(f, values[f])])
        /\ said' = [f \in DcgmField |-> Reading(f, values[f])]
  <2>1. PICK power \in Reply("board_power_w", refreshed'),
             replay \in Reply("pcie_replay_count", refreshed'),
             remap \in Reply("row_remap_failures", refreshed') :
          LET v == [f \in DcgmField |->
                      CASE f = "board_power_w" -> power
                        [] f = "pcie_replay_count" -> replay
                        [] f = "row_remap_failures" -> remap]
          IN  /\ state' = apply_dcgm_state([f \in DcgmField |-> Stored(f, v[f])])
              /\ said' = [f \in DcgmField |-> Reading(f, v[f])]
    BY DEF DcgmPoll
  <2> DEFINE v == [f \in DcgmField |->
                     CASE f = "board_power_w" -> power
                       [] f = "pcie_replay_count" -> replay
                       [] f = "row_remap_failures" -> remap]
  <2>2. \A f \in DcgmField : v[f] \in Reply(f, refreshed')
    BY DEF DcgmField, DcgmDbl, DcgmU64, DcgmU32
  <2>3. /\ state' = apply_dcgm_state([f \in DcgmField |-> Stored(f, v[f])])
        /\ said' = [f \in DcgmField |-> Reading(f, v[f])]
    BY <2>1
  <2> HIDE DEF v
  <2> QED
    BY <2>2, <2>3, Zenon
<1> DEFINE out == [f \in DcgmField |-> Stored(f, values[f])]
<1>3. \A f \in StateField : state'[f] = IF f \in DcgmField /\ out[f] # Unavailable(f)
                                        THEN out[f] ELSE state[f]
  BY <1>2 DEF apply_dcgm_state
<1>4. state'["ecc_dbe_aggregate"] = poll
  BY <1>1, <1>3 DEF StateAsSaid, StateField, DcgmField, DcgmDbl, DcgmU64, DcgmU32
<1>5. ASSUME NEW f \in DcgmField, ~ (f \in DcgmU64 /\ said'[f] < -1)
      PROVE  state'[f] = IF CanShow(f, said'[f]) THEN said'[f]
                         ELSE IF f \in got' THEN poll ELSE 0
  <2>1. /\ out[f] = Stored(f, values[f]) /\ f \in StateField
        /\ said'[f] = Reading(f, values[f])
    BY <1>2 DEF StateField
  <2>2. CASE CanShow(f, said'[f])
    <3>1. out[f] = said'[f] /\ out[f] # Unavailable(f)
      BY <1>1, <1>2, <1>5, <2>1, <2>2, StoredReading
    <3> QED
      BY <1>3, <2>1, <2>2, <3>1
  <2>3. CASE ~ CanShow(f, said'[f])
    <3>1. out[f] = Unavailable(f)
      BY <1>1, <1>2, <1>5, <2>1, <2>3, StoredReading
    <3>2. state'[f] = state[f]
      BY <1>3, <2>1, <3>1
    <3>3. state[f] = IF f \in got THEN poll ELSE 0
      <4>1. said[f] = IntBlank /\ ~ CanShow(f, said[f])
        BY <1>1, NothingToShow
      <4>2. ~ (said[f] < -1)
        BY <4>1, TelemetryAssumption
      <4> QED
        BY <1>1, <4>1, <4>2 DEF StateAsSaid
    <3> QED
      BY <1>1, <2>3, <3>2, <3>3
  <2> QED
    BY <2>2, <2>3
<1>6. ASSUME NEW f \in NvmlOptional \ DcgmField
      PROVE  state'[f] = IF f \in got' THEN poll
                         ELSE IF f = "fan_speed_pct" THEN -1 ELSE 0
  <2>1. state'[f] = state[f] /\ got' = got
    BY <1>1, <1>3 DEF StateField
  <2> QED
    BY <1>1, <2>1 DEF StateAsSaid
<1>7. StateAsSaid'
  BY <1>1, <1>4, <1>5, <1>6 DEF StateAsSaid
<1> QED
  BY <1>1, <1>7 DEF CycleInv

\* snapshot_update finds the sample that was just pushed in the slot behind
\* head, also when head has wrapped.
LEMMA PublishStep ==
  ASSUME CycleInv, Publish
  PROVE  CycleInv' /\ sample \in Sample
<1> USE CapacityAssumption
<1>1. /\ phase = "publish" /\ StateAsSaid /\ sample = poll /\ sample \in Sample
      /\ ring_push(sample)
  BY DEF Publish, CycleInv
<1>2. RingInv'
  BY <1>1, RingInvStep DEF CycleInv, Next
<1>3. head \in Index /\ head' = IF head + 1 = Capacity THEN 0 ELSE head + 1
  BY <1>1, HeadAdvances DEF ring_push, CycleInv, RingInv, TypeOK
<1>4. LastIndex' = head
  <2>1. CASE head + 1 = Capacity
    <3>1. (0 - 1 + Capacity) % Capacity = 0 - 1 + Capacity
      BY ModSmall DEF Index
    <3> QED
      BY <1>3, <2>1, <3>1 DEF LastIndex, Index
  <2>2. CASE head + 1 # Capacity
    <3>1. (head + Capacity) % Capacity = head
      BY <1>3, ModWrap DEF Index
    <3>2. head' - 1 + Capacity = head + Capacity
      BY <1>3, <2>2 DEF Index
    <3> QED
      BY <3>1, <3>2 DEF LastIndex
  <2> QED
    BY <2>1, <2>2
<1>5. samples'[head] = sample
  BY <1>1, <1>3 DEF ring_push, CycleInv, RingInv, TypeOK
<1>6. /\ UNCHANGED << poll, sample, state, refreshed, got, said >>
      /\ phase' = "published" /\ snapshot'.ring = poll /\ snapshot'.state = state
  BY <1>1, <1>4, <1>5 DEF Publish
<1>7. StateAsSaid'
  BY <1>1, <1>6 DEF StateAsSaid
<1> QED
  BY <1>1, <1>2, <1>6, <1>7 DEF CycleInv

\* Every step of the cycle keeps the invariant.
LEMMA CycleInvStep == CycleInv /\ [PollNext]_pollVars => CycleInv'
<1> SUFFICES ASSUME CycleInv, [PollNext]_pollVars PROVE CycleInv'
  OBVIOUS
<1>1. CASE BeginCycle
  <2>1. poll' \in Sample
    BY <1>1, TelemetryAssumption DEF BeginCycle, CycleInv
  <2> QED
    BY <1>1, <2>1 DEF BeginCycle, CycleInv, ringVars, RingInv, TypeOK, FillsInOrder
<1>2. CASE NoDcgm
  <2>1. refreshed' \in 0 .. MaxPolls
    BY <1>2, TelemetryAssumption DEF NoDcgm, UpdateAllFields, CycleInv
  <2> QED
    BY <1>2, <2>1 DEF NoDcgm, CycleInv, StateAsSaid, ringVars, RingInv, TypeOK,
                      FillsInOrder
<1>3. CASE UNCHANGED pollVars
  BY <1>3 DEF pollVars, CycleInv, StateAsSaid, ringVars, RingInv, TypeOK,
              FillsInOrder
<1> QED
  BY <1>1, <1>2, <1>3, NvmlStep, DcgmStep, PublishStep DEF PollNext

-----------------------------------------------------------------------------
\* The locals, the ring and the snapshot agree on the poll in every cycle.
THEOREM CycleInvariant == PollSpec => []CycleInv
BY CycleInvInit, CycleInvStep, PTL DEF PollSpec

(***************************************************************************)
(* A published field is what DCGM said, else what NVML said in the same    *)
(* poll, else no reading, whatever mixture of errors, blanks, negatives    *)
(* and over-long values they answer with and however often the refresh     *)
(* fails; a negative uint64_t is excepted (collector.c:263-290,            *)
(* dcgm.c:233-340).                                                        *)
(***************************************************************************)
THEOREM OnlyReportedIsShown == PollSpec => []ShownAsReported
<1>1. CycleInv => ShownAsReported
  <2> SUFFICES ASSUME CycleInv, phase = "published" PROVE ShownAsReported
    BY DEF ShownAsReported
  <2>1. StateAsSaid /\ snapshot.ring = poll /\ snapshot.state = state
    BY DEF CycleInv
  <2>2. \A f \in DcgmField : f # "fan_speed_pct"
    BY DEF DcgmField, DcgmDbl, DcgmU64, DcgmU32
  <2> QED
    BY <2>1, <2>2 DEF StateAsSaid, ShownAsReported, NotReported
<1> QED
  BY <1>1, CycleInvariant, PTL

(***************************************************************************)
(* The poll thread touches its ring in no other way than by pushing the    *)
(* sample of a poll that succeeded: its behaviours are behaviours of       *)
(* module Ring.                                                            *)
(***************************************************************************)
THEOREM PollUsesRing == PollSpec => Spec
<1>1. PollInit => Init
  BY DEF PollInit
<1>2. CycleInv /\ [PollNext]_pollVars => [Next]_vars
  <2> SUFFICES ASSUME CycleInv, [PollNext]_pollVars
               PROVE  Next \/ UNCHANGED vars
    OBVIOUS
  <2>1. CASE Publish
    BY <2>1, PublishStep DEF Publish, Next
  <2>2. CASE UNCHANGED ringVars
    BY <2>2 DEF ringVars, vars
  <2>3. Publish \/ UNCHANGED ringVars
    BY DEF PollNext, BeginCycle, NvmlPoll, do_nvml_poll, DcgmPoll, NoDcgm, pollVars
  <2> QED
    BY <2>1, <2>2, <2>3
<1> QED
  BY <1>1, <1>2, CycleInvariant, PTL DEF PollSpec, Spec

(***************************************************************************)
(* In the thread as well, a scan of the ring sees the last Capacity        *)
(* samples of successful polls, oldest first, after any number of wraps.   *)
(***************************************************************************)
THEOREM PollKeepsWindow == PollSpec => ImplementsWindow
BY PollUsesRing, RingImplementsWindow, PTL
=============================================================================
