-------------------------------- MODULE Ring --------------------------------
(***************************************************************************)
(* The per-GPU ring buffer: gpu_ring_t of types.h, ring_push of            *)
(* collector.c, and the index arithmetic with which scorer.c and           *)
(* snapshot.c read it.  A sample is an opaque value: nothing here depends  *)
(* on its fields.                                                          *)
(***************************************************************************)
EXTENDS Integers, Sequences

CONSTANTS
  Sample,    \* the samples a poll can produce
  NoSample,  \* the zeroed slot that calloc leaves
  Capacity   \* ring->capacity, window_s / poll_interval_s and at least 1

ASSUME CapacityAssumption == Capacity \in Nat \ {0}
ASSUME SampleAssumption == NoSample \notin Sample

VARIABLES
  samples,   \* ring->samples, indexed 0 .. Capacity - 1
  head,      \* ring->head, the next slot to write
  count      \* ring->count, the number of valid slots

vars == << samples, head, count >>

Index == 0 .. Capacity - 1

-----------------------------------------------------------------------------
(* Mutated forms, used to confirm that the properties below can fail.      *)

ring_push_WrapLate(s) ==
  /\ samples' = [samples EXCEPT ![head] = s]
  /\ head' = IF head + 1 = Capacity THEN 0 ELSE head + 1
  /\ count' = IF head + 1 < Capacity THEN count + 1 ELSE count

-----------------------------------------------------------------------------
(* Readers.  i is a logical index: 0 is the oldest sample of the window.   *)

\* The ring position of logical index i, as every loop of scorer.c finds it.
SampleIndex(i) == (head - count + i + Capacity) % Capacity

\* sample_field: the sample at logical index i.
SampleAt(i) == samples[SampleIndex(i)]

\* The newest slot, which snapshot_update publishes.
LastIndex == (head - 1 + Capacity) % Capacity

\* What a full scan of the ring (ring_mean, ring_stddev, ring_p95) visits.
Contents == [i \in 1 .. count |-> SampleAt(i - 1)]

-----------------------------------------------------------------------------
Init ==
  /\ samples = [i \in Index |-> NoSample]
  /\ head = 0
  /\ count = 0

ring_push(s) ==
  /\ samples' = [samples EXCEPT ![head] = s]
  /\ head' = (head + 1) % Capacity
  /\ count' = IF count < Capacity THEN count + 1 ELSE count

Next == \E s \in Sample : ring_push(s)

Spec == Init /\ [][Next]_vars

-----------------------------------------------------------------------------
TypeOK ==
  /\ samples \in [Index -> Sample \cup {NoSample}]
  /\ head \in Index
  /\ count \in 0 .. Capacity

(***************************************************************************)
(* The inductive invariant: until the ring has filled, head and count move *)
(* together, and every slot below count has been written.                  *)
(***************************************************************************)
FillsInOrder ==
  /\ count < Capacity => head = count
  /\ \A i \in Index : i < count => samples[i] \in Sample

RingInv == TypeOK /\ FillsInOrder

(***************************************************************************)
(* The window never shows a slot that no poll has written: every logical   *)
(* index below count resolves to a pushed sample.  ring_push advances head *)
(* and count independently and the readers derive positions from both, so  *)
(* a wrap handled differently by the two would expose a zeroed slot.       *)
(***************************************************************************)
NoUnwrittenSlotVisible == \A i \in 0 .. count - 1 : SampleAt(i) \in Sample

(***************************************************************************)
(* The ring implements the sliding window: what a scan visits is the last  *)
(* Capacity samples pushed by ring_push, oldest first, after any number of *)
(* wraps.                                                                  *)
(***************************************************************************)
W == INSTANCE Window WITH window <- Contents

ImplementsWindow == W!Spec
=============================================================================
