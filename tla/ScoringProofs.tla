--------------------------- MODULE ScoringProofs ---------------------------
(***************************************************************************)
(* The statistics of scorer.c for windows of every length and content, and *)
(* what follows for the scorer over time: nearest ranks, regular telemetry *)
(* and the double-bit errors of the window.                                *)
(***************************************************************************)
EXTENDS ScoreHistory, FiniteSetTheorems, WellFoundedInduction, TLAPS

(***************************************************************************)
(* ring_p95 indexes a sorted array of n values with rank - 1: the rank is  *)
(* within the array for every n, at least 95 of 100 samples have a rank up *)
(* to it, and of no smaller rank that is true.  So the clamps of           *)
(* scorer.c:90-91 never act and the index never leaves the buffer.         *)
(***************************************************************************)
THEOREM RankIsNearest ==
  \A n \in Nat \ {0} :
    /\ Rank(n) \in 1 .. n
    /\ 95 * n <= 100 * Rank(n)
    /\ 100 * (Rank(n) - 1) < 95 * n
<1> SUFFICES ASSUME NEW n \in Nat \ {0}
             PROVE  /\ Rank(n) \in 1 .. n
                    /\ 95 * n <= 100 * Rank(n)
                    /\ 100 * (Rank(n) - 1) < 95 * n
  OBVIOUS
<1> DEFINE r == (95 * n + 99) \div 100
<1>1. /\ r \in Int
      /\ 100 * r <= 95 * n + 99
      /\ 95 * n + 99 < 100 * r + 100
  OBVIOUS
<1> HIDE DEF r
<1>2. 1 <= r /\ r <= n
  BY <1>1
<1>3. Rank(n) = r
  BY <1>1, <1>2 DEF Rank, r
<1> QED
  BY <1>1, <1>2, <1>3

-----------------------------------------------------------------------------
(* Sorted: the k-th value of a sequence, as a value with fewer than k      *)
(* values below it and at least k that it is not below.                    *)

\* A set of naturals that is not empty has a least element.
LEMMA LeastNat ==
  ASSUME NEW T, T \subseteq Nat, T # {}
  PROVE  \E m \in T : \A n \in T : m <= n
<1>1. PICK m \in T : \A n \in T : ~ (<< n, m >> \in OpToRel(<, Nat))
  BY NatLessThanWellFounded, WFMin, Zenon
<1>2. ASSUME NEW n \in T PROVE m <= n
  <2>1. ~ (n < m)
    BY <1>1 DEF OpToRel
  <2> QED
    BY <2>1
<1> QED
  BY <1>2

\* The positions of a sequence with values below v, and not above v.
Below(s, v) == {i \in DOMAIN s : s[i] < v}
UpTo(s, v) == {i \in DOMAIN s : s[i] <= v}

\* Positions can be counted.
LEMMA PositionsFinite ==
  ASSUME NEW s, NEW n \in Nat, s \in [1 .. n -> Int], NEW S, S \subseteq DOMAIN s
  PROVE  /\ IsFiniteSet(S) /\ Cardinality(S) \in 0 .. n
         /\ Cardinality(DOMAIN s) = n
<1> DEFINE U == 1 .. n
<1>1. IsFiniteSet(U) /\ Cardinality(U) = n
  BY FS_Interval
<1>2. S \in SUBSET U /\ DOMAIN s = U
  OBVIOUS
<1> HIDE DEF U
<1>3. IsFiniteSet(S) /\ Cardinality(S) <= n
  BY <1>1, <1>2, FS_Subset
<1>4. Cardinality(S) \in Nat
  BY <1>3, FS_CardinalityType
<1> QED
  BY <1>1, <1>2, <1>3, <1>4

\* A larger set of positions has a larger count.
LEMMA CountMonotone ==
  ASSUME NEW s, NEW n \in Nat, s \in [1 .. n -> Int],
         NEW S, NEW T, S \subseteq T, T \subseteq DOMAIN s
  PROVE  /\ Cardinality(S) <= Cardinality(T)
         /\ S # T => Cardinality(S) < Cardinality(T)
<1>1. IsFiniteSet(T) /\ Cardinality(T) \in Nat /\ Cardinality(S) \in Nat
  <2>1. S \subseteq DOMAIN s
    OBVIOUS
  <2>2. IsFiniteSet(T) /\ Cardinality(T) \in 0 .. n
    BY PositionsFinite
  <2>3. Cardinality(S) \in 0 .. n
    BY <2>1, PositionsFinite
  <2> QED
    BY <2>2, <2>3
<1>2. S \in SUBSET T
  OBVIOUS
<1>3. Cardinality(S) <= Cardinality(T) /\ (Cardinality(T) = Cardinality(S) => T = S)
  BY <1>1, <1>2, FS_Subset
<1> QED
  BY <1>1, <1>3

(***************************************************************************)
(* There is a k-th value in every sequence of at least k integers, so that *)
(* what Sorted chooses has the properties by which it is chosen.           *)
(***************************************************************************)
LEMMA SortedExists ==
  ASSUME NEW s, NEW n \in Nat \ {0}, s \in [1 .. n -> Int], NEW k \in 1 .. n
  PROVE  /\ \E i \in DOMAIN s : s[i] = Sorted(s, k)
         /\ Cardinality(Below(s, Sorted(s, k))) < k
         /\ k <= Cardinality(UpTo(s, Sorted(s, k)))
<1> DEFINE V == {s[i] : i \in DOMAIN s}
           C(v) == Cardinality(UpTo(s, v))
<1>0. \A v : UpTo(s, v) \subseteq DOMAIN s /\ Below(s, v) \subseteq DOMAIN s
  BY DEF UpTo, Below
<1>1. \A v : C(v) \in 0 .. n /\ Cardinality(Below(s, v)) \in 0 .. n
  BY <1>0, PositionsFinite
\* A value that bounds them all: with the most positions up to it.
<1>2. \E v \in V : k <= C(v)
  <2> DEFINE T == {n - C(v) : v \in V}
  <2>1. T \subseteq Nat /\ T # {}
    <3>1. s[1] \in V
      OBVIOUS
    <3> HIDE DEF V, C
    <3>2. \A v \in V : n - C(v) \in Nat
      BY <1>1
    <3> QED
      BY <3>1, <3>2
  <2>2. PICK m \in T : \A t \in T : m <= t
    BY <2>1, LeastNat
  <2>3. PICK v \in V : m = n - C(v)
    OBVIOUS
  <2>4. \A u \in V : C(u) <= C(v)
    <3> SUFFICES ASSUME NEW u \in V PROVE C(u) <= C(v)
      OBVIOUS
    <3>1. n - C(v) <= n - C(u)
      BY <2>2, <2>3
    <3> QED
      BY <1>1, <3>1
  <2>5. UpTo(s, v) = DOMAIN s
    <3> SUFFICES ASSUME NEW i \in DOMAIN s, ~ (s[i] <= v) PROVE FALSE
      BY DEF UpTo
    <3>1. v \in Int /\ s[i] \in Int /\ v < s[i]
      OBVIOUS
    <3>2. UpTo(s, v) \subseteq UpTo(s, s[i]) /\ i \in UpTo(s, s[i]) /\ i \notin UpTo(s, v)
      BY <3>1 DEF UpTo
    <3>3. C(v) < C(s[i])
      BY <1>0, <3>2, CountMonotone
    <3>4. C(s[i]) <= C(v)
      BY <2>4
    <3> HIDE DEF C
    <3>5. C(v) \in Int /\ C(s[i]) \in Int
      BY <1>1
    <3> QED
      BY <3>3, <3>4, <3>5
  <2>6. C(v) = n
    BY <2>5, PositionsFinite
  <2> QED
    BY <2>6
\* Among the values that reach k, the one with the fewest positions up to it.
<1> DEFINE R == {v \in V : k <= C(v)}
           T == {C(v) : v \in R}
<1>3. T \subseteq Nat /\ T # {}
  BY <1>1, <1>2
<1>4. PICK m \in T : \A t \in T : m <= t
  BY <1>3, LeastNat
<1>5. PICK v \in R : m = C(v)
  OBVIOUS
<1>6. \A u \in R : C(v) <= C(u)
  BY <1>4, <1>5
<1>7. Cardinality(Below(s, v)) < k
  <2> SUFFICES ASSUME k <= Cardinality(Below(s, v)) PROVE FALSE
    BY <1>1
  \* Of the values below v, the one with the most positions up to it.
  <2> DEFINE B == {u \in V : u < v}
             D == {n - C(u) : u \in B}
  <2>1. Below(s, v) # {}
    <3> SUFFICES ASSUME Below(s, v) = {} PROVE FALSE
      OBVIOUS
    <3>1. Cardinality({}) = 0
      BY FS_EmptySet
    <3>2. Cardinality(Below(s, v)) = 0
      BY <3>1
    <3> QED
      BY <3>2
  <2>2. D \subseteq Nat /\ D # {}
    <3>1. PICK i \in Below(s, v) : TRUE
      BY <2>1
    <3>2. s[i] \in B
      BY <3>1 DEF Below
    <3> HIDE DEF B, C
    <3>3. \A u \in B : n - C(u) \in Nat
      BY <1>1, SMTT(30)
    <3> QED
      BY <3>2, <3>3
  <2>3. PICK d \in D : \A t \in D : d <= t
    BY <2>2, LeastNat
  <2>4. PICK u \in B : d = n - C(u)
    OBVIOUS
  <2>5. \A w \in B : C(w) <= C(u)
    <3> SUFFICES ASSUME NEW w \in B PROVE C(w) <= C(u)
      OBVIOUS
    <3> HIDE DEF B, C
    <3>1. n - C(u) <= n - C(w)
      <4>1. n - C(w) \in D
        OBVIOUS
      <4> HIDE DEF D
      <4> QED
        BY <2>3, <2>4, <4>1
    <3>2. C(u) \in Int /\ C(w) \in Int
      BY <1>1, SMTT(30)
    <3> QED
      BY <3>1, <3>2
  <2>6. Below(s, v) = UpTo(s, u)
    <3>1. ASSUME NEW i \in Below(s, v), ~ (s[i] <= u) PROVE FALSE
      <4>1. i \in DOMAIN s /\ s[i] \in B /\ s[i] \in Int /\ u \in Int /\ u < s[i]
        BY <3>1 DEF Below
      <4>2. UpTo(s, u) \subseteq UpTo(s, s[i]) /\ i \in UpTo(s, s[i]) /\ i \notin UpTo(s, u)
        BY <4>1 DEF UpTo
      <4>3. C(u) < C(s[i])
        BY <1>0, <4>2, CountMonotone
      <4> HIDE DEF B, C
      <4>4. C(u) \in Int /\ C(s[i]) \in Int
        BY <1>1
      <4>5. C(s[i]) <= C(u)
        BY <2>5, <4>1
      <4> QED
        BY <4>3, <4>4, <4>5
    <3>2. UpTo(s, u) \subseteq Below(s, v)
      BY DEF UpTo, Below
    <3> QED
      BY <3>1, <3>2 DEF UpTo, Below
  <2>7. u \in R /\ C(v) <= C(u)
    BY <1>6, <2>6
  <2>8. UpTo(s, u) \subseteq UpTo(s, v) /\ UpTo(s, u) # UpTo(s, v)
    <3>1. PICK i \in DOMAIN s : s[i] = v
      OBVIOUS
    <3>2. i \in UpTo(s, v) /\ i \notin UpTo(s, u)
      BY <3>1 DEF UpTo
    <3>3. UpTo(s, u) \subseteq UpTo(s, v)
      BY DEF UpTo
    <3> QED
      BY <3>2, <3>3
  <2>9. C(u) < C(v)
    BY <1>0, <2>8, CountMonotone
  <2> HIDE DEF C
  <2>10. C(u) \in Int /\ C(v) \in Int
    BY <1>1
  <2> QED
    BY <2>7, <2>9, <2>10
<1> HIDE DEF V
<1>8. \E w \in V : /\ Cardinality({i \in DOMAIN s : s[i] < w}) < k
                   /\ k <= Cardinality({i \in DOMAIN s : s[i] <= w})
  BY <1>5, <1>7 DEF Below, UpTo
<1>9. Sorted(s, k) = CHOOSE w \in V : /\ Cardinality({i \in DOMAIN s : s[i] < w}) < k
                                      /\ k <= Cardinality({i \in DOMAIN s : s[i] <= w})
  BY DEF Sorted, V
<1>10. /\ Sorted(s, k) \in V
       /\ Cardinality({i \in DOMAIN s : s[i] < Sorted(s, k)}) < k
       /\ k <= Cardinality({i \in DOMAIN s : s[i] <= Sorted(s, k)})
  BY <1>8, <1>9
<1> QED
  BY <1>10 DEF Below, UpTo, V

-----------------------------------------------------------------------------
(* The window.                                                             *)

PushedSample == [t : Nat, temp : Nat, dbe : Nat]

\* The ring has at least one slot: the clamp of collector.c:468 never acts.
LEMMA CapacityPositive == Expected \in Nat \ {0}
<1> DEFINE w == cfg.window_s
           p == cfg.poll_interval_s
<1>1. w \in Nat /\ p \in Nat \ {0} /\ w >= p
  BY HistoryAssumption
<1> HIDE DEF w, p
<1>2. w \div p \in Nat \ {0}
  BY <1>1
<1> QED
  BY <1>2 DEF Expected, w, p

\* After a push the window ends with the new sample; before it come the old
\* ones in their order, without the oldest if the ring was full.
LEMMA PushEffect ==
  ASSUME window \in Seq(PushedSample), NEW s \in PushedSample, Window!Push(s)
  PROVE  /\ window' \in Seq(PushedSample)
         /\ Len(window') >= 1 /\ window'[Len(window')] = s
         /\ \E o \in {0, 1} : \A i \in 1 .. Len(window') - 1 :
              i + o \in DOMAIN window /\ window'[i] = window[i + o]
<1> DEFINE base == IF Len(window) < Expected THEN window ELSE Tail(window)
<1>1. PICK o \in {0, 1} : /\ base \in Seq(PushedSample) /\ Len(base) = Len(window) - o
                          /\ \A i \in 1 .. Len(base) : base[i] = window[i + o]
  <2>1. CASE Len(window) < Expected
    BY <2>1
  <2>2. CASE ~ (Len(window) < Expected)
    <3>1. Len(window) >= 1
      BY <2>2, CapacityPositive
    <3>2. /\ base = Tail(window) /\ base \in Seq(PushedSample)
          /\ Len(base) = Len(window) - 1
          /\ \A i \in 1 .. Len(base) : base[i] = window[i + 1]
      BY <2>2, <3>1
    <3> QED
      BY <3>2
  <2> QED
    BY <2>1, <2>2
<1>2. window' = Append(base, s)
  BY DEF Window!Push
<1> HIDE DEF base
<1>3. /\ window' \in Seq(PushedSample) /\ Len(window') = Len(base) + 1
      /\ window'[Len(window')] = s
      /\ \A i \in 1 .. Len(base) : window'[i] = base[i]
  BY <1>1, <1>2
<1>4. ASSUME NEW i \in 1 .. Len(window') - 1
      PROVE  i + o \in DOMAIN window /\ window'[i] = window[i + o]
  <2>1. i \in 1 .. Len(base) /\ Len(base) = Len(window) - o /\ Len(window) \in Nat
    BY <1>1, <1>3
  <2>2. i + o \in 1 .. Len(window)
    BY <2>1
  <2>3. window'[i] = base[i] /\ base[i] = window[i + o]
    BY <1>1, <1>3, <2>1
  <2> QED
    BY <2>2, <2>3
<1> QED
  BY <1>1, <1>3, <1>4

\* No reload of the driver between the instants a and b.
NoReload(a, b) == ~ (a <= reload_time /\ reload_time < b)

\* The volatile counter stood at m at the instant a and stands at n at b: it
\* has grown exactly if a double-bit error happened in between.
Counts(a, m, b, n) ==
  /\ n >= m
  /\ n > m <=> \E t \in dbe_times : a <= t /\ t < b

Clocks ==
  /\ now \in Nat /\ dbe \in Nat
  /\ dbe_times \subseteq Nat /\ \A t \in dbe_times : t <= now
  /\ reload_time \in Int /\ reload_time <= now

Ordered ==
  /\ window \in Seq(PushedSample)
  /\ \A i \in DOMAIN window : window[i].t <= now
  /\ \A i, j \in DOMAIN window : i < j => window[i].t < window[j].t

\* Any two samples, and any sample and the present, are related by Counts.
CountersAgree ==
  /\ \A i \in DOMAIN window : NoReload(window[i].t, now + 1) =>
       Counts(window[i].t, window[i].dbe, now + 1, dbe)
  /\ \A i, j \in DOMAIN window : i < j /\ NoReload(window[i].t, window[j].t) =>
       Counts(window[i].t, window[i].dbe, window[j].t, window[j].dbe)

\* The last result is that of the window as it is.
ScoredWindow ==
  IF window = << >> THEN ~ scored.telemetry_ok
  ELSE \E memory \in BOOLEAN :
         scored = score_gpu(completeness_gate(window), SignalsOf(window, memory))

ScoreHistoryInv == Clocks /\ Ordered /\ CountersAgree /\ ScoredWindow

\* An empty window at time 0.
LEMMA ScoreHistoryInit == HistoryInit => ScoreHistoryInv
<1> SUFFICES ASSUME HistoryInit PROVE ScoreHistoryInv
  OBVIOUS
<1>1. Clocks /\ Ordered /\ CountersAgree
  BY DEF HistoryInit, Clocks, Ordered, CountersAgree
<1>2. ScoredWindow
  BY DEF HistoryInit, ScoredWindow, score_gpu
<1> QED
  BY <1>1, <1>2 DEF ScoreHistoryInv

\* The double-bit errors so far have happened by now: a later end of the
\* interval has no more of them.
LEMMA CountsUntilNow ==
  ASSUME Clocks, NEW a, NEW m, Counts(a, m, now + 1, dbe)
  PROVE  Counts(a, m, now + 1 + 1, dbe)
<1>1. \A t \in dbe_times : t < now + 1 /\ t < now + 1 + 1
  BY DEF Clocks
<1>2. (\E t \in dbe_times : a <= t /\ t < now + 1)
        <=> (\E t \in dbe_times : a <= t /\ t < now + 1 + 1)
  BY <1>1, Zenon
<1> QED
  BY <1>2, Zenon DEF Counts

\* A poll appends a sample later than all others, which has the counter of the
\* driver.
LEMMA PollStep ==
  ASSUME ScoreHistoryInv, NEW temp \in Temps, Poll(temp)
  PROVE  ScoreHistoryInv'
<1> USE DEF ScoreHistoryInv
<1> DEFINE s == [t |-> now + 1, temp |-> temp, dbe |-> dbe]
<1>1. /\ now' = now + 1 /\ UNCHANGED << dbe, dbe_times, reload_time >>
      /\ s \in PushedSample /\ Window!Push(s)
  BY HistoryAssumption DEF Poll, PushedSample, Clocks
<1>2. s.t = now + 1 /\ s.dbe = dbe
  OBVIOUS
<1> HIDE DEF s
<1>3. /\ window' \in Seq(PushedSample)
      /\ Len(window') >= 1 /\ window'[Len(window')] = s
  BY <1>1, PushEffect DEF Ordered
<1>4. PICK o \in {0, 1} : \A i \in 1 .. Len(window') - 1 :
        i + o \in DOMAIN window /\ window'[i] = window[i + o]
  BY <1>1, PushEffect DEF Ordered
<1> DEFINE n == Len(window')
<1>5. n \in Nat \ {0} /\ DOMAIN window' = 1 .. n
  BY <1>3
<1> HIDE DEF n
<1>6. \A i \in 1 .. n - 1 : /\ i + o \in DOMAIN window /\ window'[i] = window[i + o]
                            /\ window'[i].t \in Nat /\ window'[i].dbe \in Nat
  <2> SUFFICES ASSUME NEW i \in 1 .. n - 1
               PROVE  /\ i + o \in DOMAIN window /\ window'[i] = window[i + o]
                      /\ window'[i].t \in Nat /\ window'[i].dbe \in Nat
    OBVIOUS
  <2>1. i + o \in DOMAIN window /\ window'[i] = window[i + o]
    BY <1>4 DEF n
  <2>2. window[i + o] \in PushedSample
    BY <2>1 DEF Ordered
  <2> QED
    BY <2>1, <2>2 DEF PushedSample
<1>7. Clocks'
  BY <1>1 DEF Clocks
<1>8. Ordered'
  <2>1. \A i \in 1 .. n : window'[i].t <= now'
    <3> SUFFICES ASSUME NEW i \in 1 .. n PROVE window'[i].t <= now'
      OBVIOUS
    <3>1. CASE i = n
      BY <1>1, <1>2, <1>3, <3>1 DEF Clocks, n
    <3>2. CASE i # n
      <4>1. i \in 1 .. n - 1
        BY <1>5, <3>2
      <4> QED
        BY <1>1, <1>6, <4>1 DEF Clocks, Ordered
    <3> QED
      BY <3>1, <3>2
  <2>2. ASSUME NEW i \in 1 .. n, NEW j \in 1 .. n, i < j
        PROVE  window'[i].t < window'[j].t
    <3>1. i \in 1 .. n - 1
      BY <1>5, <2>2
    <3>2. CASE j = n
      <4>1. window'[j].t = now + 1
        BY <1>2, <1>3, <3>2 DEF n
      <4>2. window'[i].t <= now
        BY <1>6, <3>1 DEF Ordered
      <4> QED
        BY <1>6, <3>1, <4>1, <4>2 DEF Clocks
    <3>3. CASE j # n
      <4>1. j \in 1 .. n - 1 /\ i + o < j + o
        BY <1>5, <2>2, <3>3
      <4> QED
        BY <1>6, <3>1, <4>1 DEF Ordered
    <3> QED
      BY <3>2, <3>3
  <2> QED
    BY <1>3, <1>5, <2>1, <2>2 DEF Ordered
<1>9. CountersAgree'
  <2>1. ASSUME NEW i \in 1 .. n - 1, NoReload(window'[i].t, now + 1)
        PROVE  Counts(window'[i].t, window'[i].dbe, now + 1, dbe)
    BY <1>6, <2>1 DEF CountersAgree
  <2>2. ASSUME NEW i \in 1 .. n, NoReload(window[i].t, now + 1)'
        PROVE  Counts(window[i].t, window[i].dbe, now + 1, dbe)'
    <3>1. CASE i = n
      <4>1. window'[i].t = now' /\ window'[i].dbe = dbe'
        BY <1>1, <1>2, <1>3, <3>1 DEF n
      <4>2. \A t \in dbe_times' : ~ (now' <= t)
        BY <1>1 DEF Clocks
      <4>3. dbe' >= dbe' /\ ~ (dbe' > dbe')
        BY <1>7 DEF Clocks
      <4>4. ~ \E t \in dbe_times' : now' <= t /\ t < now' + 1
        BY <4>2
      <4> QED
        BY <4>1, <4>3, <4>4 DEF Counts
    <3>2. CASE i # n
      <4>1. i \in 1 .. n - 1
        BY <1>5, <3>2
      <4>2. NoReload(window'[i].t, now + 1)
        BY <1>1, <1>6, <2>2, <4>1 DEF NoReload, Clocks
      <4>3. Counts(window'[i].t, window'[i].dbe, now + 1, dbe)
        BY <2>1, <4>1, <4>2
      <4>4. Counts(window'[i].t, window'[i].dbe, now + 1 + 1, dbe)
        BY <4>3, CountsUntilNow
      <4>5. dbe' = dbe /\ dbe_times' = dbe_times /\ now' + 1 = now + 1 + 1
        BY <1>1
      <4> QED
        BY <4>4, <4>5 DEF Counts
    <3> QED
      BY <3>1, <3>2
  <2>3. ASSUME NEW i \in 1 .. n, NEW j \in 1 .. n, i < j,
               NoReload(window[i].t, window[j].t)'
        PROVE  Counts(window[i].t, window[i].dbe, window[j].t, window[j].dbe)'
    <3>1. i \in 1 .. n - 1
      BY <1>5, <2>3
    <3>2. CASE j = n
      <4>1. window'[j].t = now + 1 /\ window'[j].dbe = dbe
        BY <1>2, <1>3, <3>2 DEF n
      <4>2. NoReload(window'[i].t, now + 1)
        BY <1>1, <2>3, <4>1 DEF NoReload
      <4>3. Counts(window'[i].t, window'[i].dbe, now + 1, dbe)
        BY <2>1, <3>1, <4>2
      <4> QED
        BY <1>1, <4>1, <4>3 DEF Counts
    <3>3. CASE j # n
      <4>1. j \in 1 .. n - 1 /\ i + o < j + o
        BY <1>5, <2>3, <3>3
      <4>2. NoReload(window[i + o].t, window[j + o].t)
        BY <1>1, <1>6, <2>3, <3>1, <4>1 DEF NoReload
      <4>3. Counts(window[i + o].t, window[i + o].dbe, window[j + o].t, window[j + o].dbe)
        BY <1>6, <3>1, <4>1, <4>2 DEF CountersAgree
      <4> QED
        BY <1>1, <1>6, <3>1, <4>1, <4>3 DEF Counts
    <3> QED
      BY <3>2, <3>3
  <2> QED
    BY <1>5, <2>2, <2>3 DEF CountersAgree
<1>10. ScoredWindow'
  <2>1. \E memory \in BOOLEAN :
          scored' = score_gpu(completeness_gate(window'), SignalsOf(window', memory))
    BY DEF Poll
  <2>2. window' # << >>
    BY <1>3
  <2>3. ScoredWindow' <=> IF window' = << >> THEN ~ scored'.telemetry_ok
                          ELSE \E memory \in BOOLEAN :
                                 scored' = score_gpu(completeness_gate(window'),
                                                     SignalsOf(window', memory))
    BY DEF ScoredWindow
  <2> QED
    BY <2>1, <2>2, <2>3
<1> QED
  BY <1>7, <1>8, <1>9, <1>10

\* A sample of the window is not later than the present.
LEMMA SampleTimes ==
  ASSUME Clocks, Ordered, NEW i \in DOMAIN window
  PROVE  /\ window[i].t \in Nat /\ window[i].dbe \in Nat
         /\ window[i].t <= now
<1>1. window[i] \in PushedSample
  BY DEF Ordered
<1> QED
  BY <1>1 DEF Ordered, PushedSample

\* An interval without a poll: only time passes.
LEMMA NoPollStep ==
  ASSUME ScoreHistoryInv, NoPoll
  PROVE  ScoreHistoryInv'
<1> USE DEF ScoreHistoryInv
<1>1. now' = now + 1 /\ UNCHANGED << window, dbe, dbe_times, reload_time, scored >>
  BY DEF NoPoll
<1>2. Clocks' /\ Ordered'
  <2>1. ASSUME NEW i \in DOMAIN window PROVE window[i].t <= now + 1
    <3>1. window[i].t \in Nat /\ window[i].t <= now
      BY SampleTimes
    <3> QED
      BY <3>1 DEF Clocks
  <2> QED
    BY <1>1, <2>1 DEF Clocks, Ordered
<1>3. CountersAgree'
  <2>1. ASSUME NEW i \in DOMAIN window, NoReload(window[i].t, now + 1)'
        PROVE  Counts(window[i].t, window[i].dbe, now + 1, dbe)'
    <3>1. NoReload(window[i].t, now + 1)
      BY <1>1, <2>1 DEF NoReload, Clocks
    <3>2. Counts(window[i].t, window[i].dbe, now + 1 + 1, dbe)
      BY <3>1, CountsUntilNow DEF CountersAgree
    <3> QED
      BY <1>1, <3>2 DEF Counts
  <2>2. ASSUME NEW i \in DOMAIN window, NEW j \in DOMAIN window, i < j,
               NoReload(window[i].t, window[j].t)'
        PROVE  Counts(window[i].t, window[i].dbe, window[j].t, window[j].dbe)'
    BY <1>1, <2>2 DEF CountersAgree, NoReload, Counts
  <2> QED
    BY <1>1, <2>1, <2>2 DEF CountersAgree
<1>4. ScoredWindow'
  BY <1>1 DEF ScoredWindow
<1> QED
  BY <1>2, <1>3, <1>4

\* An error happens now: after every sample, so that it shows in the counter
\* and in no sample yet.
LEMMA DoubleBitErrorStep ==
  ASSUME ScoreHistoryInv, DoubleBitError
  PROVE  ScoreHistoryInv'
<1> USE DEF ScoreHistoryInv
<1>1. /\ dbe' = dbe + 1 /\ dbe_times' = dbe_times \cup {now}
      /\ UNCHANGED << now, window, reload_time, scored >>
  BY DEF DoubleBitError
<1>2. Clocks' /\ Ordered'
  BY <1>1 DEF Clocks, Ordered, PushedSample
<1>3. CountersAgree'
  <2>1. ASSUME NEW i \in DOMAIN window, NoReload(window[i].t, now + 1)'
        PROVE  Counts(window[i].t, window[i].dbe, now + 1, dbe)'
    <3>1. window[i].t \in Nat /\ window[i].dbe \in Nat /\ window[i].t <= now
      BY SampleTimes
    <3>2. Counts(window[i].t, window[i].dbe, now + 1, dbe)
      BY <1>1, <2>1 DEF NoReload, CountersAgree
    <3>3. dbe' > window[i].dbe
      BY <1>1, <3>1, <3>2 DEF Counts, Clocks
    <3>4. now \in dbe_times' /\ window[i].t <= now /\ now < now + 1
      BY <1>1, <3>1 DEF Clocks
    <3> QED
      BY <1>1, <3>1, <3>3, <3>4 DEF Counts, Clocks
  <2>2. ASSUME NEW i \in DOMAIN window, NEW j \in DOMAIN window, i < j,
               NoReload(window[i].t, window[j].t)'
        PROVE  Counts(window[i].t, window[i].dbe, window[j].t, window[j].dbe)'
    <3>1. Counts(window[i].t, window[i].dbe, window[j].t, window[j].dbe)
      BY <1>1, <2>2 DEF NoReload, CountersAgree
    <3>2. ~ (now < window[j].t)
      <4>1. window[j].t \in Nat /\ window[j].t <= now
        BY SampleTimes
      <4> QED
        BY <4>1 DEF Clocks
    <3> QED
      BY <1>1, <3>1, <3>2 DEF Counts
  <2> QED
    BY <1>1, <2>1, <2>2 DEF CountersAgree
<1>4. ScoredWindow'
  BY <1>1 DEF ScoredWindow
<1> QED
  BY <1>2, <1>3, <1>4

\* The driver is reloaded now: later than every sample, so that no two of them
\* are on different sides of it.
LEMMA DriverReloadStep ==
  ASSUME ScoreHistoryInv, DriverReload
  PROVE  ScoreHistoryInv'
<1> USE DEF ScoreHistoryInv
<1>1. /\ reload_time = -1 /\ dbe' = 0 /\ reload_time' = now
      /\ UNCHANGED << now, window, dbe_times, scored >>
  BY DEF DriverReload
<1>2. Clocks' /\ Ordered'
  BY <1>1 DEF Clocks, Ordered, PushedSample
<1>3. CountersAgree'
  <2>1. ASSUME NEW i \in DOMAIN window, NoReload(window[i].t, now + 1)'
        PROVE  FALSE
    <3>1. window[i].t <= now /\ now < now + 1
      BY SampleTimes DEF Clocks
    <3> QED
      BY <1>1, <2>1, <3>1 DEF NoReload
  <2>2. ASSUME NEW i \in DOMAIN window, NEW j \in DOMAIN window, i < j
        PROVE  Counts(window[i].t, window[i].dbe, window[j].t, window[j].dbe)'
    <3>1. window[i].t \in Nat
      BY SampleTimes
    <3>2. NoReload(window[i].t, window[j].t)
      BY <1>1, <3>1 DEF NoReload
    <3>3. Counts(window[i].t, window[i].dbe, window[j].t, window[j].dbe)
      BY <2>2, <3>2 DEF CountersAgree
    <3> QED
      BY <1>1, <3>3 DEF Counts
  <2> QED
    BY <1>1, <2>1, <2>2 DEF CountersAgree
<1>4. ScoredWindow'
  BY <1>1 DEF ScoredWindow
<1> QED
  BY <1>2, <1>3, <1>4

(***************************************************************************)
(* The counters in the window and the driver's agree with the errors that  *)
(* happened, for every pair of samples that no reload separates, and the   *)
(* result is the one computed from the window as it is (ring_push and      *)
(* score_gpu of collector.c, called in that order).                        *)
(***************************************************************************)
THEOREM ScoreHistoryInvariant == HistorySpec => []ScoreHistoryInv
<1>1. ScoreHistoryInv /\ [HistoryNext]_historyVars => ScoreHistoryInv'
  <2> SUFFICES ASSUME ScoreHistoryInv, [HistoryNext]_historyVars PROVE ScoreHistoryInv'
    OBVIOUS
  <2>1. CASE \E temp \in Temps : Poll(temp)
    BY <2>1, PollStep
  <2>2. CASE NoPoll
    BY <2>2, NoPollStep
  <2>3. CASE DoubleBitError
    BY <2>3, DoubleBitErrorStep
  <2>4. CASE DriverReload
    BY <2>4, DriverReloadStep
  <2>5. CASE UNCHANGED historyVars
    BY <2>5 DEF historyVars, ScoreHistoryInv, Clocks, Ordered, CountersAgree, ScoredWindow,
                NoReload, Counts
  <2> QED
    BY <2>1, <2>2, <2>3, <2>4, <2>5 DEF HistoryNext
<1> QED
  BY <1>1, ScoreHistoryInit, PTL DEF HistorySpec

-----------------------------------------------------------------------------
(* What follows for the results.                                           *)

\* A result with a score is that of a window that passed the gate.
LEMMA ScoredPassedGate ==
  ASSUME ScoreHistoryInv, scored.telemetry_ok
  PROVE  /\ completeness_gate(window) /\ Len(window) \in Nat /\ Len(window) >= 2
         /\ \E memory \in BOOLEAN :
              scored.reasons = {r.reason : r \in Fired(SignalsOf(window, memory))}
<1>1. window # << >>
  BY DEF ScoreHistoryInv, ScoredWindow
<1>0. PICK memory \in BOOLEAN :
        scored = score_gpu(completeness_gate(window), SignalsOf(window, memory))
  BY <1>1 DEF ScoreHistoryInv, ScoredWindow
<1> DEFINE ok == completeness_gate(window)
           x == SignalsOf(window, memory)
<1>2. scored = score_gpu(ok, x)
  BY <1>0
<1> HIDE DEF ok, x
<1>3. ok
  BY <1>2 DEF score_gpu
<1>4. scored.reasons = {r.reason : r \in Fired(x)}
  BY <1>2, <1>3 DEF score_gpu
<1>5. Len(window) >= 2
  BY <1>3 DEF ok, completeness_gate
<1>6. Len(window) \in Nat
  BY DEF ScoreHistoryInv, Ordered
<1> QED
  BY <1>3, <1>4, <1>5, <1>6 DEF ok, x

\* The reason of a double-bit error is given by one rule, and that fires
\* exactly if the signal is set.
LEMMA DbeRule ==
  ASSUME NEW x
  PROVE  "ECC_DBE_ACTIVE" \in {r.reason : r \in Fired(x)} <=> x.dbe
<1>1. \A r \in FiredIn(ThermalRules(x)) : r.reason # "ECC_DBE_ACTIVE"
  BY DEF FiredIn, ThermalRules, Rule
<1>2. \A r \in FiredIn(LoadRules(x)) : r.reason # "ECC_DBE_ACTIVE"
  BY DEF FiredIn, LoadRules, Rule
<1>3. \A r \in FiredIn(LinkRules(x)) : r.reason # "ECC_DBE_ACTIVE"
  BY DEF FiredIn, LinkRules, Rule
<1>4. \A r \in FiredIn(PerfRules(x)) : r.reason # "ECC_DBE_ACTIVE"
  BY DEF FiredIn, PerfRules, Rule
<1> DEFINE rules == MemoryRules(x)
<1>5. /\ DOMAIN rules = 1 .. 5
      /\ rules[1].reason = "ECC_SBE_HIGH" /\ rules[2].reason = "ECC_DBE_ACTIVE"
      /\ rules[3].reason = "RETIRED_PAGES_BAD" /\ rules[4].reason = "RETIRED_PAGES_WARN"
      /\ rules[5].reason = "ROW_REMAP"
      /\ rules[2].fires = x.dbe
  BY DEF MemoryRules, Rule
<1> HIDE DEF rules
<1>6. (\E r \in FiredIn(rules) : r.reason = "ECC_DBE_ACTIVE") <=> x.dbe
  BY <1>5 DEF FiredIn
<1> QED
  BY <1>1, <1>2, <1>3, <1>4, <1>6 DEF Fired, rules

(***************************************************************************)
(* For every window length, time and number of errors: while no reload of  *)
(* the driver lies within the window, ECC_DBE_ACTIVE is reported exactly   *)
(* when a double-bit error does (scorer.c:257-264).                        *)
(***************************************************************************)
THEOREM DbeIsReported == HistorySpec => []DbeReportedExactly
<1>1. ScoreHistoryInv => DbeReportedExactly
  <2> SUFFICES ASSUME ScoreHistoryInv, scored.telemetry_ok, ~ ReloadInWindow
               PROVE  "ECC_DBE_ACTIVE" \in scored.reasons <=> DbeInWindow
    BY DEF DbeReportedExactly
  <2> DEFINE n == Len(window)
  <2>1. /\ n \in Nat /\ n >= 2 /\ DOMAIN window = 1 .. n
    BY ScoredPassedGate DEF ScoreHistoryInv, Ordered
  <2>0. PICK memory \in BOOLEAN :
          scored.reasons = {r.reason : r \in Fired(SignalsOf(window, memory))}
    BY ScoredPassedGate
  <2> HIDE DEF n
  <2>2. "ECC_DBE_ACTIVE" \in scored.reasons <=> SignalsOf(window, memory).dbe
    BY <2>0, DbeRule
  <2>3. SignalsOf(window, memory).dbe = (window[n].dbe > window[1].dbe)
    BY DEF SignalsOf, dbe_active, n
  <2>4. 1 \in DOMAIN window /\ n \in DOMAIN window /\ 1 < n
    BY <2>1
  <2>5. NoReload(window[1].t, window[n].t)
    BY DEF ReloadInWindow, Oldest, Newest, NoReload, n
  <2>6. Counts(window[1].t, window[1].dbe, window[n].t, window[n].dbe)
    BY <2>4, <2>5 DEF ScoreHistoryInv, CountersAgree
  <2>7. window[n].dbe > window[1].dbe <=> DbeInWindow
    BY <2>6 DEF Counts, DbeInWindow, Oldest, Newest, n
  <2> QED
    BY <2>2, <2>3, <2>7
<1> QED
  BY <1>1, ScoreHistoryInvariant, PTL

(***************************************************************************)
(* For every window: the p95 of its temperatures is the nearest-rank one   *)
(* (scorer.c:63-97).                                                       *)
(***************************************************************************)
THEOREM P95OfEveryWindow == HistorySpec => []P95IsNearestRank
<1>1. ScoreHistoryInv => P95IsNearestRank
  <2> SUFFICES ASSUME ScoreHistoryInv, window # << >> PROVE P95IsNearestRank
    BY DEF P95IsNearestRank
  <2> DEFINE n == Len(window)
             s == [i \in DOMAIN window |-> window[i].temp]
  <2>1. n \in Nat \ {0} /\ DOMAIN window = 1 .. n
    BY DEF ScoreHistoryInv, Ordered
  <2>2. \A i \in DOMAIN window : window[i].temp \in Nat
    <3> SUFFICES ASSUME NEW i \in DOMAIN window PROVE window[i].temp \in Nat
      OBVIOUS
    <3>1. window[i] \in PushedSample
      BY DEF ScoreHistoryInv, Ordered
    <3> QED
      BY <3>1 DEF PushedSample
  <2>3. s \in [1 .. n -> Int] /\ s \in Seq(Nat) /\ Len(s) = n /\ s # << >>
    <3> HIDE DEF n
    <3>1. s \in [1 .. n -> Nat]
      BY <2>1, <2>2
    <3> HIDE DEF s
    <3> QED
      BY <2>1, <3>1
  <2>4. \A v : UpTo(s, v) = {i \in DOMAIN window : window[i].temp <= v}
    BY DEF UpTo
  <2> DEFINE p95 == ring_p95(s, TRUE)
             k == Rank(n)
  <2>5. p95 = Sorted(s, k)
    BY <2>3 DEF ring_p95
  <2>6. k \in 1 .. n /\ 95 * n <= 100 * k /\ 100 * (k - 1) < 95 * n
    BY <2>1, RankIsNearest
  <2> HIDE DEF n, s, p95, k
  <2>7. /\ \E i \in DOMAIN s : s[i] = p95
        /\ Cardinality(Below(s, p95)) < k
        /\ k <= Cardinality(UpTo(s, p95))
    BY <2>1, <2>3, <2>5, <2>6, SortedExists
  <2>8. \A v : UpTo(s, v) \subseteq DOMAIN s /\ Below(s, v) \subseteq DOMAIN s
    BY DEF UpTo, Below
  <2>9. \A v : Cardinality(UpTo(s, v)) \in 0 .. n /\ Cardinality(Below(s, v)) \in 0 .. n
    BY <2>1, <2>3, <2>8, PositionsFinite
  <2>10. 100 * Cardinality(UpTo(s, p95)) >= 95 * n
    <3> DEFINE c == Cardinality(UpTo(s, p95))
    <3>1. c \in Nat /\ k <= c
      BY <2>7, <2>9
    <3> HIDE DEF c
    <3>2. 100 * c >= 95 * n
      BY <2>1, <2>6, <3>1
    <3> QED
      BY <3>2 DEF c
  <2>11. ASSUME NEW v \in {window[i].temp : i \in DOMAIN window}, v < p95
         PROVE  100 * Cardinality(UpTo(s, v)) < 95 * n
    <3> DEFINE c == Cardinality(UpTo(s, v))
               b == Cardinality(Below(s, p95))
    <3>1. v \in Int /\ p95 \in Int
      BY <2>2, <2>3, <2>7
    <3>2. UpTo(s, v) \subseteq Below(s, p95)
      BY <2>3, <2>11, <3>1 DEF UpTo, Below
    <3>3. c <= b
      BY <2>1, <2>3, <2>8, <3>2, CountMonotone
    <3>4. c \in Nat /\ b \in Nat /\ b < k
      BY <2>7, <2>9
    <3> HIDE DEF c, b
    <3>5. 100 * c < 95 * n
      BY <2>1, <2>6, <3>3, <3>4
    <3> QED
      BY <3>5 DEF c
  <2> QED
    BY <2>4, <2>10, <2>11 DEF P95IsNearestRank, n, s, p95
<1> QED
  BY <1>1, ScoreHistoryInvariant, PTL

\* At least half of a sequence of integers is at most its median; so when the
\* median is at most m, at least half of the sequence is.
LEMMA HalfUpToMedian ==
  ASSUME NEW n \in Nat \ {0}, NEW s, s \in [1 .. n -> Int], Len(s) = n,
         NEW m \in Nat, TwiceMedian(s) <= 2 * m
  PROVE  2 * Cardinality(UpTo(s, m)) >= n
<1> DEFINE C(v) == Cardinality(UpTo(s, v))
<1>1. \A v : UpTo(s, v) \subseteq DOMAIN s /\ Below(s, v) \subseteq DOMAIN s
  BY DEF UpTo, Below
<1>2. \A v : C(v) \in 0 .. n
  BY <1>1, PositionsFinite
<1>3. ASSUME NEW k \in 1 .. n, NEW v \in Int, v = Sorted(s, k), v <= m, n <= 2 * k
      PROVE  2 * C(m) >= n
  <2>1. k <= C(v)
    BY <1>3, SortedExists
  <2>2. UpTo(s, v) \subseteq UpTo(s, m)
    BY <1>3 DEF UpTo
  <2>3. C(v) <= C(m)
    BY <1>1, <2>2, CountMonotone
  <2>4. C(v) \in Nat /\ C(m) \in Nat
    BY <1>2
  <2> HIDE DEF C
  <2> QED
    BY <1>3, <2>1, <2>3, <2>4
<1>4. \A k \in 1 .. n : Sorted(s, k) \in Int
  BY SortedExists
<1>5. CASE n % 2 = 1
  <2> DEFINE k == n \div 2 + 1
             v == Sorted(s, k)
  <2>1. k \in 1 .. n /\ n <= 2 * k
    BY <1>5
  <2>2. v \in Int
    BY <1>4, <2>1
  <2>3. 2 * v <= 2 * m
    BY <1>5 DEF TwiceMedian
  <2> HIDE DEF k, v
  <2>4. v <= m
    BY <2>2, <2>3
  <2>5. v = Sorted(s, k)
    BY DEF v
  <2> QED
    BY <1>3, <2>1, <2>2, <2>4, <2>5
<1>6. CASE n % 2 # 1
  <2> DEFINE k == n \div 2
             a == Sorted(s, k)
             b == Sorted(s, k + 1)
  <2>1. k \in 1 .. n /\ k + 1 \in 1 .. n /\ n <= 2 * k
    BY <1>6
  <2>2. a \in Int /\ b \in Int
    BY <1>4, <2>1
  <2>3. a + b <= 2 * m
    BY <1>6 DEF TwiceMedian
  <2>4. a = Sorted(s, k) /\ b = Sorted(s, k + 1)
    OBVIOUS
  <2> HIDE DEF k, a, b
  <2>5. a <= b
    <3> SUFFICES ASSUME b < a PROVE FALSE
      BY <2>2
    <3>1. UpTo(s, b) \subseteq Below(s, a)
      BY <2>2 DEF UpTo, Below
    <3> DEFINE c == Cardinality(Below(s, a))
    <3>2. C(b) <= c
      BY <1>1, <3>1, CountMonotone
    <3>3. c < k
      BY <2>1, <2>4, SortedExists
    <3>4. k + 1 <= C(b)
      BY <2>1, <2>4, SortedExists
    <3>5. c \in 0 .. n /\ C(b) \in 0 .. n
      BY <1>1, <1>2, PositionsFinite
    <3> HIDE DEF c, C
    <3> QED
      BY <2>1, <3>2, <3>3, <3>4, <3>5
  <2>6. a <= m
    BY <2>2, <2>3, <2>5
  <2> QED
    BY <1>3, <2>1, <2>2, <2>4, <2>6
<1> QED
  BY <1>5, <1>6

(***************************************************************************)
(* For every window and every limit: what was scored came regularly        *)
(* (scorer.c:118-138).                                                     *)
(***************************************************************************)
THEOREM ScoredOnlyIfRegular == HistorySpec => []ScoredMeansRegular
<1>1. ScoreHistoryInv => ScoredMeansRegular
  <2> SUFFICES ASSUME ScoreHistoryInv, scored.telemetry_ok PROVE ScoredMeansRegular
    BY DEF ScoredMeansRegular
  <2> DEFINE n == Len(window) - 1
             s == Steps(window)
             m == cfg.max_median_step_s
  <2>1. /\ n \in Nat \ {0} /\ DOMAIN window = 1 .. n + 1 /\ Len(window) = n + 1
        /\ completeness_gate(window)
    BY ScoredPassedGate DEF ScoreHistoryInv, Ordered
  <2>2. s = [i \in 1 .. n |-> window[i + 1].t - window[i].t]
    BY DEF Steps
  <2>3. m \in Nat /\ TwiceMedian(s) <= 2 * m
    BY <2>1, HistoryAssumption DEF completeness_gate
  <2> HIDE DEF n, s, m
  <2>4. \A i \in 1 .. n : window[i + 1].t - window[i].t \in Int
    <3> SUFFICES ASSUME NEW i \in 1 .. n PROVE window[i + 1].t - window[i].t \in Int
      OBVIOUS
    <3>1. i \in DOMAIN window /\ i + 1 \in DOMAIN window
      BY <2>1
    <3>2. window[i].t \in Nat /\ window[i + 1].t \in Nat
      BY <3>1, SampleTimes DEF ScoreHistoryInv
    <3> QED
      BY <3>2
  <2>5. s \in [1 .. n -> Int]
    BY <2>2, <2>4
  <2>6. Len(s) = n
    BY <2>1, <2>5
  <2>7. 2 * Cardinality(UpTo(s, m)) >= n
    BY <2>1, <2>3, <2>5, <2>6, HalfUpToMedian
  <2>8. UpTo(s, m) = {i \in 1 .. n : window[i + 1].t - window[i].t <= m}
    BY <2>2 DEF UpTo
  <2> QED
    BY <2>7, <2>8 DEF ScoredMeansRegular, n, m
<1> QED
  BY <1>1, ScoreHistoryInvariant, PTL
=============================================================================
