-------------------------- MODULE SignalsProofs ----------------------------
(***************************************************************************)
(* What score_gpu makes of the signals, for every configuration that       *)
(* config_validate accepts and all values of the signals, not only those   *)
(* next to a threshold: no worsening raises the score, the reasons account *)
(* for it, and the critical ones keep a GPU from being called healthy.     *)
(***************************************************************************)
EXTENDS ScoreSignals, TLAPS

-----------------------------------------------------------------------------
(* The rules of score_gpu, for every configuration that config_validate    *)
(* accepts and all values of the signals.                                  *)

\* A vector of signals of which every one has a possible value.
Typed(y) ==
  /\ {y.temp_p95, y.hbm_p95, y.clk_std} \subseteq Nat \cup {NaN}
  /\ {y.saturated, y.sbe_rate, y.retired, y.remap_failures, y.drop} \subseteq Nat
  /\ {y.gen, y.gen_max, y.width, y.width_max} \subseteq 0 .. 16
  /\ {y.dbe, y.baseline_ok, y.probe_available, y.probe_stale} \subseteq BOOLEAN

\* The penalties of the scaled rules.
LEMMA LeastOfTwo ==
  ASSUME NEW a \in Int, NEW b \in Int
  PROVE  Min({a, b}) = IF a <= b THEN a ELSE b
<1>1. \E m \in {a, b} : \A n \in {a, b} : m <= n
  OBVIOUS
<1> QED
  BY <1>1 DEF Min

\* The clamp of the score at 0 (scorer.c:325).
LEMMA GreatestOfTwo ==
  ASSUME NEW a \in Int, NEW b \in Int
  PROVE  Max({a, b}) = IF a >= b THEN a ELSE b
<1>1. \E m \in {a, b} : \A n \in {a, b} : m >= n
  OBVIOUS
<1> QED
  BY <1>1 DEF Max

\* The quotient by a positive number.
LEMMA Quotient ==
  ASSUME NEW a \in Nat, NEW w \in Nat \ {0}
  PROVE  /\ a \div w \in Nat
         /\ w <= a => a \div w >= 1
         /\ \A b \in Nat : a <= b => a \div w <= b \div w
  OBVIOUS

\* A statistic above its threshold is not missing.
LEMMA AboveIsThere ==
  ASSUME NEW c \in Nat \cup {-1}, NEW w \in 1 .. 1000, c > w
  PROVE  c \in Nat
  OBVIOUS

\* 15 points times the relative excess of c over w, at most 15.
Scaled(c, w) == Min({1500, (1500 * (c - w)) \div w})

\* A scaled penalty costs something and grows with what it measures.
LEMMA ScaledFacts ==
  ASSUME NEW w \in 1 .. 1000, NEW c \in Nat, c > w
  PROVE  /\ Scaled(c, w) \in Nat \ {0}
         /\ \A d \in Nat : c <= d => Scaled(c, w) <= Scaled(d, w)
<1> DEFINE Quot(v) == (1500 * (v - w)) \div w
<1>1. Quot(c) \in Nat \ {0}
  <2> DEFINE a == 1500 * (c - w)
  <2>1. a \in Nat /\ w <= a /\ w \in Nat \ {0}
    OBVIOUS
  <2> HIDE DEF a
  <2>2. a \div w \in Nat /\ a \div w >= 1
    BY <2>1, Quotient
  <2> QED
    BY <2>2 DEF a
<1>2. ASSUME NEW d \in Nat, c <= d PROVE Quot(d) \in Nat /\ Quot(c) <= Quot(d)
  <2> DEFINE a == 1500 * (c - w)
             b == 1500 * (d - w)
  <2>1. a \in Nat /\ b \in Nat /\ a <= b /\ w \in Nat \ {0}
    BY <1>2
  <2> HIDE DEF a, b
  <2>2. b \div w \in Nat /\ a \div w <= b \div w
    BY <2>1, Quotient
  <2> QED
    BY <2>2 DEF a, b
<1>3. ASSUME NEW v, Quot(v) \in Nat
      PROVE  Scaled(v, w) = IF 1500 <= Quot(v) THEN 1500 ELSE Quot(v)
  <2> DEFINE q == Quot(v)
  <2>1. Scaled(v, w) = Min({1500, q}) /\ q \in Nat
    BY <1>3 DEF Scaled
  <2> HIDE DEF q
  <2>2. Min({1500, q}) = IF 1500 <= q THEN 1500 ELSE q
    BY <2>1, LeastOfTwo
  <2> QED
    BY <2>1, <2>2 DEF q
<1> HIDE DEF Quot
<1>4. Scaled(c, w) = IF 1500 <= Quot(c) THEN 1500 ELSE Quot(c)
  BY <1>1, <1>3
<1>5. ASSUME NEW d \in Nat, c <= d PROVE Scaled(c, w) <= Scaled(d, w)
  <2>1. Quot(d) \in Nat /\ Quot(c) <= Quot(d)
    BY <1>2, <1>5
  <2>2. Scaled(d, w) = IF 1500 <= Quot(d) THEN 1500 ELSE Quot(d)
    BY <1>3, <2>1
  <2> QED
    BY <1>1, <1>4, <2>1, <2>2
<1> QED
  BY <1>1, <1>4, <1>5

\* It is a number also where its rule does not fire.
LEMMA ScaledIsInt ==
  ASSUME NEW w \in 1 .. 1000, NEW c \in Int
  PROVE  Scaled(c, w) \in Int
<1> DEFINE q == (1500 * (c - w)) \div w
<1>1. q \in Int
  OBVIOUS
<1> HIDE DEF q
<1>2. Min({1500, q}) \in Int
  BY <1>1, LeastOfTwo
<1> QED
  BY <1>2 DEF Scaled, q

\* The penalty for power saturation is proportional to the saturated share.
LEMMA PowerPenaltyFacts ==
  ASSUME NEW a \in Nat
  PROVE  /\ (cfg.power_penalty_max * Unit * a) \div 100 = cfg.power_penalty_max * a
         /\ cfg.power_penalty_max * a \in Nat
         /\ \A b \in Nat : a <= b =>
              cfg.power_penalty_max * a <= cfg.power_penalty_max * b
         /\ cfg.power_penalty_max # 0 /\ a > 0 => cfg.power_penalty_max * a > 0
<1> DEFINE m == cfg.power_penalty_max
           p == m * a
<1>1. m \in Nat
  BY ConfigAssumption
<1> HIDE DEF m
<1>2. p \in Nat /\ m * Unit * a = 100 * p
  BY <1>1 DEF Unit
<1>3. m # 0 /\ a > 0 => p > 0
  BY <1>1
<1>4. ASSUME NEW b \in Nat, a <= b PROVE p <= m * b
  <2>1. m * b = p + m * (b - a)
    BY <1>1
  <2>2. m * (b - a) \in Nat
    BY <1>1, <1>4
  <2> QED
    BY <1>2, <2>1, <2>2
<1> HIDE DEF p
<1>5. (100 * p) \div 100 = p
  BY <1>2
<1> QED
  BY <1>2, <1>3, <1>4, <1>5 DEF m, p

\* What one rule costs.
Price(r) == IF r.fires THEN r.penalty ELSE 0

\* The total of a category of two, four and five rules, and who fired in it.
LEMMA TwoRules ==
  ASSUME NEW a, NEW b, a.penalty \in Int, b.penalty \in Int
  PROVE  /\ Total(<< a, b >>) = Price(a) + Price(b)
         /\ FiredIn(<< a, b >>) = {r \in {a, b} : r.fires}
<1> DEFINE rules == << a, b >>
<1>1. DOMAIN rules = 1 .. 2 /\ rules[1] = a /\ rules[2] = b
  OBVIOUS
<1> HIDE DEF rules
<1>2. /\ Cost(rules, 1) = Price(a) /\ Cost(rules, 2) = Price(b)
      /\ Cost(rules, 3) = 0 /\ Cost(rules, 4) = 0 /\ Cost(rules, 5) = 0
  BY <1>1 DEF Cost, Price
<1>3. Price(a) \in Int /\ Price(b) \in Int
  BY DEF Price
<1>4. Total(rules) = Price(a) + Price(b)
  BY <1>2, <1>3 DEF Total
<1>5. FiredIn(rules) = {r \in {a, b} : r.fires}
  BY <1>1 DEF FiredIn
<1> QED
  BY <1>4, <1>5 DEF rules

\* The same for a category of four rules.
LEMMA FourRules ==
  ASSUME NEW a, NEW b, NEW c, NEW d,
         {a.penalty, b.penalty, c.penalty, d.penalty} \subseteq Int
  PROVE  /\ Total(<< a, b, c, d >>) = Price(a) + Price(b) + Price(c) + Price(d)
         /\ FiredIn(<< a, b, c, d >>) = {r \in {a, b, c, d} : r.fires}
<1> DEFINE rules == << a, b, c, d >>
<1>1. /\ DOMAIN rules = 1 .. 4
      /\ rules[1] = a /\ rules[2] = b /\ rules[3] = c /\ rules[4] = d
  OBVIOUS
<1> HIDE DEF rules
<1>2. /\ Cost(rules, 1) = Price(a) /\ Cost(rules, 2) = Price(b)
      /\ Cost(rules, 3) = Price(c) /\ Cost(rules, 4) = Price(d) /\ Cost(rules, 5) = 0
  BY <1>1 DEF Cost, Price
<1>3. {Price(a), Price(b), Price(c), Price(d)} \subseteq Int
  BY DEF Price
<1>4. Total(rules) = Price(a) + Price(b) + Price(c) + Price(d)
  BY <1>2, <1>3 DEF Total
<1>5. FiredIn(rules) = {r \in {a, b, c, d} : r.fires}
  BY <1>1 DEF FiredIn
<1> QED
  BY <1>4, <1>5 DEF rules

\* And for one of five.
LEMMA FiveRules ==
  ASSUME NEW a, NEW b, NEW c, NEW d, NEW e,
         {a.penalty, b.penalty, c.penalty, d.penalty, e.penalty} \subseteq Int
  PROVE  /\ Total(<< a, b, c, d, e >>)
              = Price(a) + Price(b) + Price(c) + Price(d) + Price(e)
         /\ FiredIn(<< a, b, c, d, e >>) = {r \in {a, b, c, d, e} : r.fires}
<1> DEFINE rules == << a, b, c, d, e >>
<1>1. /\ DOMAIN rules = 1 .. 5
      /\ rules[1] = a /\ rules[2] = b /\ rules[3] = c /\ rules[4] = d /\ rules[5] = e
  OBVIOUS
<1> HIDE DEF rules
<1>2. /\ Cost(rules, 1) = Price(a) /\ Cost(rules, 2) = Price(b)
      /\ Cost(rules, 3) = Price(c) /\ Cost(rules, 4) = Price(d)
      /\ Cost(rules, 5) = Price(e)
  BY <1>1 DEF Cost, Price
<1>3. {Price(a), Price(b), Price(c), Price(d), Price(e)} \subseteq Int
  BY DEF Price
<1>4. Total(rules) = Price(a) + Price(b) + Price(c) + Price(d) + Price(e)
  BY <1>2, <1>3 DEF Total
<1>5. FiredIn(rules) = {r \in {a, b, c, d, e} : r.fires}
  BY <1>1 DEF FiredIn
<1> QED
  BY <1>4, <1>5 DEF rules

-----------------------------------------------------------------------------
(* A vector z that is in no measurement better than y, and comparable with *)
(* the same things.                                                        *)
Worse(y, z) ==
  /\ y.temp_p95 <= z.temp_p95 /\ y.hbm_p95 <= z.hbm_p95 /\ y.clk_std <= z.clk_std
  /\ y.saturated <= z.saturated /\ y.sbe_rate <= z.sbe_rate /\ y.retired <= z.retired
  /\ y.remap_failures <= z.remap_failures /\ y.drop <= z.drop
  /\ y.dbe => z.dbe
  /\ y.gen = 0 \/ (0 < z.gen /\ z.gen <= y.gen)
  /\ y.width = 0 \/ (0 < z.width /\ z.width <= y.width)
  /\ y.gen_max = z.gen_max /\ y.width_max = z.width_max
  /\ PerfComparable(y) <=> PerfComparable(z)

\* No rule of a category gives a reason, other than that the probe is stale.
Quiet(rules) == \A r \in FiredIn(rules) : r.reason = "PROBE_STALE"

\* The categories, one by one: what they cost, that what is worse costs no
\* less, and what one of their rules costs at least.
LEMMA ThermalCost ==
  ASSUME NEW y, Typed(y)
  PROVE  /\ Total(ThermalRules(y)) \in Nat
         /\ \A z : Typed(z) /\ Worse(y, z) =>
              Total(ThermalRules(y)) <= Total(ThermalRules(z))
         /\ Total(ThermalRules(y)) = 0 <=> Quiet(ThermalRules(y))
         /\ y.temp_p95 > cfg.temp_p95_bad_c \/ y.hbm_p95 > cfg.hbm_temp_p95_bad_c
              => Total(ThermalRules(y)) >= 2500
<1> DEFINE tb == cfg.temp_p95_bad_c
           tw == cfg.temp_p95_warn_c
           hb == cfg.hbm_temp_p95_bad_c
           hw == cfg.hbm_temp_p95_warn_c
           Step(v, bad, warn) == IF v > bad THEN 2500 ELSE IF v > warn THEN 1000 ELSE 0
<1>1. {tb, tw, hb, hw} \subseteq Nat
  BY ConfigAssumption
<1>2. ASSUME NEW v, Typed(v)
      PROVE  /\ {v.temp_p95, v.hbm_p95} \subseteq Int
             /\ Total(ThermalRules(v)) = Step(v.temp_p95, tb, tw) + Step(v.hbm_p95, hb, hw)
             /\ Quiet(ThermalRules(v)) <=>
                  ~ (v.temp_p95 > tb \/ v.temp_p95 > tw \/ v.hbm_p95 > hb \/ v.hbm_p95 > hw)
  <2> DEFINE t == v.temp_p95
             h == v.hbm_p95
             a == Rule("TEMP_BAD", Above(t, tb), 25 * Unit)
             b == Rule("TEMP_WARN", ~ Above(t, tb) /\ Above(t, tw), 10 * Unit)
             c == Rule("HBM_TEMP_BAD", Above(h, hb), 25 * Unit)
             d == Rule("HBM_TEMP_WARN", ~ Above(h, hb) /\ Above(h, hw), 10 * Unit)
  <2>1. ThermalRules(v) = << a, b, c, d >>
    BY DEF ThermalRules
  <2>2. t \in Nat \cup {-1} /\ h \in Nat \cup {-1}
    BY <1>2 DEF Typed, NaN
  <2> HIDE DEF t, h, tb, tw, hb, hw
  <2>3. /\ Above(t, tb) <=> t > tb
        /\ Above(t, tw) <=> t > tw
        /\ Above(h, hb) <=> h > hb
        /\ Above(h, hw) <=> h > hw
    BY <1>1, <2>2 DEF Above, NaN
  <2>4. /\ a.penalty = 2500 /\ (a.fires <=> t > tb)
        /\ b.penalty = 1000 /\ (b.fires <=> ~ (t > tb) /\ t > tw)
        /\ c.penalty = 2500 /\ (c.fires <=> h > hb)
        /\ d.penalty = 1000 /\ (d.fires <=> ~ (h > hb) /\ h > hw)
    <3>1. /\ a.penalty = 2500 /\ b.penalty = 1000
          /\ c.penalty = 2500 /\ d.penalty = 1000
      BY DEF Rule, Unit
    <3>2. /\ a.fires <=> Above(t, tb)
          /\ b.fires <=> ~ Above(t, tb) /\ Above(t, tw)
          /\ c.fires <=> Above(h, hb)
          /\ d.fires <=> ~ Above(h, hb) /\ Above(h, hw)
      BY Zenon DEF Rule
    <3> HIDE DEF a, b, c, d
    <3> QED
      BY <2>3, <3>1, <3>2
  <2>5. "PROBE_STALE" \notin {a.reason, b.reason, c.reason, d.reason}
    BY DEF Rule
  <2> HIDE DEF a, b, c, d
  <2>6. /\ Total(ThermalRules(v)) = Price(a) + Price(b) + Price(c) + Price(d)
        /\ FiredIn(ThermalRules(v)) = {r \in {a, b, c, d} : r.fires}
    BY <2>1, <2>4, FourRules
  <2>7. Price(a) + Price(b) = Step(t, tb, tw) /\ Price(c) + Price(d) = Step(h, hb, hw)
    BY <2>4 DEF Price
  <2>8. Total(ThermalRules(v)) = Step(t, tb, tw) + Step(h, hb, hw)
    BY <2>4, <2>6, <2>7 DEF Price
  <2>9. Quiet(ThermalRules(v)) <=> ~ (t > tb \/ t > tw \/ h > hb \/ h > hw)
    BY <2>4, <2>5, <2>6 DEF Quiet
  <2> QED
    BY <2>2, <2>8, <2>9 DEF t, h
<1>3. ASSUME NEW z, Typed(z), Worse(y, z)
      PROVE  Total(ThermalRules(y)) <= Total(ThermalRules(z))
  <2>1. y.temp_p95 <= z.temp_p95 /\ y.hbm_p95 <= z.hbm_p95
    BY <1>3 DEF Worse
  <2> HIDE DEF tb, tw, hb, hw
  <2> QED
    BY <1>1, <1>2, <1>3, <2>1
<1> HIDE DEF tb, tw, hb, hw
<1>4. /\ Total(ThermalRules(y)) \in Nat
      /\ Total(ThermalRules(y)) = 0 <=> Quiet(ThermalRules(y))
      /\ y.temp_p95 > tb \/ y.hbm_p95 > hb => Total(ThermalRules(y)) >= 2500
  BY <1>1, <1>2
<1> QED
  BY <1>3, <1>4 DEF tb, hb

\* Clocks and power.
LEMMA LoadCost ==
  ASSUME NEW y, Typed(y)
  PROVE  /\ Total(LoadRules(y)) \in Nat
         /\ \A z : Typed(z) /\ Worse(y, z) => Total(LoadRules(y)) <= Total(LoadRules(z))
         /\ EveryPenaltyCounts =>
              (Total(LoadRules(y)) = 0 <=> Quiet(LoadRules(y)))
<1> DEFINE w == cfg.clk_std_warn_mhz
           m == cfg.power_penalty_max
           P(n) == m * n
           Clock(c) == IF c > w THEN Scaled(c, w) ELSE 0
<1>1. w \in 1 .. 1000 /\ m \in Nat
  BY ConfigAssumption
<1>2. \A n \in Nat : /\ P(n) \in Nat /\ (m # 0 /\ n > 0 => P(n) > 0)
                     /\ \A k \in Nat : n <= k => P(n) <= P(k)
                     /\ (m * Unit * n) \div 100 = P(n)
  BY PowerPenaltyFacts
<1>3. P(0) = 0
  BY <1>1
<1> HIDE DEF w, m, P
<1>4. ASSUME NEW c \in Nat \cup {-1}
      PROVE  /\ Clock(c) \in Nat /\ (c > w => Clock(c) > 0)
             /\ \A d \in Nat \cup {-1} : c <= d => Clock(c) <= Clock(d)
  <2>1. CASE c > w
    <3>1. c \in Nat
      BY <1>1, <2>1, AboveIsThere, ZenonT(60)
    <3>2. /\ Scaled(c, w) \in Nat \ {0}
          /\ \A d \in Nat : c <= d => Scaled(c, w) <= Scaled(d, w)
      BY <1>1, <2>1, <3>1, ScaledFacts, ZenonT(60)
    <3>3. \A d \in Nat \cup {-1} : c <= d => d > w /\ d \in Nat
      BY <1>1, <2>1, <3>1
    <3> HIDE DEF Clock
    <3>4. Clock(c) = Scaled(c, w)
      BY <2>1 DEF Clock
    <3>5. \A d \in Nat \cup {-1} : c <= d => Clock(d) = Scaled(d, w)
      BY <3>3 DEF Clock
    <3> QED
      BY <3>2, <3>3, <3>4, <3>5
  <2>2. CASE ~ (c > w)
    <3>1. ASSUME NEW d \in Nat \cup {-1}, d > w
          PROVE  Scaled(d, w) \in Nat \ {0}
      <4>1. d \in Nat
        BY <1>1, <3>1, AboveIsThere, ZenonT(60)
      <4> QED
        BY <1>1, <3>1, <4>1, ScaledFacts, ZenonT(60)
    <3> HIDE DEF Clock
    <3>2. Clock(c) = 0
      BY <2>2 DEF Clock
    <3>3. \A d \in Nat \cup {-1} : Clock(d) \in Nat
      BY <3>1 DEF Clock
    <3> QED
      BY <2>2, <3>2, <3>3
  <2> QED
    BY <2>1, <2>2
<1>5. ASSUME NEW v, Typed(v)
      PROVE  /\ v.clk_std \in Nat \cup {-1} /\ v.saturated \in Nat
             /\ Total(LoadRules(v)) = Clock(v.clk_std) + P(v.saturated)
             /\ Quiet(LoadRules(v)) <=> ~ (v.clk_std > w \/ v.saturated > 0)
  <2> DEFINE c == v.clk_std
             n == v.saturated
             a == Rule("CLK_STD_HIGH", Above(c, w), Scaled(c, w))
             b == Rule("POWER_SATURATION", n > 0, (m * Unit * n) \div 100)
  <2>1. LoadRules(v) = << a, b >>
    BY DEF LoadRules, ClockPenalty, Scaled, Unit, w, m
  <2>2. c \in Nat \cup {-1} /\ n \in Nat
    BY <1>5 DEF Typed, NaN
  <2> HIDE DEF c, n
  <2>3. Above(c, w) <=> c > w
    BY <1>1, <2>2 DEF Above, NaN
  <2>4. Scaled(c, w) \in Int
    <3>1. c \in Int
      BY <2>2
    <3> QED
      BY <1>1, <3>1, ScaledIsInt, ZenonT(60)
  <2>5. /\ a.penalty = Scaled(c, w) /\ (a.fires <=> c > w)
        /\ b.penalty = P(n) /\ (b.fires <=> n > 0)
    <3>1. a.penalty = Scaled(c, w) /\ b.penalty = (m * Unit * n) \div 100
      BY Zenon DEF Rule
    <3>2. (a.fires <=> Above(c, w)) /\ (b.fires <=> n > 0)
      BY Zenon DEF Rule
    <3> HIDE DEF a, b
    <3> QED
      BY <1>2, <2>2, <2>3, <3>1, <3>2
  <2>6. "PROBE_STALE" \notin {a.reason, b.reason}
    BY DEF Rule
  <2> HIDE DEF a, b
  <2>7. P(n) \in Nat
    BY <1>2, <2>2
  <2>8. /\ Total(LoadRules(v)) = Price(a) + Price(b)
        /\ FiredIn(LoadRules(v)) = {r \in {a, b} : r.fires}
    BY <2>1, <2>4, <2>5, <2>7, TwoRules
  <2>9. Price(a) = Clock(c) /\ Price(b) = P(n)
    BY <1>3, <2>2, <2>5 DEF Price
  <2>10. Quiet(LoadRules(v)) <=> ~ (c > w \/ n > 0)
    BY <2>5, <2>6, <2>8 DEF Quiet
  <2> QED
    BY <2>2, <2>8, <2>9, <2>10 DEF c, n
<1> HIDE DEF Clock
<1>6. ASSUME NEW z, Typed(z), Worse(y, z)
      PROVE  Total(LoadRules(y)) <= Total(LoadRules(z))
  <2>1. y.clk_std <= z.clk_std /\ y.saturated <= z.saturated
    BY <1>6 DEF Worse
  <2>2. Clock(y.clk_std) <= Clock(z.clk_std) /\ P(y.saturated) <= P(z.saturated)
    BY <1>2, <1>4, <1>5, <1>6, <2>1
  <2>3. {Clock(y.clk_std), Clock(z.clk_std), P(y.saturated), P(z.saturated)} \subseteq Nat
    BY <1>2, <1>4, <1>5, <1>6, SMTT(30)
  <2> QED
    BY <1>5, <1>6, <2>2, <2>3
<1>7. Clock(y.clk_std) \in Nat /\ P(y.saturated) \in Nat
  BY <1>2, <1>4, <1>5
<1>8. ASSUME EveryPenaltyCounts
      PROVE  Total(LoadRules(y)) = 0 <=> Quiet(LoadRules(y))
  <2>1. m # 0
    BY <1>8 DEF EveryPenaltyCounts, m
  <2>2. y.clk_std > w <=> Clock(y.clk_std) > 0
    BY <1>4, <1>5 DEF Clock
  <2>3. y.saturated > 0 <=> P(y.saturated) > 0
    BY <1>2, <1>3, <1>5, <2>1
  <2> QED
    BY <1>5, <1>7, <2>2, <2>3
<1> QED
  BY <1>5, <1>6, <1>7, <1>8

\* ECC, retired pages and row remapping.
LEMMA MemoryCost ==
  ASSUME NEW y, Typed(y)
  PROVE  /\ Total(MemoryRules(y)) \in Nat
         /\ TiersOrdered => \A z : Typed(z) /\ Worse(y, z) =>
              Total(MemoryRules(y)) <= Total(MemoryRules(z))
         /\ EveryPenaltyCounts =>
              (Total(MemoryRules(y)) = 0 <=> Quiet(MemoryRules(y)))
         /\ y.dbe => Total(MemoryRules(y)) >= 100 * cfg.ecc_dbe_penalty
         /\ y.remap_failures > 0 =>
              Total(MemoryRules(y)) >= 100 * cfg.row_remap_failure_penalty
<1> DEFINE sp == cfg.ecc_sbe_penalty
           dp == cfg.ecc_dbe_penalty
           wp == cfg.retired_pages_pen_warn
           bp == cfg.retired_pages_pen_bad
           rp == cfg.row_remap_failure_penalty
           rate == cfg.ecc_sbe_rate_warn_per_hour
           bad == cfg.retired_pages_bad
           warn == cfg.retired_pages_warn
           Pages(n) == IF n >= bad THEN 100 * bp ELSE IF n >= warn THEN 100 * wp ELSE 0
           Sbe(n) == IF n > rate THEN 100 * sp ELSE 0
           Dbe(q) == IF q THEN 100 * dp ELSE 0
           Remap(n) == IF n > 0 THEN 100 * rp ELSE 0
<1>1. {sp, dp, wp, bp, rp, rate, bad, warn} \subseteq Nat
  BY ConfigAssumption, SMTT(30)
<1> HIDE DEF sp, dp, wp, bp, rp, rate, bad, warn
<1>2. ASSUME NEW v, Typed(v)
      PROVE  /\ {v.sbe_rate, v.retired, v.remap_failures} \subseteq Nat
             /\ Total(MemoryRules(v))
                  = Sbe(v.sbe_rate) + Dbe(v.dbe) + Pages(v.retired) + Remap(v.remap_failures)
             /\ Quiet(MemoryRules(v)) <=>
                  ~ (\/ v.sbe_rate > rate \/ v.dbe \/ v.retired >= bad \/ v.retired >= warn
                     \/ v.remap_failures > 0)
  <2> DEFINE s == v.sbe_rate
             n == v.retired
             f == v.remap_failures
             q == v.dbe
             a == Rule("ECC_SBE_HIGH", s > rate, sp * Unit)
             b == Rule("ECC_DBE_ACTIVE", q, dp * Unit)
             c == Rule("RETIRED_PAGES_BAD", n >= bad, bp * Unit)
             d == Rule("RETIRED_PAGES_WARN", n < bad /\ n >= warn, wp * Unit)
             e == Rule("ROW_REMAP", f > 0, rp * Unit)
  <2>1. MemoryRules(v) = << a, b, c, d, e >>
    BY DEF MemoryRules, sp, dp, wp, bp, rp, rate, bad, warn
  <2>2. s \in Nat /\ n \in Nat /\ f \in Nat
    BY <1>2 DEF Typed
  <2> HIDE DEF s, n, f, q
  <2>3. /\ a.penalty = 100 * sp /\ (a.fires <=> s > rate)
        /\ b.penalty = 100 * dp /\ (b.fires <=> q)
        /\ c.penalty = 100 * bp /\ (c.fires <=> n >= bad)
        /\ d.penalty = 100 * wp /\ (d.fires <=> n < bad /\ n >= warn)
        /\ e.penalty = 100 * rp /\ (e.fires <=> f > 0)
    <3>1. /\ a.penalty = sp * 100 /\ b.penalty = dp * 100 /\ c.penalty = bp * 100
          /\ d.penalty = wp * 100 /\ e.penalty = rp * 100
      BY DEF Rule, Unit
    <3>2. /\ a.fires <=> s > rate
          /\ b.fires <=> q
          /\ c.fires <=> n >= bad
          /\ d.fires <=> n < bad /\ n >= warn
          /\ e.fires <=> f > 0
      BY Zenon DEF Rule
    <3> HIDE DEF a, b, c, d, e
    <3> QED
      BY <1>1, <3>1, <3>2
  <2>4. "PROBE_STALE" \notin {a.reason, b.reason, c.reason, d.reason, e.reason}
    BY DEF Rule
  <2> HIDE DEF a, b, c, d, e
  <2>5. /\ Total(MemoryRules(v)) = Price(a) + Price(b) + Price(c) + Price(d) + Price(e)
        /\ FiredIn(MemoryRules(v)) = {r \in {a, b, c, d, e} : r.fires}
    <3>1. {a.penalty, b.penalty, c.penalty, d.penalty, e.penalty} \subseteq Int
      BY <1>1, <2>3
    <3> QED
      BY <2>1, <3>1, FiveRules
  <2>6. /\ Price(a) = Sbe(s) /\ Price(b) = Dbe(q) /\ Price(e) = Remap(f)
        /\ Price(c) + Price(d) = Pages(n)
        /\ {Price(a), Price(b), Price(c), Price(d), Price(e)} \subseteq Nat
    BY <1>1, <2>2, <2>3 DEF Price
  <2> HIDE DEF Pages, Sbe, Dbe, Remap
  <2>7. Total(MemoryRules(v)) = Sbe(s) + Dbe(q) + Pages(n) + Remap(f)
    BY <2>5, <2>6
  <2>8. Quiet(MemoryRules(v)) <=> ~ (a.fires \/ b.fires \/ c.fires \/ d.fires \/ e.fires)
    BY <2>4, <2>5 DEF Quiet
  <2>9. Quiet(MemoryRules(v)) <=>
          ~ (s > rate \/ q \/ n >= bad \/ n >= warn \/ f > 0)
    BY <1>1, <2>2, <2>3, <2>8
  <2> QED
    BY <2>2, <2>7, <2>9 DEF s, n, f, q
<1>3. ASSUME NEW z, Typed(z), Worse(y, z), TiersOrdered
      PROVE  Total(MemoryRules(y)) <= Total(MemoryRules(z))
  <2>1. /\ y.sbe_rate <= z.sbe_rate /\ y.retired <= z.retired
        /\ y.remap_failures <= z.remap_failures /\ (y.dbe => z.dbe)
    BY <1>3 DEF Worse
  <2>2. wp <= bp
    BY <1>3 DEF TiersOrdered, wp, bp
  <2>3. /\ {y.sbe_rate, y.retired, y.remap_failures} \subseteq Nat
        /\ {z.sbe_rate, z.retired, z.remap_failures} \subseteq Nat
    BY <1>2, <1>3
  <2>4. /\ Sbe(y.sbe_rate) <= Sbe(z.sbe_rate) /\ Dbe(y.dbe) <= Dbe(z.dbe)
        /\ Pages(y.retired) <= Pages(z.retired)
        /\ Remap(y.remap_failures) <= Remap(z.remap_failures)
    BY <1>1, <2>1, <2>2, <2>3
  <2>5. /\ {Sbe(y.sbe_rate), Dbe(y.dbe), Pages(y.retired), Remap(y.remap_failures)} \subseteq Nat
        /\ {Sbe(z.sbe_rate), Dbe(z.dbe), Pages(z.retired), Remap(z.remap_failures)} \subseteq Nat
    BY <1>1
  <2> HIDE DEF Pages, Sbe, Dbe, Remap
  <2> QED
    BY <1>2, <1>3, <2>4, <2>5
<1>4. ASSUME EveryPenaltyCounts
      PROVE  Total(MemoryRules(y)) = 0 <=> Quiet(MemoryRules(y))
  <2>1. 0 \notin {sp, dp, wp, bp, rp}
    BY <1>4 DEF EveryPenaltyCounts, sp, dp, wp, bp, rp
  <2>2. /\ {Sbe(y.sbe_rate), Dbe(y.dbe), Pages(y.retired), Remap(y.remap_failures)} \subseteq Nat
        /\ Sbe(y.sbe_rate) = 0 <=> ~ (y.sbe_rate > rate)
        /\ Dbe(y.dbe) = 0 <=> ~ y.dbe
        /\ Pages(y.retired) = 0 <=> ~ (y.retired >= bad \/ y.retired >= warn)
        /\ Remap(y.remap_failures) = 0 <=> ~ (y.remap_failures > 0)
    BY <1>1, <1>2, <2>1
  <2> HIDE DEF Pages, Sbe, Dbe, Remap
  <2>3. Total(MemoryRules(y)) = 0 <=> /\ Sbe(y.sbe_rate) = 0 /\ Dbe(y.dbe) = 0
                                      /\ Pages(y.retired) = 0
                                      /\ Remap(y.remap_failures) = 0
    BY <1>2, <2>2
  <2> QED
    BY <1>2, <2>2, <2>3
<1>5. /\ Total(MemoryRules(y)) \in Nat
      /\ y.dbe => Total(MemoryRules(y)) >= 100 * dp
      /\ y.remap_failures > 0 => Total(MemoryRules(y)) >= 100 * rp
  BY <1>1, <1>2
<1> QED
  BY <1>3, <1>4, <1>5 DEF dp, rp

\* The PCIe link.
LEMMA LinkCost ==
  ASSUME NEW y, Typed(y)
  PROVE  /\ Total(LinkRules(y)) \in Nat
         /\ \A z : Typed(z) /\ Worse(y, z) => Total(LinkRules(y)) <= Total(LinkRules(z))
         /\ EveryPenaltyCounts =>
              (Total(LinkRules(y)) = 0 <=> Quiet(LinkRules(y)))
<1> DEFINE gp == cfg.pcie_link_degraded_penalty
           wp == cfg.pcie_width_degraded_penalty
           Gen(v) == IF Degraded(v.gen, v.gen_max) THEN 100 * gp ELSE 0
           Width(v) == IF Degraded(v.width, v.width_max) THEN 100 * wp ELSE 0
<1>1. gp \in Nat /\ wp \in Nat
  BY ConfigAssumption
<1> HIDE DEF gp, wp
<1>2. ASSUME NEW v
      PROVE  /\ Total(LinkRules(v)) = Gen(v) + Width(v)
             /\ Quiet(LinkRules(v)) <=>
                  ~ (Degraded(v.gen, v.gen_max) \/ Degraded(v.width, v.width_max))
  <2> DEFINE a == Rule("PCIE_GEN", Degraded(v.gen, v.gen_max), gp * Unit)
             b == Rule("PCIE_WIDTH", Degraded(v.width, v.width_max), wp * Unit)
  <2>1. LinkRules(v) = << a, b >>
    BY DEF LinkRules, gp, wp
  <2>2. a.penalty = 100 * gp /\ b.penalty = 100 * wp
    BY <1>1 DEF Rule, Unit
  <2>3. /\ a.fires <=> Degraded(v.gen, v.gen_max)
        /\ b.fires <=> Degraded(v.width, v.width_max)
    BY Zenon DEF Rule
  <2>4. "PROBE_STALE" \notin {a.reason, b.reason}
    BY DEF Rule
  <2> HIDE DEF a, b
  <2>5. /\ Total(LinkRules(v)) = Price(a) + Price(b)
        /\ FiredIn(LinkRules(v)) = {r \in {a, b} : r.fires}
    BY <1>1, <2>1, <2>2, TwoRules
  <2>6. Price(a) = Gen(v) /\ Price(b) = Width(v)
    BY <2>2, <2>3 DEF Price
  <2> QED
    BY <2>3, <2>4, <2>5, <2>6 DEF Quiet
<1>3. ASSUME NEW v PROVE Gen(v) \in Nat /\ Width(v) \in Nat
  BY <1>1
<1>4. ASSUME NEW z, Typed(z), Worse(y, z)
      PROVE  Total(LinkRules(y)) <= Total(LinkRules(z))
  <2>1. /\ {y.gen, y.width, y.gen_max, y.width_max} \subseteq Nat
        /\ {z.gen, z.width, z.gen_max, z.width_max} \subseteq Nat
    BY <1>4 DEF Typed
  <2>2. /\ Degraded(y.gen, y.gen_max) => Degraded(z.gen, z.gen_max)
        /\ Degraded(y.width, y.width_max) => Degraded(z.width, z.width_max)
    BY <1>4, <2>1 DEF Worse, Degraded
  <2>3. Gen(y) <= Gen(z) /\ Width(y) <= Width(z)
    BY <1>1, <2>2
  <2> HIDE DEF Gen, Width
  <2> QED
    BY <1>2, <1>3, <2>3
<1>5. ASSUME EveryPenaltyCounts
      PROVE  Total(LinkRules(y)) = 0 <=> Quiet(LinkRules(y))
  <2>1. gp # 0 /\ wp # 0
    BY <1>5 DEF EveryPenaltyCounts, gp, wp
  <2> QED
    BY <1>1, <1>2, <2>1
<1>6. Total(LinkRules(y)) \in Nat
  <2> HIDE DEF Gen, Width
  <2> QED
    BY <1>2, <1>3
<1> QED
  BY <1>4, <1>5, <1>6

\* Perf/W.
LEMMA PerfCost ==
  ASSUME NEW y, Typed(y)
  PROVE  /\ Total(PerfRules(y)) \in Nat
         /\ TiersOrdered => \A z : Typed(z) /\ Worse(y, z) =>
              Total(PerfRules(y)) <= Total(PerfRules(z))
         /\ EveryPenaltyCounts =>
              (Total(PerfRules(y)) = 0 <=> Quiet(PerfRules(y)))
         /\ PerfComparable(y) /\ y.drop > cfg.perf_drop_severe =>
              Total(PerfRules(y)) >= 100 * cfg.perf_drop_pen_severe
<1> DEFINE ps == cfg.perf_drop_pen_severe
           pb == cfg.perf_drop_pen_bad
           pw == cfg.perf_drop_pen_warn
           ts == cfg.perf_drop_severe
           tb == cfg.perf_drop_bad
           tw == cfg.perf_drop_warn
           Drop(n) == IF n > ts THEN 100 * ps
                      ELSE IF n > tb THEN 100 * pb
                      ELSE IF n > tw THEN 100 * pw ELSE 0
<1>1. {ps, pb, pw, ts, tb, tw} \subseteq Nat /\ tw < tb /\ tb < ts
  BY ConfigAssumption
<1> HIDE DEF ps, pb, pw, ts, tb, tw
<1>2. ASSUME NEW v, Typed(v)
      PROVE  /\ v.drop \in Nat
             /\ Total(PerfRules(v)) = IF PerfComparable(v) THEN Drop(v.drop) ELSE 0
             /\ Quiet(PerfRules(v)) <=> ~ (PerfComparable(v) /\ v.drop > tw)
  <2> DEFINE n == v.drop
             p == PerfComparable(v)
             q == v.probe_stale
             a == Rule("PERF_DROP_SEVERE", p /\ n > ts, ps * Unit)
             b == Rule("PERF_DROP_BAD", p /\ n <= ts /\ n > tb, pb * Unit)
             c == Rule("PERF_DROP_WARN", p /\ n <= tb /\ n > tw, pw * Unit)
             d == Rule("PROBE_STALE", q, 0)
  <2>1. PerfRules(v) = << a, b, c, d >>
    BY DEF PerfRules, ps, pb, pw, ts, tb, tw
  <2>2. n \in Nat
    BY <1>2 DEF Typed
  <2> HIDE DEF n, p, q
  <2>3. /\ a.penalty = 100 * ps /\ (a.fires <=> p /\ n > ts)
        /\ b.penalty = 100 * pb /\ (b.fires <=> p /\ n <= ts /\ n > tb)
        /\ c.penalty = 100 * pw /\ (c.fires <=> p /\ n <= tb /\ n > tw)
        /\ d.penalty = 0
    <3>1. /\ a.penalty = ps * 100 /\ b.penalty = pb * 100 /\ c.penalty = pw * 100
          /\ d.penalty = 0
      BY DEF Rule, Unit
    <3>2. /\ a.fires <=> p /\ n > ts
          /\ b.fires <=> p /\ n <= ts /\ n > tb
          /\ c.fires <=> p /\ n <= tb /\ n > tw
      BY Zenon DEF Rule
    <3> HIDE DEF a, b, c, d
    <3> QED
      BY <1>1, <3>1, <3>2
  <2>4. "PROBE_STALE" \notin {a.reason, b.reason, c.reason} /\ d.reason = "PROBE_STALE"
    BY DEF Rule
  <2> HIDE DEF a, b, c, d
  <2>5. /\ Total(PerfRules(v)) = Price(a) + Price(b) + Price(c) + Price(d)
        /\ FiredIn(PerfRules(v)) = {r \in {a, b, c, d} : r.fires}
    <3>1. {a.penalty, b.penalty, c.penalty, d.penalty} \subseteq Int
      BY <1>1, <2>3
    <3> QED
      BY <2>1, <3>1, FourRules
  <2>6. Price(d) = 0 /\ Price(a) + Price(b) + Price(c) = IF p THEN Drop(n) ELSE 0
    BY <1>1, <2>2, <2>3 DEF Price
  <2>7. {Price(a), Price(b), Price(c)} \subseteq Int
    BY <1>1, <2>3 DEF Price
  <2>8. Total(PerfRules(v)) = IF p THEN Drop(n) ELSE 0
    <3> HIDE DEF Drop
    <3> QED
      BY <2>5, <2>6, <2>7
  <2>9. Quiet(PerfRules(v)) <=> ~ (a.fires \/ b.fires \/ c.fires)
    BY <2>4, <2>5 DEF Quiet
  <2>10. Quiet(PerfRules(v)) <=> ~ (p /\ n > tw)
    BY <1>1, <2>2, <2>3, <2>9
  <2> QED
    BY <2>2, <2>8, <2>10 DEF n, p
<1>3. ASSUME NEW z, Typed(z), Worse(y, z), TiersOrdered
      PROVE  Total(PerfRules(y)) <= Total(PerfRules(z))
  <2>1. y.drop <= z.drop /\ (PerfComparable(y) <=> PerfComparable(z))
    BY <1>3 DEF Worse
  <2>2. pw <= pb /\ pb <= ps
    BY <1>3 DEF TiersOrdered, pw, pb, ps
  <2>3. y.drop \in Nat /\ z.drop \in Nat
    BY <1>2, <1>3
  <2>4. Drop(y.drop) <= Drop(z.drop)
    BY <1>1, <2>1, <2>2, <2>3
  <2> HIDE DEF Drop
  <2> QED
    BY <1>2, <1>3, <2>1, <2>4
<1>4. ASSUME EveryPenaltyCounts
      PROVE  Total(PerfRules(y)) = 0 <=> Quiet(PerfRules(y))
  <2>1. 0 \notin {ps, pb, pw}
    BY <1>4 DEF EveryPenaltyCounts, ps, pb, pw
  <2> QED
    BY <1>1, <1>2, <2>1
<1>5. /\ Total(PerfRules(y)) \in Nat
      /\ PerfComparable(y) /\ y.drop > ts => Total(PerfRules(y)) >= 100 * ps
  BY <1>1, <1>2
<1> QED
  BY <1>3, <1>4, <1>5 DEF ps, ts

\* The reasons of a result.
ReasonsOf(y) == {r.reason : r \in Fired(y)}

\* All categories together.
LEMMA ChargedFacts ==
  ASSUME NEW y, Typed(y)
  PROVE  /\ Charged(y) \in Nat
         /\ TiersOrdered => \A z : Typed(z) /\ Worse(y, z) => Charged(y) <= Charged(z)
         /\ EveryPenaltyCounts =>
              (Charged(y) = 0 <=> ReasonsOf(y) \subseteq {"PROBE_STALE"})
         /\ Total(ThermalRules(y)) <= Charged(y) /\ Total(MemoryRules(y)) <= Charged(y)
         /\ Total(PerfRules(y)) <= Charged(y)
<1> DEFINE A(v) == Total(ThermalRules(v))
           B(v) == Total(LoadRules(v))
           C(v) == Total(MemoryRules(v))
           D(v) == Total(LinkRules(v))
           E(v) == Total(PerfRules(v))
<1>1. \A v : Charged(v) = A(v) + B(v) + C(v) + D(v) + E(v)
  BY DEF Charged
<1>2. ASSUME NEW v, Typed(v)
      PROVE  A(v) \in Nat /\ B(v) \in Nat /\ C(v) \in Nat /\ D(v) \in Nat /\ E(v) \in Nat
  BY <1>2, ThermalCost, LoadCost, MemoryCost, LinkCost, PerfCost
<1>3. ASSUME TiersOrdered, NEW z, Typed(z), Worse(y, z)
      PROVE  /\ A(y) <= A(z) /\ B(y) <= B(z) /\ C(y) <= C(z)
             /\ D(y) <= D(z) /\ E(y) <= E(z)
  BY <1>3, ThermalCost, LoadCost, MemoryCost, LinkCost, PerfCost
<1>4. ASSUME EveryPenaltyCounts
      PROVE  /\ A(y) = 0 <=> Quiet(ThermalRules(y))
             /\ B(y) = 0 <=> Quiet(LoadRules(y))
             /\ C(y) = 0 <=> Quiet(MemoryRules(y))
             /\ D(y) = 0 <=> Quiet(LinkRules(y))
             /\ E(y) = 0 <=> Quiet(PerfRules(y))
  BY <1>4, ThermalCost, LoadCost, MemoryCost, LinkCost, PerfCost
<1>5. ReasonsOf(y) \subseteq {"PROBE_STALE"}
        <=> /\ Quiet(ThermalRules(y)) /\ Quiet(LoadRules(y)) /\ Quiet(MemoryRules(y))
            /\ Quiet(LinkRules(y)) /\ Quiet(PerfRules(y))
  BY DEF Fired, Quiet, ReasonsOf
<1> HIDE DEF A, B, C, D, E
<1>6. Charged(y) \in Nat /\ A(y) <= Charged(y) /\ C(y) <= Charged(y) /\ E(y) <= Charged(y)
  BY <1>1, <1>2
<1>7. ASSUME TiersOrdered, NEW z, Typed(z), Worse(y, z)
      PROVE  Charged(y) <= Charged(z)
  BY <1>1, <1>2, <1>3, <1>7
<1>8. Charged(y) = 0 <=> (A(y) = 0 /\ B(y) = 0 /\ C(y) = 0 /\ D(y) = 0 /\ E(y) = 0)
  <2>1. A(y) \in Nat /\ B(y) \in Nat /\ C(y) \in Nat /\ D(y) \in Nat /\ E(y) \in Nat
    BY <1>2
  <2>2. Charged(y) = A(y) + B(y) + C(y) + D(y) + E(y)
    BY <1>1
  <2> QED
    BY <2>1, <2>2
<1> QED
  BY <1>4, <1>5, <1>6, <1>7, <1>8 DEF A, C, E

\* The score is what is left of 100 points, and not below 0.
LEMMA ScoreLeft ==
  ASSUME NEW y, Typed(y)
  PROVE  Clamp(100 * Unit - Charged(y))
           = IF Charged(y) <= 10000 THEN 10000 - Charged(y) ELSE 0
<1> DEFINE c == Charged(y)
           left == 10000 - c
<1>1. c \in Nat
  BY ChargedFacts
<1> HIDE DEF c
<1>2. left \in Int /\ Clamp(100 * Unit - c) = Max({0, left})
  BY <1>1 DEF Clamp, Unit
<1> HIDE DEF left
<1>3. Max({0, left}) = IF 0 >= left THEN 0 ELSE left
  BY <1>2, GreatestOfTwo
<1>4. Clamp(100 * Unit - c) = IF c <= 10000 THEN 10000 - c ELSE 0
  BY <1>1, <1>2, <1>3 DEF left
<1> QED
  BY <1>4 DEF c

-----------------------------------------------------------------------------
(* Module ScoreSignals.                                                    *)

\* Every signal has a possible value, and the result is that of the signals.
SignalsTyped ==
  /\ DOMAIN x = Signals
  /\ \A s \in Signals : x[s] \in Possible(s)
ScorerInv ==
  /\ telemetry_ok \in BOOLEAN
  /\ x = [s \in Signals |-> x[s]]
  /\ SignalsTyped
  /\ out = score_gpu(telemetry_ok, x)

\* What the domains contain is what the rules expect.
LEMMA SignalsAreTyped ==
  ASSUME NEW y, DOMAIN y = Signals,
         \A s \in Signals : y[s] \in Possible(s)
  PROVE  Typed(y)
<1>1. {y.temp_p95, y.hbm_p95, y.clk_std} \subseteq Nat \cup {NaN}
  BY DEF Signals, Possible
<1>2. {y.saturated, y.sbe_rate, y.retired, y.remap_failures, y.drop} \subseteq Nat
  <2>1. y.saturated \in 0 .. 100 /\ y.drop \in 0 .. 100
    BY DEF Signals, Possible
  <2>2. {y.sbe_rate, y.retired, y.remap_failures} \subseteq Nat
    BY DEF Signals, Possible
  <2> QED
    BY <2>1, <2>2
<1>3. {y.gen, y.gen_max, y.width, y.width_max} \subseteq 0 .. 16
  BY DEF Signals, Possible
<1>4. {y.dbe, y.baseline_ok, y.probe_available, y.probe_stale} \subseteq BOOLEAN
  BY DEF Signals, Possible
<1> QED
  BY <1>1, <1>2, <1>3, <1>4 DEF Typed

\* Every step of module ScoreSignals keeps the invariant.
LEMMA ScorerInvHolds ==
  /\ SignalsInit => ScorerInv
  /\ ScorerInv /\ [SignalsNext]_signalVars => ScorerInv'
<1>1. SignalsInit => ScorerInv
  <2> SUFFICES ASSUME SignalsInit PROVE ScorerInv
    OBVIOUS
  <2>1. /\ telemetry_ok = FALSE /\ out = score_gpu(telemetry_ok, x)
        /\ x = [s \in Signals |-> CHOOSE v \in Domain[s] : TRUE]
    BY DEF SignalsInit
  <2>2. ASSUME NEW s \in Signals PROVE x[s] \in Possible(s)
    <3>1. Domain[s] # {} /\ Domain[s] \subseteq Possible(s)
      BY DomainAssumption DEF DomainTyped
    <3>2. x[s] = CHOOSE v \in Domain[s] : TRUE
      BY <2>1
    <3>3. x[s] \in Domain[s]
      BY <3>1, <3>2
    <3> QED
      BY <3>1, <3>3
  <2>3. DOMAIN x = Signals /\ x = [s \in Signals |-> x[s]]
    BY <2>1
  <2> QED
    BY <2>1, <2>2, <2>3 DEF ScorerInv, SignalsTyped
<1>2. ScorerInv /\ [SignalsNext]_signalVars => ScorerInv'
  <2> SUFFICES ASSUME ScorerInv, [SignalsNext]_signalVars PROVE ScorerInv'
    OBVIOUS
  <2>1. CASE TelemetryChanges
    BY <2>1 DEF TelemetryChanges, ScorerInv, SignalsTyped
  <2>2. ASSUME NEW s \in Signals, SignalChanges(s)
        PROVE  ScorerInv'
    <3>1. PICK v \in Domain[s] \ {x[s]} : x' = [x EXCEPT ![s] = v]
      BY <2>2 DEF SignalChanges
    <3>2. telemetry_ok' = telemetry_ok /\ out' = score_gpu(telemetry_ok, x')
      BY <2>2 DEF SignalChanges
    <3>3. v \in Possible(s)
      BY DomainAssumption DEF DomainTyped
    <3>4. SignalsTyped' /\ (x = [q \in Signals |-> x[q]])'
      BY <3>1, <3>3 DEF ScorerInv, SignalsTyped
    <3> QED
      BY <3>2, <3>4 DEF ScorerInv
  <2>3. CASE UNCHANGED signalVars
    BY <2>3 DEF signalVars, ScorerInv, SignalsTyped
  <2> QED
    BY <2>1, <2>2, <2>3 DEF SignalsNext
<1> QED
  BY <1>1, <1>2

\* What the invariant says of a result with a score.
LEMMA ScoredResult ==
  ASSUME ScorerInv, telemetry_ok
  PROVE  /\ Typed(x) /\ Charged(x) \in Nat
         /\ out.score = IF Charged(x) <= 10000 THEN 10000 - Charged(x) ELSE 0
         /\ out.classification = Classify(out.score)
         /\ out.reasons = ReasonsOf(x)
<1>1. Typed(x)
  BY SignalsAreTyped DEF ScorerInv, SignalsTyped
<1> DEFINE score == Clamp(100 * Unit - Charged(x))
<1>2. out = [telemetry_ok |-> TRUE, score |-> score, classification |-> Classify(score),
             reasons |-> ReasonsOf(x)]
  BY DEF ScorerInv, score_gpu, ReasonsOf
<1>3. Charged(x) \in Nat /\ score = IF Charged(x) <= 10000 THEN 10000 - Charged(x) ELSE 0
  BY <1>1, ChargedFacts, ScoreLeft
<1> HIDE DEF score
<1>4. out.score = score /\ out.classification = Classify(score) /\ out.reasons = ReasonsOf(x)
  BY <1>2
<1> QED
  BY <1>1, <1>3, <1>4

(***************************************************************************)
(* For every accepted configuration in which no penalty is 0: the score is *)
(* full exactly when there is no reason other than a stale probe           *)
(* (scorer.c:166-322).                                                     *)
(***************************************************************************)
THEOREM ReasonsExplain ==
  EveryPenaltyCounts => (SignalsSpec => []ReasonsExplainScore)
<1> SUFFICES ASSUME EveryPenaltyCounts PROVE SignalsSpec => []ReasonsExplainScore
  OBVIOUS
<1>1. ScorerInv => ReasonsExplainScore
  <2> SUFFICES ASSUME ScorerInv, telemetry_ok
               PROVE  out.score = 10000 <=> out.reasons \subseteq {"PROBE_STALE"}
    BY DEF ReasonsExplainScore, Unit
  <2>1. /\ Typed(x) /\ Charged(x) \in Nat
        /\ out.score = IF Charged(x) <= 10000 THEN 10000 - Charged(x) ELSE 0
        /\ out.reasons = ReasonsOf(x)
    BY ScoredResult
  <2>2. Charged(x) = 0 <=> ReasonsOf(x) \subseteq {"PROBE_STALE"}
    BY <2>1, ChargedFacts
  <2>3. out.score = 10000 <=> Charged(x) = 0
    BY <2>1
  <2> QED
    BY <2>1, <2>2, <2>3
<1> QED
  BY <1>1, ScorerInvHolds, PTL DEF SignalsSpec

(***************************************************************************)
(* For every accepted configuration whose penalties for corruption, failed *)
(* remapping and a severe drop exceed 15 points: none of the critical      *)
(* signals goes with the class HEALTHY, whatever the thresholds are and    *)
(* the other signals say; a drop is critical if the code compares it,      *)
(* which it does not for a result of 0 (scorer.c:302, 326-334).            *)
(***************************************************************************)
THEOREM CriticalIsSeen == CriticalPenalties => (SignalsSpec => []CriticalNeverHealthy)
<1> SUFFICES ASSUME CriticalPenalties PROVE SignalsSpec => []CriticalNeverHealthy
  OBVIOUS
<1>1. ScorerInv => CriticalNeverHealthy
  <2> DEFINE Critical == \/ x.dbe \/ x.remap_failures > 0
                         \/ x.temp_p95 > cfg.temp_p95_bad_c
                         \/ x.hbm_p95 > cfg.hbm_temp_p95_bad_c
                         \/ (PerfComparable(x) /\ x.drop > cfg.perf_drop_severe)
  <2> SUFFICES ASSUME ScorerInv, telemetry_ok, Critical
               PROVE  out.classification # "HEALTHY"
    BY DEF CriticalNeverHealthy
  <2>1. /\ Typed(x) /\ Charged(x) \in Nat
        /\ out.score = IF Charged(x) <= 10000 THEN 10000 - Charged(x) ELSE 0
        /\ out.classification = Classify(out.score)
    BY ScoredResult
  <2>2. Charged(x) > 1500
    <3> DEFINE c == Charged(x)
               t == Total(ThermalRules(x))
               m == Total(MemoryRules(x))
               p == Total(PerfRules(x))
               dp == cfg.ecc_dbe_penalty
               rp == cfg.row_remap_failure_penalty
               sp == cfg.perf_drop_pen_severe
    <3>1. c \in Nat /\ t <= c /\ m <= c /\ p <= c
      BY <2>1, ChargedFacts
    <3>2. t \in Nat /\ m \in Nat /\ p \in Nat
      BY <2>1, ThermalCost, MemoryCost, PerfCost
    <3>3. {dp, rp, sp} \subseteq Nat /\ dp > 15 /\ rp > 15 /\ sp > 15
      BY ConfigAssumption DEF CriticalPenalties
    <3>4. t >= 2500 \/ m >= 100 * dp \/ m >= 100 * rp \/ p >= 100 * sp
      BY <2>1, ThermalCost, MemoryCost, PerfCost
    <3> HIDE DEF c, t, m, p, dp, rp, sp
    <3>5. c > 1500
      BY <3>1, <3>2, <3>3, <3>4
    <3> QED
      BY <3>5 DEF c
  <2>3. out.score \in Int /\ out.score < 8500
    BY <2>1, <2>2
  <2>4. Classify(out.score) # "HEALTHY"
    BY <2>3 DEF Classify, Unit
  <2> QED
    BY <2>1, <2>4
<1> QED
  BY <1>1, ScorerInvHolds, PTL DEF SignalsSpec

-----------------------------------------------------------------------------
\* A change of one signal that is for the worse makes the vector worse.
LEMMA WorseByOne ==
  ASSUME ScorerInv, NEW s \in Signals, SignalChanges(s), SignalsTyped',
         ~ FallsToZero, \E q \in Measured : Badness(q, x') > Badness(q, x)
  PROVE  Worse(x, x')
<1>1. PICK v \in Domain[s] \ {x[s]} : x' = [x EXCEPT ![s] = v]
  BY DEF SignalChanges
<1>2. /\ DOMAIN x = Signals /\ DOMAIN x' = Signals /\ x'[s] = v
      /\ \A q \in Signals \ {s} : x'[q] = x[q]
  BY <1>1 DEF ScorerInv, SignalsTyped
<1>3. Typed(x) /\ Typed(x')
  <2>1. Typed(x)
    BY SignalsAreTyped DEF ScorerInv, SignalsTyped
  <2>2. DOMAIN x' = Signals /\ \A q \in Signals : x'[q] \in Possible(q)
    BY DEF SignalsTyped
  <2> QED
    BY <2>1, <2>2, SignalsAreTyped
<1>4. s \in Measured /\ Badness(s, x') > Badness(s, x)
  <2>1. PICK q \in Measured : Badness(q, x') > Badness(q, x)
    OBVIOUS
  <2>2. q = s
    <3> SUFFICES ASSUME q # s PROVE FALSE
      OBVIOUS
    <3>1. q \in Signals /\ x'[q] = x[q]
      BY <1>2 DEF Measured, Signals
    <3>2. Badness(q, x') = Badness(q, x)
      BY <3>1 DEF Badness
    <3>3. Badness(q, x) \in Int
      BY <1>3 DEF Badness, Measured, Typed, NaN
    <3> QED
      BY <2>1, <3>2, <3>3
  <2> QED
    BY <2>1, <2>2
<1> DEFINE Up == {"temp_p95", "hbm_p95", "clk_std", "saturated", "sbe_rate", "retired",
                  "remap_failures", "drop"}
<1>5. ASSUME NEW q \in Up PROVE x[q] <= x'[q]
  <2>1. x[q] \in Int /\ x'[q] \in Int
    BY <1>3 DEF Typed, NaN
  <2>2. Badness(q, x') = x'[q] /\ Badness(q, x) = x[q]
    BY DEF Badness
  <2>3. q # s => x'[q] = x[q]
    BY <1>2 DEF Signals
  <2> HIDE DEF Up
  <2> QED
    BY <1>4, <2>1, <2>2, <2>3
<1>6. ASSUME NEW q \in {"gen", "width"}
      PROVE  x[q] = 0 \/ (0 < x'[q] /\ x'[q] <= x[q])
  <2>1. x[q] \in 0 .. 16 /\ x'[q] \in 0 .. 16
    BY <1>3 DEF Typed
  <2>2. /\ Badness(q, x') = IF x'[q] = 0 THEN 0 ELSE 16 - x'[q]
        /\ Badness(q, x) = IF x[q] = 0 THEN 0 ELSE 16 - x[q]
    BY DEF Badness
  <2>3. q # s => x'[q] = x[q]
    BY <1>2 DEF Signals
  <2> QED
    BY <1>4, <2>1, <2>2, <2>3
<1>7. x.dbe => x'.dbe
  <2>1. /\ Badness("dbe", x') = IF x'["dbe"] THEN 1 ELSE 0
        /\ Badness("dbe", x) = IF x["dbe"] THEN 1 ELSE 0
    BY DEF Badness
  <2>2. "dbe" # s => x'["dbe"] = x["dbe"]
    BY <1>2 DEF Signals
  <2>3. CASE s = "dbe"
    <3>1. ~ (0 > IF x["dbe"] THEN 1 ELSE 0)
      OBVIOUS
    <3>2. x'["dbe"]
      BY <1>4, <2>1, <2>3, <3>1
    <3> QED
      BY <3>2
  <2>4. CASE s # "dbe"
    BY <2>2, <2>4
  <2> QED
    BY <2>3, <2>4
<1>8. ASSUME NEW q \in {"gen_max", "width_max", "baseline_ok", "probe_available", "probe_stale"}
      PROVE  x'[q] = x[q]
  BY <1>2, <1>4 DEF Signals, Measured
<1>9. /\ x.temp_p95 <= x'.temp_p95 /\ x.hbm_p95 <= x'.hbm_p95 /\ x.clk_std <= x'.clk_std
      /\ x.saturated <= x'.saturated /\ x.sbe_rate <= x'.sbe_rate /\ x.retired <= x'.retired
      /\ x.remap_failures <= x'.remap_failures /\ x.drop <= x'.drop
  BY <1>5
<1>10. /\ x.gen = 0 \/ (0 < x'.gen /\ x'.gen <= x.gen)
       /\ x.width = 0 \/ (0 < x'.width /\ x'.width <= x.width)
  BY <1>6
<1>11. /\ x'.gen_max = x.gen_max /\ x'.width_max = x.width_max
       /\ x'.baseline_ok = x.baseline_ok /\ x'.probe_available = x.probe_available
       /\ x'.probe_stale = x.probe_stale
  BY <1>8
<1>12. PerfComparable(x) <=> PerfComparable(x')
  <2>1. x.drop \in 0 .. 100 /\ x'.drop \in 0 .. 100
    BY DEF ScorerInv, SignalsTyped, Signals, Possible
  <2>2. x.drop < Whole <=> x'.drop < Whole
    BY <1>9, <2>1 DEF FallsToZero, Whole
  <2> QED
    BY <1>11, <2>2 DEF PerfComparable
<1> QED
  BY <1>7, <1>9, <1>10, <1>11, <1>12 DEF Worse

(***************************************************************************)
(* For every accepted configuration with the penalties of a worse level at *)
(* least those of a better one, which config_validate does not check:      *)
(* a measurement that gets worse never raises the score, unless it is a    *)
(* probe result that falls to 0, which is not compared                     *)
(* (scorer.c:170-339).                                                     *)
(***************************************************************************)
THEOREM WorseIsNeverBetter == TiersOrdered => (SignalsSpec => WorseNeverHelps)
<1> SUFFICES ASSUME TiersOrdered PROVE SignalsSpec => WorseNeverHelps
  OBVIOUS
<1> DEFINE Worsened == /\ telemetry_ok /\ telemetry_ok' /\ ~ FallsToZero
                       /\ \E s \in Measured : Badness(s, x') > Badness(s, x)
<1>1. ScorerInv /\ ScorerInv' /\ [SignalsNext]_signalVars => [Worsened => out'.score <= out.score]_signalVars
  <2> SUFFICES ASSUME ScorerInv, ScorerInv', SignalsNext, Worsened
               PROVE  out'.score <= out.score
    OBVIOUS
  <2>1. PICK s \in Signals : SignalChanges(s)
    <3>1. ~ TelemetryChanges
      BY DEF TelemetryChanges
    <3> QED
      BY <3>1 DEF SignalsNext
  <2>2. Worse(x, x')
    BY <2>1, WorseByOne DEF ScorerInv
  <2>3. /\ Typed(x) /\ Charged(x) \in Nat
        /\ out.score = IF Charged(x) <= 10000 THEN 10000 - Charged(x) ELSE 0
    BY ScoredResult
  <2>4. Typed(x')
    <3>1. DOMAIN x' = Signals /\ \A q \in Signals : x'[q] \in Possible(q)
      BY DEF ScorerInv, SignalsTyped
    <3> QED
      BY <3>1, SignalsAreTyped
  <2>5. Charged(x') \in Nat /\ Charged(x) <= Charged(x')
    BY <2>2, <2>3, <2>4, ChargedFacts
  <2>6. out'.score = IF Charged(x') <= 10000 THEN 10000 - Charged(x') ELSE 0
    <3>1. out' = score_gpu(telemetry_ok', x') /\ telemetry_ok'
      BY DEF ScorerInv
    <3>2. out'.score = Clamp(100 * Unit - Charged(x'))
      BY <3>1 DEF score_gpu
    <3> QED
      BY <2>4, <3>2, ScoreLeft
  <2> QED
    BY <2>3, <2>5, <2>6
<1> QED
  BY <1>1, ScorerInvHolds, PTL DEF SignalsSpec, WorseNeverHelps
=============================================================================
