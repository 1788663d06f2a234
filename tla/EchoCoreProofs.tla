--------------------------- MODULE EchoCoreProofs ---------------------------
(***************************************************************************)
(* Lemmas about the arithmetic of classes and about the cores, for any        *)
(* number of partitions: which classes of values a core holds and returns,     *)
(* and what its watchdog does to it.                                         *)
(*                                                                           *)
(* They are stated over a set of classes V, which is Values (the type) or      *)
(* Tame (what ordinary blocks leave behind): each is closed under every        *)
(* operation the stages compute with.                                        *)
(***************************************************************************)
EXTENDS FdafCore, TLAPS

Tame == {"zero", "fin"}

Grades == {Values, Tame}

-------------------------------------------------------------------------------
(* The arithmetic of classes *)

LEMMA GradeBase ==
  ASSUME NEW V \in Grades
  PROVE  "zero" \in V /\ "fin" \in V /\ V \subseteq Values
  BY DEF Grades, Values, Tame

LEMMA RankType == ASSUME NEW a \in Values PROVE Rank(a) \in 0 .. 4
  BY DEF Values, Rank

LEMMA WorstClosed ==
  ASSUME NEW V \in Grades, NEW a \in V, NEW b \in V PROVE Worst(a, b) \in V
  BY DEF Worst

LEMMA PlusClosed ==
  ASSUME NEW V \in Grades, NEW a \in V, NEW b \in V PROVE Plus(a, b) \in V
<1>1. CASE V = Values
  BY <1>1, WorstClosed DEF Plus, Values
<1>2. CASE V = Tame
  BY <1>2, WorstClosed DEF Plus, Tame
<1>3. QED
  BY <1>1, <1>2 DEF Grades

LEMMA TimesClosed ==
  ASSUME NEW V \in Grades, NEW a \in V, NEW b \in V PROVE Times(a, b) \in V
<1>1. CASE V = Values
  BY <1>1, WorstClosed DEF Times, Values
<1>2. CASE V = Tame
  <2>1. a \in {"zero", "fin"} /\ b \in {"zero", "fin"}
    BY <1>2 DEF Tame
  <2>2. "nan" \notin {a, b} /\ "inf" \notin {a, b} /\ {a, b} # {"zero", "inf"} /\ {a, b} # {"huge"}
    BY <2>1
  <2>3. Times(a, b) = IF "zero" \in {a, b} THEN "zero" ELSE Worst(a, b)
    BY <2>2 DEF Times
  <2>4. QED
    BY <2>3, WorstClosed, GradeBase
<1>3. QED
  BY <1>1, <1>2 DEF Grades

LEMMA OverClosed ==
  ASSUME NEW V \in Grades, NEW a \in V, NEW b \in V PROVE Over(a, b) \in V
<1>1. CASE V = Values
  BY <1>1 DEF Over, Values
<1>2. CASE V = Tame
  <2>1. "nan" \notin {a, b} /\ {a, b} # {"inf"} /\ b # "inf"
    BY <1>2 DEF Tame
  <2>2. Over(a, b) = a
    BY <2>1 DEF Over
  <2>3. QED
    BY <2>2
<1>3. QED
  BY <1>1, <1>2 DEF Grades

LEMMA SquareClosed == ASSUME NEW V \in Grades, NEW a \in V PROVE Square(a) \in V
  BY TimesClosed DEF Square

LEMMA ChaseClosed ==
  ASSUME NEW V \in Grades, NEW a \in V, NEW b \in V PROVE Chase(a, b) \in V
  BY PlusClosed DEF Chase

LEMMA SettledClosed ==
  ASSUME NEW V \in Grades, NEW a \in V, NEW loud PROVE Settled(a, loud) \in V
  BY GradeBase DEF Settled

LEMMA WorstOfClosed ==
  ASSUME NEW V \in Grades, NEW S, S \subseteq V, S # {}
  PROVE  WorstOf(S) \in S /\ WorstOf(S) \in V
<1>1. S \subseteq Values
  BY GradeBase
<1>2. \E v \in S : \A w \in S : Rank(w) <= Rank(v)
  <2>1. CASE "nan" \in S
    BY <1>1, <2>1 DEF Rank, Values
  <2>2. CASE "nan" \notin S /\ "inf" \in S
    BY <1>1, <2>2 DEF Rank, Values
  <2>3. CASE "nan" \notin S /\ "inf" \notin S /\ "huge" \in S
    BY <1>1, <2>3 DEF Rank, Values
  <2>4. CASE "nan" \notin S /\ "inf" \notin S /\ "huge" \notin S /\ "fin" \in S
    BY <1>1, <2>4 DEF Rank, Values
  <2>5. CASE S \subseteq {"zero"}
    <3>1. S = {"zero"}
      BY <2>5
    <3>2. QED
      BY <3>1 DEF Rank
  <2>6. QED
    BY <1>1, <2>1, <2>2, <2>3, <2>4, <2>5 DEF Values
<1>3. WorstOf(S) \in S
  BY <1>2 DEF WorstOf
<1>4. QED
  BY <1>3

\* A tame value passes both checks of the watchdog.
LEMMA TamePasses ==
  ASSUME NEW v \in Tame PROVE Finite(v) /\ FiniteSum(v) /\ FinitePower(v)
<1>1. Square(v) \in Tame
  BY SquareClosed DEF Grades
<1>2. QED
  BY <1>1 DEF Tame, Finite, FiniteSum, FinitePower

\* Both checks let only finite values through.
LEMMA PassesFinite ==
  ASSUME NEW v \in Values, FiniteSum(v) \/ FinitePower(v) PROVE Finite(v)
<1>1. CASE FiniteSum(v)
  BY <1>1 DEF FiniteSum
<1>2. CASE v = "inf"
  <2>1. Square(v) = "inf"
    BY <1>2 DEF Square, Times
  <2>2. QED
    BY <1>2, <2>1 DEF FiniteSum, FinitePower, Finite
<1>3. CASE v = "nan"
  <2>1. Square(v) = "nan"
    BY <1>3 DEF Square, Times
  <2>2. QED
    BY <1>3, <2>1 DEF FiniteSum, FinitePower, Finite
<1>4. QED
  BY <1>1, <1>2, <1>3 DEF Values, Finite

-------------------------------------------------------------------------------
(* The Kalman core *)

KalmanSet(cfg, V) ==
  [cfg : {cfg}, win : V, u : [1 .. cfg.partitions -> V], h : V, p : V, psi : V,
   num : V, den : V, nov : V, nb : Nat, adapt : BOOLEAN, trips : Nat]

\* What every action keeps of a core unless its watchdog trips.
SameRun(c, d) == d.cfg = c.cfg /\ d.adapt = c.adapt /\ d.trips = c.trips

LEMMA KalmanFresh ==
  ASSUME NEW V \in Grades, NEW cfg
  PROVE  /\ Kalman(cfg) \in KalmanSet(cfg, V)
         /\ Kalman(cfg).cfg = cfg /\ Kalman(cfg).trips = 0
  BY GradeBase DEF Kalman, KalmanSet

LEMMA KalmanResets ==
  ASSUME NEW V \in Grades, NEW cfg, NEW W \in Grades, NEW c \in KalmanSet(cfg, W)
  PROVE  /\ ResetKalman(c) \in KalmanSet(cfg, V)
         /\ SameRun(c, ResetKalman(c))
         /\ ResetKalman(ResetKalman(c)) = ResetKalman(c)
<1>1. c.cfg = cfg /\ c.adapt \in BOOLEAN /\ c.trips \in Nat
  BY DEF KalmanSet
<1>2. QED
  BY <1>1, GradeBase DEF Kalman, KalmanSet, ResetKalman, SameRun

\* A delay line of n blocks, newest first, stays one.
LEMMA LineSlides ==
  ASSUME NEW V, NEW n \in Nat \ {0}, NEW f \in [1 .. n -> V], NEW x \in V
  PROVE  [i \in DOMAIN f |-> IF i = 1 THEN x ELSE f[i - 1]] \in [1 .. n -> V]
<1>1. ASSUME NEW i \in 1 .. n, i # 1 PROVE i - 1 \in 1 .. n
  BY <1>1
<1>2. ASSUME NEW i \in 1 .. n PROVE (IF i = 1 THEN x ELSE f[i - 1]) \in V
  BY <1>1
<1>3. QED
  BY <1>2

LEMMA KalmanSlides ==
  ASSUME NEW V \in Grades, NEW cfg, cfg.partitions \in Nat \ {0}, NEW c \in KalmanSet(cfg, V), NEW x \in V
  PROVE  Slid(c, x) \in KalmanSet(cfg, V) /\ SameRun(c, Slid(c, x))
<1> DEFINE w == Worst(c.win, x)
           u == [i \in DOMAIN c.u |-> IF i = 1 THEN w ELSE c.u[i - 1]]
<1>1. c.win \in V /\ c.u \in [1 .. cfg.partitions -> V]
  BY DEF KalmanSet
<1>2. w \in V
  BY <1>1, WorstClosed
<1> HIDE DEF w
<1>3. u \in [1 .. cfg.partitions -> V]
  BY <1>1, <1>2, LineSlides
<1> HIDE DEF u
<1>4. /\ [c EXCEPT !.win = x, !.u = u] \in KalmanSet(cfg, V)
      /\ SameRun(c, [c EXCEPT !.win = x, !.u = u])
  BY <1>3 DEF KalmanSet, SameRun
<1>5. QED
  BY <1>4 DEF Slid, u, w

LEMMA KalmanDiscounts ==
  ASSUME NEW V \in Grades, NEW cfg, cfg.partitions \in Nat \ {0}, NEW c \in KalmanSet(cfg, V)
  PROVE  Novel(c) \in KalmanSet(cfg, V) /\ SameRun(c, Novel(c))
<1> DEFINE num == Plus(c.num, Times(c.u[1], c.u[2]))
           den == Worst(c.den, Times(Square(c.u[1]), Square(c.u[2])))
           q == Over(Square(num), Worst("fin", Square(den)))
<1>1. CASE c.cfg.novelty /\ c.cfg.partitions >= 2
  <2>1. c.cfg = cfg /\ c.u \in [1 .. cfg.partitions -> V] /\ c.num \in V /\ c.den \in V
    BY DEF KalmanSet
  <2>2. c.u[1] \in V /\ c.u[2] \in V
    BY <1>1, <2>1
  <2>3. num \in V
    BY <2>1, <2>2, TimesClosed, PlusClosed
  <2>4. den \in V
    BY <2>1, <2>2, TimesClosed, WorstClosed, SquareClosed
  <2>5. q \in V
    BY <2>3, <2>4, GradeBase, SquareClosed, WorstClosed, OverClosed
  <2> HIDE DEF num, den, q
  <2>6. (IF q = "nan" THEN "nan" ELSE "fin") \in V
    BY <2>5, GradeBase
  <2>7. [c EXCEPT !.num = num, !.den = den, !.nov = IF q = "nan" THEN "nan" ELSE "fin"] \in KalmanSet(cfg, V)
    BY <2>3, <2>4, <2>6 DEF KalmanSet
  <2>8. SameRun(c, [c EXCEPT !.num = num, !.den = den, !.nov = IF q = "nan" THEN "nan" ELSE "fin"])
    BY DEF KalmanSet, SameRun
  <2>9. Novel(c) = [c EXCEPT !.num = num, !.den = den, !.nov = IF q = "nan" THEN "nan" ELSE "fin"]
    BY <1>1 DEF Novel, Discounted, num, den, q
  <2>10. QED
    BY <2>7, <2>8, <2>9
<1>2. CASE ~ (c.cfg.novelty /\ c.cfg.partitions >= 2)
  BY <1>2 DEF Novel, SameRun
<1>3. QED
  BY <1>1, <1>2

LEMMA FilterClosed ==
  ASSUME NEW V \in Grades, NEW n \in Nat \ {0}, NEW u \in [1 .. n -> V], NEW h \in V
  PROVE  Filtered(u, h) \in V
<1> DEFINE S == {Times(u[i], h) : i \in DOMAIN u}
<1>1. S \subseteq V
  BY TimesClosed
<1>2. Times(u[1], h) \in S
  OBVIOUS
<1> HIDE DEF S
<1>3. WorstOf(S) \in V
  BY <1>1, <1>2, WorstOfClosed
<1>4. QED
  BY <1>3 DEF Filtered, S

LEMMA KalmanCounts ==
  ASSUME NEW V \in Grades, NEW cfg, NEW c \in KalmanSet(cfg, V), NEW k
  PROVE  Counted(c, k) \in KalmanSet(cfg, V) /\ SameRun(c, Counted(c, k))
<1> DEFINE n == IF c.cfg.guard > 0 THEN Concentrated(c, k) ELSE 0
<1>1. c.nb \in Nat
  BY DEF KalmanSet
<1>2. n \in Nat
  BY <1>1 DEF Concentrated
<1> HIDE DEF n
<1>3. [c EXCEPT !.nb = n] \in KalmanSet(cfg, V) /\ SameRun(c, [c EXCEPT !.nb = n])
  BY <1>2 DEF KalmanSet, SameRun
<1>4. QED
  BY <1>3 DEF Counted, n

LEMMA InnovationClosed ==
  ASSUME NEW V \in Grades, NEW cfg, cfg.partitions \in Nat \ {0}, NEW c \in KalmanSet(cfg, V),
         NEW e \in V, NEW prior \in V
  PROVE  Innovation(c, e, prior) \in V
<1> DEFINE S == {"fin", c.psi, IF c.cfg.floor THEN Square(e) ELSE "zero"}
           T == {Times(Square(c.u[i]), prior) : i \in DOMAIN c.u}
<1>1. c.psi \in V /\ c.u \in [1 .. cfg.partitions -> V]
  BY DEF KalmanSet
<1>2. (IF c.cfg.floor THEN Square(e) ELSE "zero") \in V
  BY GradeBase, SquareClosed
<1>3. S \subseteq V /\ "fin" \in S
  BY <1>1, <1>2, GradeBase
<1>4. T \subseteq V
  BY <1>1, SquareClosed, TimesClosed
<1> HIDE DEF S, T
<1>5. WorstOf(S \cup T) \in V
  BY <1>3, <1>4, WorstOfClosed
<1>6. QED
  BY <1>5 DEF Innovation, S, T

LEMMA KalmanCorrects ==
  ASSUME NEW V \in Grades, NEW cfg, cfg.partitions \in Nat \ {0}, NEW c \in KalmanSet(cfg, V),
         NEW e \in V, NEW prior \in V, NEW g \in V, NEW k
  PROVE  /\ Corrected(c, e, prior, g, k) \in KalmanSet(cfg, V)
         /\ SameRun(c, Corrected(c, e, prior, g, k))
<1> DEFINE A == {Times(g, Times(c.u[i], e)) : i \in DOMAIN c.u}
           B == {Times(prior, Plus("fin", Times(Times(g, Square(c.u[i])), c.nov))) : i \in DOMAIN c.u}
           wa == WorstOf(A)
           wb == WorstOf(B)
           h == Settled(Plus(c.h, wa), k.loud)
           psi == Worst(c.psi, Square(e))
<1>1. /\ c.u \in [1 .. cfg.partitions -> V] /\ 1 \in DOMAIN c.u
      /\ c.h \in V /\ c.psi \in V /\ c.nov \in V
  BY DEF KalmanSet
<1>2. A \subseteq V
  BY <1>1, TimesClosed
<1>3. ASSUME NEW i \in DOMAIN c.u
      PROVE  Times(prior, Plus("fin", Times(Times(g, Square(c.u[i])), c.nov))) \in V
  <2>1. c.u[i] \in V
    BY <1>1
  <2>2. Times(Times(g, Square(c.u[i])), c.nov) \in V
    BY <1>1, <2>1, TimesClosed, SquareClosed
  <2>3. QED
    BY <2>2, TimesClosed, PlusClosed, GradeBase
<1>4. B \subseteq V
  BY <1>3
<1>5. A # {} /\ B # {}
  BY <1>1
<1> HIDE DEF A, B
<1>6. wa \in V /\ wb \in V
  BY <1>2, <1>4, <1>5, WorstOfClosed
<1> HIDE DEF wa, wb
<1>7. h \in V /\ psi \in V
  BY <1>1, <1>6, PlusClosed, SettledClosed, WorstClosed, SquareClosed
<1> HIDE DEF h, psi
<1>8. /\ [c EXCEPT !.h = h, !.p = wb, !.psi = psi] \in KalmanSet(cfg, V)
      /\ SameRun(c, [c EXCEPT !.h = h, !.p = wb, !.psi = psi])
  BY <1>6, <1>7 DEF KalmanSet, SameRun
<1>9. Corrected(c, e, prior, g, k) = [c EXCEPT !.h = h, !.p = wb, !.psi = psi]
  BY DEF Corrected, h, psi, wa, wb, A, B
<1>10. QED
  BY <1>8, <1>9

\* What a block leaves of a core, tripped or not: r is its result.
Ran(c, r, V) ==
  /\ r.e \in V /\ r.yhat \in V
  /\ r.core.cfg = c.cfg /\ r.core.adapt = c.adapt
  /\ Finite(r.e)
  /\ r.core.trips = c.trips \/ r.core.trips = c.trips + 1

TrippedKalman(c, r) ==
  r.core.trips # c.trips => r.core = ResetKalman(r.core) /\ r.e = "zero" /\ r.yhat = "zero"

LEMMA KalmanTrips ==
  ASSUME NEW V \in Grades, NEW cfg, NEW c \in KalmanSet(cfg, V)
  PROVE  /\ TripKalman(c).core \in KalmanSet(cfg, V)
         /\ Ran(c, TripKalman(c), V) /\ TrippedKalman(c, TripKalman(c))
<1> DEFINE d == [c EXCEPT !.trips = c.trips + 1]
<1>1. d \in KalmanSet(cfg, V) /\ d.cfg = c.cfg /\ d.adapt = c.adapt /\ d.trips = c.trips + 1
  BY DEF KalmanSet
<1> HIDE DEF d
<1>2. /\ ResetKalman(d) \in KalmanSet(cfg, V) /\ SameRun(d, ResetKalman(d))
      /\ ResetKalman(ResetKalman(d)) = ResetKalman(d)
  BY <1>1, KalmanResets
<1>3. TripKalman(c) = [core |-> ResetKalman(d), e |-> "zero", yhat |-> "zero"]
  BY DEF TripKalman, d
<1> HIDE DEF ResetKalman
<1>4. QED
  BY <1>1, <1>2, <1>3, GradeBase DEF Ran, TrippedKalman, SameRun, Finite

\* A block of a Kalman core keeps its values in V; its error is finite; and a
\* trip leaves it as reset() does, with silence out.
LEMMA KalmanRuns ==
  ASSUME NEW V \in Grades, NEW cfg, cfg.partitions \in Nat \ {0}, NEW c \in KalmanSet(cfg, V),
         NEW x \in V, NEW y \in V, NEW k
  PROVE  LET r == KalmanBlock(c, x, y, k)
         IN  r.core \in KalmanSet(cfg, V) /\ Ran(c, r, V) /\ TrippedKalman(c, r)
<1> DEFINE n == Novel(Slid(c, x))
           yhat == Settled(Filtered(n.u, n.h), k.loud)
           e == Plus(y, yhat)
           m == Counted(n, k)
           r == KalmanBlock(c, x, y, k)
           G(res) == res.core \in KalmanSet(cfg, V) /\ Ran(c, res, V) /\ TrippedKalman(c, res)
<1>1. n \in KalmanSet(cfg, V) /\ SameRun(c, n)
  <2>1. Slid(c, x) \in KalmanSet(cfg, V) /\ SameRun(c, Slid(c, x))
    BY KalmanSlides
  <2>2. n \in KalmanSet(cfg, V) /\ SameRun(Slid(c, x), n)
    BY <2>1, KalmanDiscounts
  <2>3. QED
    BY <2>1, <2>2 DEF SameRun
<1>2. n.u \in [1 .. cfg.partitions -> V] /\ n.h \in V
  BY <1>1 DEF KalmanSet
<1>3. yhat \in V
  BY <1>2, FilterClosed, SettledClosed
<1>4. e \in V /\ e \in Values
  BY <1>3, PlusClosed, GradeBase
<1>5. m \in KalmanSet(cfg, V) /\ SameRun(c, m)
  <2>1. m \in KalmanSet(cfg, V) /\ SameRun(n, m)
    BY <1>1, KalmanCounts
  <2>2. QED
    BY <1>1, <2>1 DEF SameRun
<1>6. r = IF n.adapt THEN KalmanAdapt(m, e, yhat, k) ELSE Held(n, e, yhat)
  BY DEF KalmanBlock, KalmanFilter, KalmanCancel, KalmanError
<1> HIDE DEF n, m, yhat, e, r
<1>7. ASSUME NEW d \in KalmanSet(cfg, V), SameRun(c, d) PROVE G(TripKalman(d))
  BY <1>7, KalmanTrips DEF Ran, TrippedKalman, SameRun
<1>8. ASSUME NEW d \in KalmanSet(cfg, V), SameRun(c, d), Finite(e)
      PROVE  G([core |-> d, e |-> e, yhat |-> yhat])
  BY <1>3, <1>4, <1>8 DEF Ran, TrippedKalman, SameRun
<1>9. ASSUME NEW d \in KalmanSet(cfg, V), SameRun(c, d) PROVE G(Held(d, e, yhat))
  <2>1. CASE FinitePower(e)
    BY <1>4, <1>8, <1>9, <2>1, PassesFinite DEF Held
  <2>2. CASE ~ FinitePower(e)
    BY <1>7, <1>9, <2>2 DEF Held
  <2>3. QED
    BY <2>1, <2>2
<1>10. G(KalmanAdapt(m, e, yhat, k))
  <2>1. CASE m.cfg.guard > 0 /\ m.nb >= m.cfg.guard
    BY <1>5, <1>9, <2>1 DEF KalmanAdapt
  <2>2. CASE ~ (m.cfg.guard > 0 /\ m.nb >= m.cfg.guard) /\ ~ FiniteSum(e)
    BY <1>5, <1>7, <2>2 DEF KalmanAdapt
  <2>3. CASE ~ (m.cfg.guard > 0 /\ m.nb >= m.cfg.guard) /\ FiniteSum(e)
    <3> DEFINE prior == Prior(m)
               g == Over(prior, Innovation(m, e, prior))
               d == Predicted(m, e, prior, k)
    <3>1. m.p \in V /\ m.h \in V
      BY <1>5 DEF KalmanSet
    <3>2. prior \in V
      BY <3>1, WorstClosed, SquareClosed DEF Prior
    <3> HIDE DEF prior
    <3>3. g \in V
      BY <1>4, <1>5, <3>2, InnovationClosed, OverClosed
    <3>4. d = Corrected(m, e, prior, g, k)
      BY DEF Predicted
    <3> HIDE DEF g, d
    <3>5. d \in KalmanSet(cfg, V) /\ SameRun(m, d)
      BY <1>4, <1>5, <3>2, <3>3, <3>4, KalmanCorrects
    <3>6. SameRun(c, d)
      BY <1>5, <3>5 DEF SameRun
    <3>7. KalmanAdapt(m, e, yhat, k) = [core |-> d, e |-> e, yhat |-> yhat]
      BY <2>3 DEF KalmanAdapt, d, prior
    <3>8. QED
      BY <1>4, <1>8, <2>3, <3>5, <3>6, <3>7, PassesFinite
  <2>4. QED
    BY <2>1, <2>2, <2>3
<1>11. G(r)
  BY <1>1, <1>6, <1>9, <1>10
<1>12. QED
  BY <1>11 DEF r

LEMMA KalmanLifts ==
  ASSUME NEW V \in Grades, NEW cfg, NEW c \in KalmanSet(cfg, V)
  PROVE  Reinflated(c) \in KalmanSet(cfg, V) /\ SameRun(c, Reinflated(c))
<1>1. (IF c.p = "zero" THEN "fin" ELSE c.p) \in V
  BY GradeBase DEF KalmanSet
<1>2. QED
  BY <1>1 DEF KalmanSet, Reinflated, SameRun

-------------------------------------------------------------------------------
(* The NLMS core *)

FdafSet(cfg, V) ==
  [cfg : {cfg}, win : V, u : [1 .. cfg.partitions -> V], h : V, power : V, see : V,
   suu : V, cross : V, ipc : BOOLEAN, held : BOOLEAN, adapt : BOOLEAN, trips : Nat]

LEMMA FdafFresh ==
  ASSUME NEW V \in Grades, NEW cfg
  PROVE  Fdaf(cfg) \in FdafSet(cfg, V) /\ Fdaf(cfg).cfg = cfg /\ Fdaf(cfg).trips = 0
  BY GradeBase DEF Fdaf, FdafSet

LEMMA FdafResets ==
  ASSUME NEW V \in Grades, NEW cfg, NEW W \in Grades, NEW c \in FdafSet(cfg, W)
  PROVE  /\ ResetFdaf(c) \in FdafSet(cfg, V)
         /\ SameRun(c, ResetFdaf(c))
         /\ ResetFdaf(ResetFdaf(c)) = ResetFdaf(c)
<1>1. c.cfg = cfg /\ c.adapt \in BOOLEAN /\ c.trips \in Nat
  BY DEF FdafSet
<1>2. QED
  BY <1>1, GradeBase DEF Fdaf, FdafSet, ResetFdaf, SameRun

LEMMA FdafCountsTrip ==
  ASSUME NEW V \in Grades, NEW cfg, NEW c \in FdafSet(cfg, V), NEW t, t = [c EXCEPT !.trips = c.trips + 1]
  PROVE  t \in FdafSet(cfg, V) /\ t.cfg = c.cfg /\ t.adapt = c.adapt /\ t.trips = c.trips + 1
  BY DEF FdafSet

LEMMA FdafSlides ==
  ASSUME NEW V \in Grades, NEW cfg, cfg.partitions \in Nat \ {0}, NEW c \in FdafSet(cfg, V), NEW x \in V
  PROVE  Slid(c, x) \in FdafSet(cfg, V) /\ SameRun(c, Slid(c, x))
<1> DEFINE w == Worst(c.win, x)
           u == [i \in DOMAIN c.u |-> IF i = 1 THEN w ELSE c.u[i - 1]]
<1>1. c.win \in V /\ c.u \in [1 .. cfg.partitions -> V]
  BY DEF FdafSet
<1>2. w \in V
  BY <1>1, WorstClosed
<1> HIDE DEF w
<1>3. u \in [1 .. cfg.partitions -> V]
  BY <1>1, <1>2, LineSlides
<1> HIDE DEF u
<1>4. /\ [c EXCEPT !.win = x, !.u = u] \in FdafSet(cfg, V)
      /\ SameRun(c, [c EXCEPT !.win = x, !.u = u])
  BY <1>3 DEF FdafSet, SameRun
<1>5. QED
  BY <1>4 DEF Slid, u, w

LEMMA RingSquares ==
  ASSUME NEW V \in Grades, NEW n \in Nat \ {0}, NEW u \in [1 .. n -> V], NEW v \in V
  PROVE  WorstOf({v} \cup {Square(u[i]) : i \in DOMAIN u}) \in V
<1>1. {v} \cup {Square(u[i]) : i \in DOMAIN u} \subseteq V
  BY SquareClosed
<1>2. QED
  BY <1>1, WorstOfClosed

LEMMA FdafSmooths ==
  ASSUME NEW V \in Grades, NEW cfg, cfg.partitions \in Nat \ {0}, NEW c \in FdafSet(cfg, V),
         NEW e \in V, NEW k
  PROVE  UpdateIpc(c, e, k) \in FdafSet(cfg, V) /\ SameRun(c, UpdateIpc(c, e, k))
<1> DEFINE held == Burst(c, e, k)
           see == Worst(c.see, Square(e))
           suu == WorstOf({c.suu} \cup {Square(c.u[i]) : i \in DOMAIN c.u})
           C == {Plus(c.cross, Times(c.u[i], e)) : i \in DOMAIN c.u}
           cross == WorstOf(C)
           d == [c EXCEPT !.held = held, !.see = see, !.suu = suu, !.cross = cross]
           ipc == Coherent(Explains(d.suu, d.cross), d.see, k)
<1>1. c.u \in [1 .. cfg.partitions -> V] /\ c.see \in V /\ c.suu \in V /\ c.cross \in V /\ 1 \in DOMAIN c.u
  BY DEF FdafSet
<1>2. held \in BOOLEAN
  BY DEF Burst
<1>3. see \in V
  BY <1>1, WorstClosed, SquareClosed
<1>4. suu \in V
  BY <1>1, RingSquares
<1>5. C \subseteq V /\ C # {}
  BY <1>1, PlusClosed, TimesClosed
<1> HIDE DEF C
<1>6. cross \in V
  BY <1>5, WorstOfClosed
<1> HIDE DEF held, see, suu, cross
<1>7. d \in FdafSet(cfg, V) /\ SameRun(c, d)
  BY <1>2, <1>3, <1>4, <1>6 DEF FdafSet, SameRun
<1>8. ipc \in BOOLEAN
  BY DEF Coherent
<1>9. UpdateIpc(c, e, k) = [d EXCEPT !.ipc = ipc]
  BY DEF UpdateIpc, Gated, Smoothed, held, see, suu, cross, C
<1> HIDE DEF d, ipc
<1>10. [d EXCEPT !.ipc = ipc] \in FdafSet(cfg, V) /\ SameRun(d, [d EXCEPT !.ipc = ipc])
  BY <1>7, <1>8 DEF FdafSet, SameRun
<1>11. QED
  BY <1>7, <1>9, <1>10 DEF SameRun

LEMMA FdafPowers ==
  ASSUME NEW V \in Grades, NEW cfg, cfg.partitions \in Nat \ {0}, NEW c \in FdafSet(cfg, V)
  PROVE  Powered(c) \in FdafSet(cfg, V) /\ SameRun(c, Powered(c))
<1> DEFINE a == Times(IF c.cfg.smooth THEN "fin" ELSE "zero", c.power)
           w == WorstOf({a} \cup {Square(c.u[i]) : i \in DOMAIN c.u})
<1>1. c.u \in [1 .. cfg.partitions -> V] /\ c.power \in V
  BY DEF FdafSet
<1>2. a \in V
  BY <1>1, GradeBase, TimesClosed
<1> HIDE DEF a
<1>3. w \in V
  BY <1>1, <1>2, RingSquares
<1> HIDE DEF w
<1>4. [c EXCEPT !.power = w] \in FdafSet(cfg, V) /\ SameRun(c, [c EXCEPT !.power = w])
  BY <1>3 DEF FdafSet, SameRun
<1>5. QED
  BY <1>4 DEF Powered, w, a

LEMMA FdafMoves ==
  ASSUME NEW V \in Grades, NEW cfg, cfg.partitions \in Nat \ {0}, NEW c \in FdafSet(cfg, V),
         NEW e \in V, NEW k
  PROVE  Stepped(c, e, k) \in FdafSet(cfg, V) /\ SameRun(c, Stepped(c, e, k))
<1> DEFINE f == Factor(c)
           A == {Times(f, Times(c.u[i], e)) : i \in DOMAIN c.u}
           h == Settled(Plus(c.h, WorstOf(A)), k.loud)
<1>1. c.u \in [1 .. cfg.partitions -> V] /\ c.h \in V /\ c.power \in V /\ 1 \in DOMAIN c.u
  BY DEF FdafSet
<1>2. f \in V
  BY <1>1, GradeBase, OverClosed, WorstClosed DEF Factor
<1> HIDE DEF f
<1>3. A \subseteq V /\ A # {}
  BY <1>1, <1>2, TimesClosed
<1> HIDE DEF A
<1>4. h \in V
  BY <1>1, <1>3, WorstOfClosed, PlusClosed, SettledClosed
<1> HIDE DEF h
<1>5. [c EXCEPT !.h = h] \in FdafSet(cfg, V) /\ SameRun(c, [c EXCEPT !.h = h])
  BY <1>4 DEF FdafSet, SameRun
<1>6. Moved(c, e, Factor(c), k) = [c EXCEPT !.h = h]
  BY DEF Moved, h, A, f
<1>7. QED
  BY <1>5, <1>6 DEF Stepped, SameRun

TrippedCore(c, r) ==
  r.core.trips # c.trips => r.core = ResetCore(r.core) /\ r.e = "zero" /\ r.yhat = "zero"

LEMMA FdafRuns ==
  ASSUME NEW V \in Grades, NEW cfg, cfg.partitions \in Nat \ {0}, NEW c \in FdafSet(cfg, V),
         NEW x \in V, NEW y \in V, NEW k
  PROVE  LET r == FdafBlock(c, x, y, k)
         IN  /\ r.core \in FdafSet(cfg, V) /\ Ran(c, r, V)
             /\ r.core.trips # c.trips => r.core = ResetFdaf(r.core) /\ r.e = "zero" /\ r.yhat = "zero"
<1> DEFINE n == Slid(c, x)
           yhat == Settled(Filtered(n.u, n.h), k.loud)
           e == Plus(y, yhat)
           d == IF n.adapt THEN Adapted(n, e, k) ELSE n
           t == [n EXCEPT !.trips = n.trips + 1]
           r == FdafBlock(c, x, y, k)
<1>1. n \in FdafSet(cfg, V) /\ SameRun(c, n)
  BY FdafSlides
<1>2. n.u \in [1 .. cfg.partitions -> V] /\ n.h \in V
  BY <1>1 DEF FdafSet
<1>3. yhat \in V
  BY <1>2, FilterClosed, SettledClosed
<1>4. e \in V /\ e \in Values
  BY <1>3, PlusClosed, GradeBase
<1> HIDE DEF yhat, e, n
<1>5. d \in FdafSet(cfg, V) /\ SameRun(c, d)
  <2> DEFINE a == UpdateIpc(n, e, k)
             b == Powered(a)
  <2>1. a \in FdafSet(cfg, V) /\ SameRun(n, a)
    BY <1>1, <1>4, FdafSmooths
  <2>2. b \in FdafSet(cfg, V) /\ SameRun(a, b)
    BY <2>1, FdafPowers
  <2>3. Stepped(b, e, k) \in FdafSet(cfg, V) /\ SameRun(b, Stepped(b, e, k))
    BY <1>4, <2>2, FdafMoves
  <2>4. Adapted(n, e, k) = Stepped(b, e, k)
    BY DEF Adapted
  <2> HIDE DEF a, b
  <2>5. QED
    BY <1>1, <2>1, <2>2, <2>3, <2>4 DEF SameRun
<1>6. r = IF ~ (IF n.adapt THEN FiniteSum(e) ELSE FinitePower(e)) THEN TripFdaf(n)
          ELSE [core |-> d, e |-> e, yhat |-> yhat]
  BY DEF FdafBlock, FdafFilter, FdafCancel, FdafError, n, e, yhat
<1>7. t \in FdafSet(cfg, V) /\ t.cfg = n.cfg /\ t.adapt = n.adapt /\ t.trips = n.trips + 1
  BY <1>1, FdafCountsTrip
<1>8. TripFdaf(n) = [core |-> ResetFdaf(t), e |-> "zero", yhat |-> "zero"]
  BY DEF TripFdaf
<1> HIDE DEF d, t, r
<1>9. ResetFdaf(t) \in FdafSet(cfg, V) /\ SameRun(t, ResetFdaf(t)) /\ ResetFdaf(ResetFdaf(t)) = ResetFdaf(t)
  BY <1>7, FdafResets
<1> HIDE DEF ResetFdaf
<1>10. CASE ~ (IF n.adapt THEN FiniteSum(e) ELSE FinitePower(e))
  BY <1>1, <1>6, <1>7, <1>8, <1>9, <1>10, GradeBase DEF r, Ran, SameRun, Finite
<1>11. CASE IF n.adapt THEN FiniteSum(e) ELSE FinitePower(e)
  <2>1. Finite(e)
    BY <1>4, <1>11, PassesFinite
  <2>2. QED
    BY <1>3, <1>4, <1>5, <1>6, <1>11, <2>1 DEF r, Ran, SameRun
<1>12. QED
  BY <1>10, <1>11

-------------------------------------------------------------------------------
(* A core of either kind *)

CoreSet(cfg, V) == IF cfg.core = "kalman" THEN KalmanSet(cfg, V) ELSE FdafSet(cfg, V)

LEMMA CoreFields ==
  ASSUME NEW cfg, NEW V, NEW c \in CoreSet(cfg, V)
  PROVE  c.cfg = cfg /\ c.adapt \in BOOLEAN /\ c.trips \in Nat /\ c.h \in V
  BY DEF CoreSet, KalmanSet, FdafSet

LEMMA CoreFresh ==
  ASSUME NEW V \in Grades, NEW cfg
  PROVE  Core(cfg) \in CoreSet(cfg, V)
  BY KalmanFresh, FdafFresh DEF Core, CoreSet

LEMMA CoreResets ==
  ASSUME NEW V \in Grades, NEW cfg, NEW W \in Grades, NEW c \in CoreSet(cfg, W)
  PROVE  /\ ResetCore(c) \in CoreSet(cfg, V)
         /\ SameRun(c, ResetCore(c))
         /\ ResetCore(ResetCore(c)) = ResetCore(c)
<1>1. c.cfg = cfg
  BY CoreFields
<1>2. CASE cfg.core = "kalman"
  <2>1. c \in KalmanSet(cfg, W) /\ ResetCore(c) = ResetKalman(c)
    BY <1>1, <1>2 DEF CoreSet, ResetCore
  <2>2. /\ ResetKalman(c) \in KalmanSet(cfg, V) /\ SameRun(c, ResetKalman(c))
        /\ ResetKalman(ResetKalman(c)) = ResetKalman(c)
    BY <2>1, KalmanResets
  <2> HIDE DEF ResetKalman
  <2>3. QED
    BY <1>1, <1>2, <2>1, <2>2 DEF CoreSet, SameRun, ResetCore
<1>3. CASE cfg.core # "kalman"
  <2>1. c \in FdafSet(cfg, W) /\ ResetCore(c) = ResetFdaf(c)
    BY <1>1, <1>3 DEF CoreSet, ResetCore
  <2>2. /\ ResetFdaf(c) \in FdafSet(cfg, V) /\ SameRun(c, ResetFdaf(c))
        /\ ResetFdaf(ResetFdaf(c)) = ResetFdaf(c)
    BY <2>1, FdafResets
  <2> HIDE DEF ResetFdaf
  <2>3. QED
    BY <1>1, <1>3, <2>1, <2>2 DEF CoreSet, SameRun, ResetCore
<1>4. QED
  BY <1>2, <1>3

LEMMA CoreRuns ==
  ASSUME NEW V \in Grades, NEW cfg, cfg.partitions \in Nat \ {0}, NEW c \in CoreSet(cfg, V),
         NEW x \in V, NEW y \in V, NEW k
  PROVE  LET r == CoreBlock(c, x, y, k)
         IN  r.core \in CoreSet(cfg, V) /\ Ran(c, r, V) /\ TrippedCore(c, r)
<1> DEFINE r == CoreBlock(c, x, y, k)
<1>1. c.cfg = cfg
  BY CoreFields
<1>2. CASE cfg.core = "kalman"
  <2>1. c \in KalmanSet(cfg, V) /\ r = KalmanBlock(c, x, y, k)
    BY <1>1, <1>2 DEF CoreSet, CoreBlock
  <2>2. r.core \in KalmanSet(cfg, V) /\ Ran(c, r, V) /\ TrippedKalman(c, r)
    BY <2>1, KalmanRuns
  <2> HIDE DEF r
  <2>3. QED
    BY <1>1, <1>2, <2>2 DEF r, CoreSet, TrippedCore, TrippedKalman, ResetCore, Ran
<1>3. CASE cfg.core # "kalman"
  <2>1. c \in FdafSet(cfg, V) /\ r = FdafBlock(c, x, y, k)
    BY <1>1, <1>3 DEF CoreSet, CoreBlock
  <2>2. /\ r.core \in FdafSet(cfg, V) /\ Ran(c, r, V)
        /\ r.core.trips # c.trips => r.core = ResetFdaf(r.core) /\ r.e = "zero" /\ r.yhat = "zero"
    BY <2>1, FdafRuns
  <2> HIDE DEF r
  <2>3. QED
    BY <1>1, <1>3, <2>2 DEF r, CoreSet, TrippedCore, ResetCore, Ran
<1>4. QED
  BY <1>2, <1>3

-------------------------------------------------------------------------------
(* What is no longer a number spreads, and the watchdog sees it *)

LEMMA TimesSpoils ==
  ASSUME NEW a \in Values, NEW b \in Values, ~ Finite(a) \/ ~ Finite(b)
  PROVE  ~ Finite(Times(a, b))
<1>1. CASE "nan" \in {a, b} \/ {a, b} = {"zero", "inf"}
  <2>1. Times(a, b) = "nan"
    BY <1>1 DEF Times
  <2>2. QED
    BY <2>1 DEF Finite
<1>2. CASE ~ ("nan" \in {a, b} \/ {a, b} = {"zero", "inf"})
  <2>1. a = "inf" \/ b = "inf"
    BY <1>2 DEF Finite, Values
  <2>2. Times(a, b) = "inf"
    BY <1>2, <2>1 DEF Times
  <2>3. QED
    BY <2>2 DEF Finite
<1>3. QED
  BY <1>1, <1>2

LEMMA WorstSpoils ==
  ASSUME NEW a \in Values, NEW b \in Values, ~ Finite(a) \/ ~ Finite(b)
  PROVE  ~ Finite(Worst(a, b))
  BY DEF Worst, Rank, Finite, Values

LEMMA PlusSpoils ==
  ASSUME NEW a \in Values, NEW b \in Values, ~ Finite(a) \/ ~ Finite(b)
  PROVE  ~ Finite(Plus(a, b))
  BY WorstSpoils DEF Plus, Finite

LEMMA OverSpoils ==
  ASSUME NEW a \in Values, NEW b \in Values, ~ Finite(a)
  PROVE  ~ Finite(Over(a, b))
<1>1. CASE a = "nan" \/ b = "nan" \/ b = "inf"
  <2>1. "nan" \in {a, b} \/ {a, b} = {"inf"}
    BY <1>1 DEF Finite, Values
  <2>2. Over(a, b) = "nan"
    BY <2>1 DEF Over
  <2>3. QED
    BY <2>2 DEF Finite
<1>2. CASE ~ (a = "nan" \/ b = "nan" \/ b = "inf")
  <2>1. ~ ("nan" \in {a, b} \/ {a, b} = {"inf"}) /\ a = "inf"
    BY <1>2 DEF Finite, Values
  <2>2. Over(a, b) = a
    BY <1>2, <2>1 DEF Over
  <2>3. QED
    BY <2>2
<1>3. QED
  BY <1>1, <1>2

LEMMA SettledSpoils ==
  ASSUME NEW a \in Values, NEW loud, ~ Finite(a) PROVE ~ Finite(Settled(a, loud))
  BY DEF Settled, Finite

LEMMA WorstOfSpoils ==
  ASSUME NEW S, S \subseteq Values, NEW v \in S, ~ Finite(v)
  PROVE  ~ Finite(WorstOf(S))
<1>1. \E w \in S : \A z \in S : Rank(z) <= Rank(w)
  <2>1. CASE "nan" \in S
    BY <2>1 DEF Rank, Values
  <2>2. CASE "nan" \notin S
    <3>1. "inf" \in S
      BY <2>2 DEF Finite, Values
    <3>2. QED
      BY <2>2, <3>1 DEF Rank, Values
  <2>3. QED
    BY <2>1, <2>2
<1>2. WorstOf(S) \in S /\ Rank(v) <= Rank(WorstOf(S))
  BY <1>1 DEF WorstOf
<1>3. v \in {"inf", "nan"} /\ Rank(v) >= 3
  BY DEF Finite, Values, Rank
<1>4. WorstOf(S) \in Values /\ Rank(WorstOf(S)) \in 0 .. 4
  BY <1>2, RankType
<1>5. Rank(WorstOf(S)) >= 3
  <2>1. Rank(v) \in 0 .. 4
    BY RankType
  <2>2. QED
    BY <1>2, <1>3, <1>4, <2>1
<1>6. QED
  BY <1>4, <1>5 DEF Finite, Values, Rank

\* A weight that is not a number shows in every echo estimate.
LEMMA FilterSpoils ==
  ASSUME NEW n \in Nat \ {0}, NEW u \in [1 .. n -> Values], NEW h \in Values, ~ Finite(h)
  PROVE  ~ Finite(Filtered(u, h))
<1> DEFINE S == {Times(u[i], h) : i \in DOMAIN u}
<1>1. S \subseteq Values
  BY TimesClosed DEF Grades
<1>2. Times(u[1], h) \in S /\ ~ Finite(Times(u[1], h))
  BY TimesSpoils
<1> HIDE DEF S
<1>3. ~ Finite(WorstOf(S))
  BY <1>1, <1>2, WorstOfSpoils
<1>4. QED
  BY <1>3 DEF Filtered, S

LEMMA KalmanKeeps ==
  ASSUME NEW cfg, NEW c \in KalmanSet(cfg, Values), NEW x, NEW k
  PROVE  LET n == Novel(Slid(c, x))
             m == Counted(n, k)
         IN  /\ n.h = c.h /\ n.p = c.p /\ n.cfg = c.cfg /\ n.adapt = c.adapt /\ n.trips = c.trips
             /\ m.h = c.h /\ m.p = c.p /\ m.cfg = c.cfg /\ m.trips = c.trips
<1> DEFINE b == Slid(c, x)
           n == Novel(b)
           SameFilter(d) == /\ d.h = c.h /\ d.p = c.p /\ d.cfg = c.cfg /\ d.adapt = c.adapt /\ d.trips = c.trips
                            /\ DOMAIN d = DOMAIN c
<1>1. {"h", "p", "cfg", "adapt", "trips", "win", "u", "num", "den", "nov", "nb"} \subseteq DOMAIN c
  BY DEF KalmanSet
<1>2. SameFilter(b)
  BY <1>1 DEF Slid
<1> HIDE DEF b
<1>3. SameFilter(n)
  BY <1>1, <1>2 DEF Novel, Discounted
<1> HIDE DEF n
<1>4. SameFilter(Counted(n, k))
  BY <1>1, <1>3 DEF Counted
<1>5. QED
  BY <1>3, <1>4 DEF n, b

LEMMA KalmanTripCounts ==
  ASSUME NEW cfg, NEW c \in KalmanSet(cfg, Values) PROVE TripKalman(c).core.trips # c.trips
<1> DEFINE d == [c EXCEPT !.trips = c.trips + 1]
<1>1. c.trips \in Nat /\ d.trips = c.trips + 1
  BY DEF KalmanSet
<1> HIDE DEF d
<1>2. ResetKalman(d).trips = d.trips
  BY DEF ResetKalman, Kalman
<1>3. TripKalman(c).core = ResetKalman(d)
  BY DEF TripKalman, d
<1>4. QED
  BY <1>1, <1>2, <1>3

\* An uncertainty that is not a number reaches the weights in one update, and
\* so does a weight whose square overflows.
LEMMA UncertaintySpoils ==
  ASSUME NEW cfg, cfg.partitions \in Nat \ {0}, NEW c \in KalmanSet(cfg, Values),
         ~ Finite(c.p) \/ c.h = "huge", NEW e \in Values, NEW k
  PROVE  ~ Finite(Predicted(c, e, Prior(c), k).h)
<1> DEFINE prior == Prior(c)
           S == {"fin", c.psi, IF c.cfg.floor THEN Square(e) ELSE "zero"}
                \cup {Times(Square(c.u[i]), prior) : i \in DOMAIN c.u}
           g == Over(prior, Innovation(c, e, prior))
           A == {Times(g, Times(c.u[i], e)) : i \in DOMAIN c.u}
           wa == WorstOf(A)
<1> USE DEF Grades
<1>1. /\ c.u \in [1 .. cfg.partitions -> Values] /\ 1 \in DOMAIN c.u /\ c.u[1] \in Values
      /\ c.h \in Values /\ c.p \in Values /\ c.psi \in Values
      /\ "h" \in DOMAIN c /\ "p" \in DOMAIN c /\ "psi" \in DOMAIN c
  BY DEF KalmanSet
<1>2. prior \in Values /\ ~ Finite(prior)
  <2>1. c.h = "huge" => ~ Finite(Square(c.h))
    BY DEF Square, Times, Finite
  <2>2. QED
    BY <1>1, <2>1, SquareClosed, WorstClosed, WorstSpoils DEF Prior
<1> HIDE DEF prior
<1>3. Innovation(c, e, prior) \in Values
  BY <1>2, InnovationClosed
<1>4. ~ Finite(Innovation(c, e, prior))
  <2>1. S \subseteq Values
    BY <1>1, <1>2, SquareClosed, TimesClosed DEF Values
  <2>2. Times(Square(c.u[1]), prior) \in S /\ ~ Finite(Times(Square(c.u[1]), prior))
    BY <1>1, <1>2, SquareClosed, TimesSpoils
  <2> HIDE DEF S
  <2>3. ~ Finite(WorstOf(S))
    BY <2>1, <2>2, WorstOfSpoils
  <2>4. QED
    BY <2>3 DEF Innovation, S
<1>5. g \in Values /\ ~ Finite(g)
  BY <1>2, <1>3, <1>4, OverClosed, OverSpoils
<1> HIDE DEF g
<1>6. A \subseteq Values
  BY <1>1, <1>5, TimesClosed
<1>7. Times(g, Times(c.u[1], e)) \in A /\ ~ Finite(Times(g, Times(c.u[1], e)))
  BY <1>1, <1>5, TimesClosed, TimesSpoils
<1> HIDE DEF A
<1>8. wa \in Values /\ ~ Finite(wa)
  BY <1>6, <1>7, WorstOfClosed, WorstOfSpoils
<1> HIDE DEF wa
<1>9. ~ Finite(Settled(Plus(c.h, wa), k.loud))
  BY <1>1, <1>8, PlusClosed, PlusSpoils, SettledSpoils
<1>10. Predicted(c, e, Prior(c), k).h = Settled(Plus(c.h, wa), k.loud)
  BY <1>1 DEF Predicted, Corrected, wa, A, g, prior
<1>11. QED
  BY <1>9, <1>10

\* The narrowband guard holds a Kalman core's update.
Paused(c) == c.cfg.core = "kalman" /\ c.cfg.guard > 0 /\ c.nb >= c.cfg.guard

\* What a block shows of a core that is no longer a filter: r is its result.
Exposed(c, d) ==
  /\ ~ Finite(c.h) => d.trips # c.trips
  /\ c.adapt /\ Poisoned(c) => d.trips # c.trips \/ Paused(d) \/ ~ Finite(d.h)

LEMMA KalmanExposes ==
  ASSUME NEW cfg, cfg.partitions \in Nat \ {0}, cfg.core = "kalman", NEW c \in KalmanSet(cfg, Values),
         NEW x \in Values, NEW y \in Values, NEW k
  PROVE  Exposed(c, KalmanBlock(c, x, y, k).core)
<1> DEFINE n == Novel(Slid(c, x))
           yhat == Settled(Filtered(n.u, n.h), k.loud)
           e == Plus(y, yhat)
           m == Counted(n, k)
           d == KalmanBlock(c, x, y, k).core
<1> USE DEF Grades
<1>1. n \in KalmanSet(cfg, Values) /\ m \in KalmanSet(cfg, Values)
  BY KalmanSlides, KalmanDiscounts, KalmanCounts
<1>2. /\ n.h = c.h /\ n.p = c.p /\ n.cfg = c.cfg /\ n.adapt = c.adapt /\ n.trips = c.trips
      /\ m.h = c.h /\ m.p = c.p /\ m.cfg = c.cfg /\ m.trips = c.trips /\ c.cfg = cfg
  BY KalmanKeeps DEF KalmanSet
<1>3. n.u \in [1 .. cfg.partitions -> Values] /\ n.h \in Values
  BY <1>1 DEF KalmanSet
<1>4. yhat \in Values /\ e \in Values
  BY <1>3, FilterClosed, SettledClosed, PlusClosed
<1>5. ~ Finite(c.h) => ~ Finite(e)
  BY <1>2, <1>3, <1>4, FilterSpoils, FilterClosed, SettledSpoils, PlusSpoils
<1>6. KalmanBlock(c, x, y, k) = IF n.adapt THEN KalmanAdapt(m, e, yhat, k) ELSE Held(n, e, yhat)
  BY DEF KalmanBlock, KalmanFilter, KalmanCancel, KalmanError
<1> HIDE DEF n, m, yhat, e
<1>7. TripKalman(m).core.trips # c.trips /\ TripKalman(n).core.trips # c.trips
  BY <1>1, <1>2, KalmanTripCounts
<1>8. ASSUME ~ Finite(c.h) PROVE d.trips # c.trips
  <2>1. ~ Finite(e) /\ ~ FiniteSum(e) /\ ~ FinitePower(e)
    BY <1>4, <1>5, <1>8, PassesFinite
  <2>2. KalmanBlock(c, x, y, k) = TripKalman(m) \/ KalmanBlock(c, x, y, k) = TripKalman(n)
    BY <1>6, <2>1 DEF KalmanAdapt, Held
  <2>3. QED
    BY <1>7, <2>2
<1>9. ASSUME c.adapt, Finite(c.h), Poisoned(c)
      PROVE  d.trips # c.trips \/ Paused(d) \/ ~ Finite(d.h)
  <2>1. ~ Finite(m.p)
    BY <1>2, <1>9 DEF Poisoned
  <2>2. KalmanBlock(c, x, y, k) = KalmanAdapt(m, e, yhat, k)
    BY <1>2, <1>6, <1>9
  <2>3. CASE m.cfg.guard > 0 /\ m.nb >= m.cfg.guard
    <3>1. d = TripKalman(m).core \/ d = m
      BY <2>2, <2>3 DEF KalmanAdapt, Held
    <3>2. Paused(m)
      BY <1>2, <2>3 DEF Paused
    <3>3. QED
      BY <1>7, <3>1, <3>2
  <2>4. CASE ~ (m.cfg.guard > 0 /\ m.nb >= m.cfg.guard) /\ ~ FiniteSum(e)
    BY <1>7, <2>2, <2>4 DEF KalmanAdapt
  <2>5. CASE ~ (m.cfg.guard > 0 /\ m.nb >= m.cfg.guard) /\ FiniteSum(e)
    <3>1. d = Predicted(m, e, Prior(m), k)
      BY <2>2, <2>5 DEF KalmanAdapt
    <3>2. QED
      BY <1>1, <1>4, <2>1, <3>1, UncertaintySpoils
  <2>6. QED
    BY <2>3, <2>4, <2>5
<1>10. QED
  BY <1>8, <1>9 DEF Exposed

LEMMA FdafExposes ==
  ASSUME NEW cfg, cfg.partitions \in Nat \ {0}, cfg.core # "kalman", NEW c \in FdafSet(cfg, Values),
         NEW x \in Values, NEW y \in Values, NEW k
  PROVE  Exposed(c, FdafBlock(c, x, y, k).core)
<1> DEFINE n == Slid(c, x)
           yhat == Settled(Filtered(n.u, n.h), k.loud)
           e == Plus(y, yhat)
           t == [n EXCEPT !.trips = n.trips + 1]
<1> USE DEF Grades
<1>1. n \in FdafSet(cfg, Values) /\ n.h = c.h /\ n.trips = c.trips /\ c.cfg = cfg
  <2>1. c.cfg = cfg /\ {"h", "trips", "win", "u"} \subseteq DOMAIN c
    BY DEF FdafSet
  <2>2. n.h = c.h /\ n.trips = c.trips
    BY <2>1 DEF Slid
  <2>3. n \in FdafSet(cfg, Values)
    BY FdafSlides
  <2>4. QED
    BY <2>1, <2>2, <2>3
<1>2. n.u \in [1 .. cfg.partitions -> Values] /\ n.h \in Values /\ n.trips \in Nat
  BY <1>1 DEF FdafSet
<1>3. yhat \in Values /\ e \in Values
  BY <1>2, FilterClosed, SettledClosed, PlusClosed
<1>4. ~ Finite(c.h) => ~ Finite(e)
  BY <1>1, <1>2, <1>3, FilterSpoils, FilterClosed, SettledSpoils, PlusSpoils
<1>5. FdafBlock(c, x, y, k)
        = IF ~ (IF n.adapt THEN FiniteSum(e) ELSE FinitePower(e)) THEN TripFdaf(n)
          ELSE [core |-> IF n.adapt THEN Adapted(n, e, k) ELSE n, e |-> e, yhat |-> yhat]
  BY DEF FdafBlock, FdafFilter, FdafCancel, FdafError
<1> HIDE DEF n, yhat, e
<1>6. TripFdaf(n).core.trips # c.trips
  <2>1. t.trips = n.trips + 1
    BY <1>1 DEF FdafSet
  <2>2. TripFdaf(n).core = ResetFdaf(t)
    BY DEF TripFdaf
  <2> HIDE DEF t
  <2>3. ResetFdaf(t).trips = t.trips
    BY DEF ResetFdaf, Fdaf
  <2>4. QED
    BY <1>1, <1>2, <2>1, <2>2, <2>3
<1>7. ASSUME ~ Finite(c.h) PROVE FdafBlock(c, x, y, k).core.trips # c.trips
  <2>1. ~ FiniteSum(e) /\ ~ FinitePower(e)
    BY <1>3, <1>4, <1>7, PassesFinite
  <2>2. FdafBlock(c, x, y, k) = TripFdaf(n)
    BY <1>5, <2>1
  <2>3. QED
    BY <1>6, <2>2
<1>8. Poisoned(c) => ~ Finite(c.h)
  BY <1>1 DEF Poisoned
<1>9. QED
  BY <1>7, <1>8 DEF Exposed

LEMMA CoreExposes ==
  ASSUME NEW cfg, cfg.partitions \in Nat \ {0}, NEW c \in CoreSet(cfg, Values),
         NEW x \in Values, NEW y \in Values, NEW k
  PROVE  Exposed(c, CoreBlock(c, x, y, k).core)
<1>1. c.cfg = cfg
  BY CoreFields
<1>2. CASE cfg.core = "kalman"
  BY <1>1, <1>2, KalmanExposes DEF CoreSet, CoreBlock
<1>3. CASE cfg.core # "kalman"
  BY <1>1, <1>3, FdafExposes DEF CoreSet, CoreBlock
<1>4. QED
  BY <1>2, <1>3

\* A core of tame values is a core of values.
LEMMA CoreWidens ==
  ASSUME NEW V \in Grades, NEW cfg
  PROVE  /\ \A c \in KalmanSet(cfg, V) : c \in KalmanSet(cfg, Values)
         /\ \A c \in CoreSet(cfg, V) : c \in CoreSet(cfg, Values)
<1>1. ASSUME NEW c \in KalmanSet(cfg, V) PROVE c \in KalmanSet(cfg, Values)
  <2>1. c.u \in [1 .. cfg.partitions -> Values]
    BY GradeBase DEF KalmanSet
  <2>2. QED
    BY <2>1, GradeBase DEF KalmanSet
<1>2. ASSUME NEW c \in FdafSet(cfg, V) PROVE c \in FdafSet(cfg, Values)
  <2>1. c.u \in [1 .. cfg.partitions -> Values]
    BY GradeBase DEF FdafSet
  <2>2. QED
    BY <2>1, GradeBase DEF FdafSet
<1>3. QED
  BY <1>1, <1>2 DEF CoreSet

\* A reset leaves a core that is a filter.
LEMMA ResetIsWell ==
  ASSUME NEW c PROVE ~ Poisoned(ResetCore(c))
<1>1. CASE c.cfg.core = "kalman"
  <2>1. ResetKalman(c).h = "zero" /\ ResetKalman(c).p = "fin"
    BY DEF ResetKalman, Kalman
  <2>2. QED
    BY <1>1, <2>1 DEF ResetCore, Poisoned, Finite
<1>2. CASE c.cfg.core # "kalman"
  <2>1. ResetFdaf(c).h = "zero" /\ ResetFdaf(c).cfg = c.cfg
    BY DEF ResetFdaf, Fdaf
  <2>2. QED
    BY <1>2, <2>1 DEF ResetCore, Poisoned, Finite
<1>3. QED
  BY <1>1, <1>2

-------------------------------------------------------------------------------
(* What an overflow does to a Kalman core *)

Bounded == {"zero", "fin", "huge"}

LEMMA BoundedClosed ==
  ASSUME NEW a \in Tame, NEW b \in Bounded
  PROVE  /\ Times(a, b) \in Bounded /\ Plus(a, b) \in Bounded /\ Worst(a, b) \in Bounded
         /\ Finite(b) /\ b \in Values /\ a \in Bounded
         /\ b = "huge" => Plus(a, b) = "huge" /\ Plus(b, a) = "huge" /\ Worst(a, b) = "huge"
<1>1. "nan" \notin {a, b} /\ {a, b} # {"zero", "inf"} /\ "inf" \notin {a, b} /\ {a, b} # {"huge"}
  BY DEF Tame, Bounded
<1>2. Worst(a, b) \in {a, b}
  BY DEF Worst
<1>3. Plus(a, b) = Worst(a, b) /\ Plus(b, a) = Worst(b, a)
  BY <1>1 DEF Plus
<1>4. b = "huge" => Worst(a, b) = "huge" /\ Worst(b, a) = "huge"
  <2>1. Rank(a) \in {0, 1} /\ Rank("huge") = 2
    BY DEF Tame, Rank
  <2>2. QED
    BY <2>1 DEF Worst
<1>5. Times(a, b) \in {"zero", a, b}
  BY <1>1, <1>2 DEF Times
<1>6. QED
  BY <1>2, <1>3, <1>4, <1>5 DEF Tame, Bounded, Finite, Values

\* A core that an overflow of the error has left a filter: it has taken the
\* near end for infinitely loud, and moves no more.
FitSet(cfg) ==
  [cfg : {cfg}, win : Tame, u : [1 .. cfg.partitions -> Tame], h : Tame, p : Tame,
   psi : {"zero", "fin", "inf"}, num : Tame, den : Tame, nov : Tame,
   nb : Nat, adapt : BOOLEAN, trips : Nat]

LEMMA FitIsTyped ==
  ASSUME NEW cfg
  PROVE  /\ \A c \in FitSet(cfg) : c \in KalmanSet(cfg, Values)
         /\ \A c \in KalmanSet(cfg, Tame) : c \in FitSet(cfg)
<1>1. ASSUME NEW c \in FitSet(cfg) PROVE c \in KalmanSet(cfg, Values)
  <2>1. c.u \in [1 .. cfg.partitions -> Values]
    BY DEF FitSet, Tame, Values
  <2>2. QED
    BY <2>1 DEF FitSet, KalmanSet, Tame, Values
<1>2. ASSUME NEW c \in KalmanSet(cfg, Tame) PROVE c \in FitSet(cfg)
  BY DEF KalmanSet, FitSet, Tame
<1>3. QED
  BY <1>1, <1>2

LEMMA FitSlides ==
  ASSUME NEW cfg, cfg.partitions \in Nat \ {0}, NEW c \in FitSet(cfg), NEW x \in Tame
  PROVE  Novel(Slid(c, x)) \in FitSet(cfg)
<1> USE DEF Grades
<1> DEFINE w == Worst(c.win, x)
           u == [i \in DOMAIN c.u |-> IF i = 1 THEN w ELSE c.u[i - 1]]
           s == [c EXCEPT !.win = x, !.u = u]
           num == Plus(s.num, Times(s.u[1], s.u[2]))
           den == Worst(s.den, Times(Square(s.u[1]), Square(s.u[2])))
           nov == IF Over(Square(num), Worst("fin", Square(den))) = "nan" THEN "nan" ELSE "fin"
           n == [s EXCEPT !.num = num, !.den = den, !.nov = nov]
<1>1. c.win \in Tame /\ c.u \in [1 .. cfg.partitions -> Tame]
  BY DEF FitSet
<1>2. w \in Tame
  BY <1>1, WorstClosed
<1> HIDE DEF w
<1>3. u \in [1 .. cfg.partitions -> Tame]
  BY <1>1, <1>2, LineSlides
<1>4. Slid(c, x) = s
  BY DEF Slid, s, u, w
<1> HIDE DEF u
<1>5. s \in FitSet(cfg)
  BY <1>3 DEF FitSet
<1> HIDE DEF s
<1>6. CASE s.cfg.novelty /\ s.cfg.partitions >= 2
  <2>1. s.cfg = cfg /\ s.u \in [1 .. cfg.partitions -> Tame] /\ s.num \in Tame /\ s.den \in Tame
    BY <1>5 DEF FitSet
  <2>2. s.u[1] \in Tame /\ s.u[2] \in Tame
    BY <1>6, <2>1
  <2>3. num \in Tame
    BY <2>1, <2>2, TimesClosed, PlusClosed
  <2>4. den \in Tame
    BY <2>1, <2>2, TimesClosed, WorstClosed, SquareClosed
  <2> HIDE DEF num, den
  <2>5. Over(Square(num), Worst("fin", Square(den))) \in Tame
    BY <2>3, <2>4, GradeBase, SquareClosed, WorstClosed, OverClosed
  <2>6. nov \in Tame
    BY <2>5 DEF Tame
  <2> HIDE DEF nov
  <2>7. n \in FitSet(cfg)
    BY <1>5, <2>3, <2>4, <2>6 DEF FitSet
  <2>8. Novel(s) = n
    BY <1>6 DEF Novel, Discounted, n, num, den, nov
  <2>9. QED
    BY <1>4, <2>7, <2>8
<1>7. CASE ~ (s.cfg.novelty /\ s.cfg.partitions >= 2)
  BY <1>4, <1>5, <1>7 DEF Novel
<1>8. QED
  BY <1>6, <1>7

\* The innovation is no less than the near end.
LEMMA FitInnovates ==
  ASSUME NEW cfg, cfg.partitions \in Nat \ {0}, NEW c \in FitSet(cfg), NEW e \in Bounded, NEW prior \in Tame
  PROVE  Over(prior, Innovation(c, e, prior)) \in Tame
<1> USE DEF Grades
<1> DEFINE P == {"zero", "fin", "inf"}
           f == IF c.cfg.floor THEN Square(e) ELSE "zero"
           S == {"fin", c.psi, f} \cup {Times(Square(c.u[i]), prior) : i \in DOMAIN c.u}
           v == Innovation(c, e, prior)
<1>1. c.psi \in P /\ c.u \in [1 .. cfg.partitions -> Tame]
  BY DEF FitSet
<1>2. Square(e) \in P
  BY DEF Bounded, Square, Times, Worst
<1>3. \A i \in DOMAIN c.u : Times(Square(c.u[i]), prior) \in P
  BY <1>1, SquareClosed, TimesClosed DEF Tame
<1>4. S \subseteq P /\ S # {} /\ S \subseteq Values
  BY <1>1, <1>2, <1>3 DEF Values
<1> HIDE DEF S
<1>5. WorstOf(S) \in P
  BY <1>4, WorstOfClosed
<1>6. v \in P
  BY <1>5 DEF Innovation, S
<1> HIDE DEF v
<1>7. CASE v = "inf"
  <2>1. "nan" \notin {prior, v} /\ {prior, v} # {"inf"}
    BY <1>7 DEF Tame
  <2>2. Over(prior, v) = "zero"
    BY <1>7, <2>1 DEF Over
  <2>3. QED
    BY <2>2 DEF v, Tame
<1>8. CASE v # "inf"
  <2>1. v \in Tame
    BY <1>6, <1>8 DEF Tame
  <2>2. QED
    BY <2>1, OverClosed DEF v
<1>9. QED
  BY <1>7, <1>8

LEMMA FitCorrects ==
  ASSUME NEW cfg, cfg.partitions \in Nat \ {0}, NEW c \in FitSet(cfg),
         NEW e \in Bounded, NEW prior \in Tame, NEW g \in Tame, NEW k
  PROVE  LET d == Corrected(c, e, prior, g, k)
         IN  /\ d.trips = c.trips
             /\ d \in FitSet(cfg) \/ (e = "huge" /\ d.h = "huge")
<1> USE DEF Grades
<1> DEFINE A == {Times(g, Times(c.u[i], e)) : i \in DOMAIN c.u}
           B == {Times(prior, Plus("fin", Times(Times(g, Square(c.u[i])), c.nov))) : i \in DOMAIN c.u}
           wa == WorstOf(A)
           wb == WorstOf(B)
           h == Settled(Plus(c.h, wa), k.loud)
           psi == Worst(c.psi, Square(e))
           d == [c EXCEPT !.h = h, !.p = wb, !.psi = psi]
<1>1. /\ c.u \in [1 .. cfg.partitions -> Tame] /\ 1 \in DOMAIN c.u
      /\ c.h \in Tame /\ c.psi \in {"zero", "fin", "inf"} /\ c.nov \in Tame
  BY DEF FitSet
<1>2. ASSUME NEW i \in DOMAIN c.u
      PROVE  /\ Times(g, Times(c.u[i], e)) \in Bounded
             /\ e \in Tame => Times(g, Times(c.u[i], e)) \in Tame
             /\ Times(prior, Plus("fin", Times(Times(g, Square(c.u[i])), c.nov))) \in Tame
  <2>1. c.u[i] \in Tame
    BY <1>1
  <2>2. Times(Times(g, Square(c.u[i])), c.nov) \in Tame
    BY <1>1, <2>1, TimesClosed, SquareClosed
  <2>3. Times(prior, Plus("fin", Times(Times(g, Square(c.u[i])), c.nov))) \in Tame
    BY <2>2, TimesClosed, PlusClosed, GradeBase
  <2>4. e \in Tame => Times(g, Times(c.u[i], e)) \in Tame
    BY <2>1, TimesClosed
  <2>5. Times(c.u[i], e) \in Bounded
    BY <2>1, BoundedClosed
  <2>6. Times(g, Times(c.u[i], e)) \in Bounded
    BY <2>5, BoundedClosed
  <2>7. QED
    BY <2>3, <2>4, <2>6
<1>3. A \subseteq Bounded /\ A # {} /\ A \subseteq Values /\ (e \in Tame => A \subseteq Tame)
  <2>1. A \subseteq Bounded /\ A # {} /\ (e \in Tame => A \subseteq Tame)
    BY <1>1, <1>2
  <2>2. QED
    BY <2>1 DEF Bounded, Values
<1>4. B \subseteq Tame /\ B # {}
  BY <1>1, <1>2
<1> HIDE DEF A, B
<1>5. wa \in Bounded /\ (e \in Tame => wa \in Tame) /\ wb \in Tame
  BY <1>3, <1>4, WorstOfClosed
<1> HIDE DEF wa, wb
<1>6. h \in Bounded /\ (e \in Tame => h \in Tame)
  <2>1. Plus(c.h, wa) \in Bounded
    BY <1>1, <1>5, BoundedClosed
  <2>2. e \in Tame => h \in Tame
    BY <1>1, <1>5, PlusClosed, SettledClosed
  <2>3. QED
    BY <2>1, <2>2 DEF Settled, Bounded
<1>7. psi \in {"zero", "fin", "inf"}
  <2>1. Square(e) \in {"zero", "fin", "inf"}
    BY DEF Bounded, Square, Times, Worst
  <2>2. QED
    BY <1>1, <2>1 DEF Worst
<1> HIDE DEF h, psi
<1>8. d.h = h /\ d.trips = c.trips /\ (h \in Tame => d \in FitSet(cfg))
  BY <1>5, <1>7 DEF FitSet
<1>9. Corrected(c, e, prior, g, k) = d
  BY DEF Corrected, d, h, psi, wa, wb, A, B
<1> HIDE DEF d
<1>10. h \in Tame \/ (h = "huge" /\ e = "huge")
  BY <1>6 DEF Bounded, Tame
<1>11. QED
  BY <1>8, <1>9, <1>10

\* The newest slot of the ring holds the block and the one before it.
LEMMA NewestEnters ==
  ASSUME NEW cfg, cfg.partitions \in Nat \ {0}, NEW c \in KalmanSet(cfg, Values), NEW x, NEW k
  PROVE  LET n == Novel(Slid(c, x))
         IN  n.u[1] = Worst(c.win, x) /\ Counted(n, k).u = n.u
<1> DEFINE w == Worst(c.win, x)
           u == [i \in DOMAIN c.u |-> IF i = 1 THEN w ELSE c.u[i - 1]]
           s == [c EXCEPT !.win = x, !.u = u]
           n == Novel(s)
<1>1. {"win", "u", "h", "p", "num", "den", "nov", "nb"} \subseteq DOMAIN c /\ 1 \in DOMAIN c.u
  BY DEF KalmanSet
<1>2. Slid(c, x) = s
  BY DEF Slid
<1>3. u[1] = w
  BY <1>1
<1> HIDE DEF w, u
<1>4. s.u = u /\ {"u", "num", "den", "nov", "nb"} \subseteq DOMAIN s
  BY <1>1
<1> HIDE DEF s
<1>5. n.u = u /\ {"u", "nb"} \subseteq DOMAIN n
  BY <1>4 DEF Novel, Discounted
<1> HIDE DEF n
<1>6. Counted(n, k).u = u
  BY <1>5 DEF Counted
<1>7. QED
  BY <1>2, <1>3, <1>5, <1>6 DEF n, w

\* A block whose loudspeaker is ordinary, and whose microphone may overflow.
LEMMA FitRuns ==
  ASSUME NEW cfg, cfg.partitions \in Nat \ {0}, cfg.guard = 0, NEW c \in FitSet(cfg),
         NEW x \in Tame, NEW y \in Bounded, c.adapt \/ y \in Tame, NEW k
  PROVE  LET r == KalmanBlock(c, x, y, k)
         IN  /\ r.core \in FitSet(cfg) \/ (y = "huge" /\ r.core.h = "huge")
             /\ r.e \in Bounded /\ (r.e = "huge" <=> y = "huge")
<1> USE DEF Grades
<1> DEFINE n == Novel(Slid(c, x))
           yhat == Settled(Filtered(n.u, n.h), k.loud)
           e == Plus(y, yhat)
           m == Counted(n, k)
           r == KalmanBlock(c, x, y, k)
           G(res) == /\ res.core \in FitSet(cfg) \/ (y = "huge" /\ res.core.h = "huge")
                     /\ res.e = e
<1>1. n \in FitSet(cfg)
  BY FitSlides
<1>2. c \in KalmanSet(cfg, Values) /\ n.adapt = c.adapt
  BY FitIsTyped, KalmanKeeps
<1>3. n.u \in [1 .. cfg.partitions -> Tame] /\ n.h \in Tame
  BY <1>1 DEF FitSet
<1>4. yhat \in Tame
  BY <1>3, FilterClosed, SettledClosed
<1>5. r = IF n.adapt THEN KalmanAdapt(m, e, yhat, k) ELSE Held(n, e, yhat)
  BY DEF KalmanBlock, KalmanFilter, KalmanCancel, KalmanError
<1> HIDE DEF n
<1>6. m \in FitSet(cfg)
  <2>1. n.cfg = cfg
    BY <1>1 DEF FitSet
  <2> DEFINE z == 0
  <2>2. z \in Nat /\ m = [n EXCEPT !.nb = z]
    BY <2>1 DEF Counted
  <2> HIDE DEF m, z
  <2>3. [n EXCEPT !.nb = z] \in FitSet(cfg)
    BY <1>1, <2>2 DEF FitSet
  <2>4. QED
    BY <2>2, <2>3
<1> HIDE DEF m, yhat, r
<1>7. e \in Bounded /\ (e = "huge" <=> y = "huge") /\ (y \in Tame <=> e \in Tame)
  <2>1. y \in Tame => e \in Tame
    BY <1>4, PlusClosed
  <2>2. y = "huge" => e = "huge"
    BY <1>4, BoundedClosed
  <2>3. QED
    BY <2>1, <2>2 DEF Tame, Bounded
<1> HIDE DEF e
<1>8. CASE c.adapt
  <2> DEFINE prior == Prior(m)
             g == Over(prior, Innovation(m, e, prior))
  <2>1. m.p \in Tame /\ m.h \in Tame /\ m.cfg = cfg
    BY <1>6 DEF FitSet
  <2>2. prior \in Tame
    BY <2>1, WorstClosed, SquareClosed DEF Prior
  <2> HIDE DEF prior
  <2>3. g \in Tame
    BY <1>6, <1>7, <2>2, FitInnovates
  <2>4. Predicted(m, e, prior, k) = Corrected(m, e, prior, g, k)
    BY DEF Predicted
  <2> HIDE DEF g
  <2>5. LET d == Corrected(m, e, prior, g, k) IN d \in FitSet(cfg) \/ (e = "huge" /\ d.h = "huge")
    BY <1>6, <1>7, <2>2, <2>3, FitCorrects
  <2>6. FiniteSum(e)
    BY <1>7 DEF FiniteSum, Finite, Bounded
  <2>7. KalmanAdapt(m, e, yhat, k) = [core |-> Corrected(m, e, prior, g, k), e |-> e, yhat |-> yhat]
    BY <2>1, <2>4, <2>6 DEF KalmanAdapt, prior
  <2>8. r = [core |-> Corrected(m, e, prior, g, k), e |-> e, yhat |-> yhat]
    BY <1>2, <1>5, <1>8, <2>7
  <2>9. G(r)
    BY <1>7, <2>5, <2>8
  <2>10. QED
    BY <1>7, <2>9 DEF r
<1>9. CASE ~ c.adapt
  <2>1. e \in Tame
    BY <1>7, <1>9
  <2>2. r = [core |-> n, e |-> e, yhat |-> yhat]
    BY <1>2, <1>5, <1>9, <2>1, TamePasses DEF Held
  <2>3. G(r)
    BY <1>1, <2>2
  <2>4. QED
    BY <1>7, <2>3 DEF r
<1>10. QED
  BY <1>8, <1>9

\* A core whose uncertainty, or whose weights as they stand, the next update spoils.
Doomed(c) == ~ Finite(c.h) \/ ~ Finite(c.p) \/ c.h = "huge"

\* An overflow of the loudspeaker spoils the uncertainty in its own block.
LEMMA FitOverflows ==
  ASSUME NEW cfg, cfg.partitions \in Nat \ {0}, cfg.guard = 0, NEW c \in FitSet(cfg), c.adapt,
         NEW x, x = "huge", NEW y \in Tame, NEW k
  PROVE  LET r == KalmanBlock(c, x, y, k) IN r.core.trips # c.trips \/ ~ Finite(r.core.p)
<1> USE DEF Grades
<1> DEFINE n == Novel(Slid(c, x))
           yhat == Settled(Filtered(n.u, n.h), k.loud)
           e == Plus(y, yhat)
           m == Counted(n, k)
           r == KalmanBlock(c, x, y, k)
           prior == Prior(m)
           v == Innovation(m, e, prior)
           g == Over(prior, v)
           B == {Times(prior, Plus("fin", Times(Times(g, Square(m.u[i])), m.nov))) : i \in DOMAIN m.u}
<1>1. c \in KalmanSet(cfg, Values) /\ c.win \in Tame /\ c.h \in Tame /\ c.p \in Tame
  BY FitIsTyped DEF FitSet
<1>2. x \in Values /\ "huge" \in Values
  BY DEF Values
<1>3. n \in KalmanSet(cfg, Values) /\ m \in KalmanSet(cfg, Values)
  <2>1. Slid(c, x) \in KalmanSet(cfg, Values)
    BY <1>1, <1>2, KalmanSlides
  <2>2. n \in KalmanSet(cfg, Values)
    BY <2>1, KalmanDiscounts
  <2>3. m \in KalmanSet(cfg, Values)
    BY <2>2, KalmanCounts
  <2>4. QED
    BY <2>2, <2>3
<1>4. n.adapt = c.adapt /\ m.h = c.h /\ m.p = c.p /\ m.trips = c.trips /\ m.cfg = cfg
  <2>1. c.cfg = cfg
    BY DEF FitSet
  <2>2. c \in KalmanSet(cfg, Values)
    BY <1>1
  <2>3. /\ n.adapt = c.adapt
        /\ m.h = c.h /\ m.p = c.p /\ m.cfg = c.cfg /\ m.trips = c.trips
    BY ONLY <2>2, KalmanKeeps
  <2>4. QED
    BY <2>1, <2>3
<1>5. m.u[1] = "huge" /\ 1 \in DOMAIN m.u
  <2>1. c.win \in Bounded /\ Worst(c.win, "huge") = "huge"
    BY <1>1, BoundedClosed DEF Bounded
  <2>2. n.u[1] = Worst(c.win, x) /\ m.u = n.u
    BY ONLY <1>1, cfg.partitions \in Nat \ {0}, NewestEnters
  <2>3. 1 \in DOMAIN m.u
    BY <1>3 DEF KalmanSet
  <2>4. QED
    BY <2>1, <2>2, <2>3
<1>6. n.u \in [1 .. cfg.partitions -> Values] /\ n.h \in Values
  BY <1>3 DEF KalmanSet
<1>7. yhat \in Values /\ e \in Values
  BY <1>6, FilterClosed, SettledClosed, PlusClosed, GradeBase
<1>8. r = IF n.adapt THEN KalmanAdapt(m, e, yhat, k) ELSE Held(n, e, yhat)
  BY DEF KalmanBlock, KalmanFilter, KalmanCancel, KalmanError
<1> HIDE DEF n, m, yhat, e, r
<1>9. prior \in Tame /\ prior \in Values
  BY <1>1, <1>4, WorstClosed, SquareClosed, GradeBase DEF Prior
<1> HIDE DEF prior
<1>10. v \in Values
  BY <1>3, <1>7, <1>9, InnovationClosed
<1>11. ~ Finite(v)
  <2> DEFINE S == {"fin", m.psi, IF m.cfg.floor THEN Square(e) ELSE "zero"}
                  \cup {Times(Square(m.u[i]), prior) : i \in DOMAIN m.u}
  <2>1. m.u \in [1 .. cfg.partitions -> Values] /\ m.psi \in Values
    BY <1>3 DEF KalmanSet
  <2>2. S \subseteq Values
    BY <1>7, <1>9, <2>1, SquareClosed, TimesClosed DEF Values
  <2>3. Square("huge") = "inf"
    BY DEF Square, Times
  <2>4. Times(Square(m.u[1]), prior) \in S /\ ~ Finite(Times(Square(m.u[1]), prior))
    BY <1>2, <1>5, <1>9, <2>3, TimesSpoils DEF Finite, Values
  <2> HIDE DEF S
  <2>5. ~ Finite(WorstOf(S))
    BY <2>2, <2>4, WorstOfSpoils
  <2>6. QED
    BY <2>5 DEF Innovation, S
<1> HIDE DEF v
<1>12. g \in {"zero", "nan"}
  <2>1. CASE v = "inf"
    <3>1. "nan" \notin {prior, v} /\ {prior, v} # {"inf"}
      BY <1>9, <2>1 DEF Tame
    <3>2. QED
      BY <2>1, <3>1 DEF Over
  <2>2. CASE v = "nan"
    BY <2>2 DEF Over
  <2>3. QED
    BY <1>10, <1>11, <2>1, <2>2 DEF Values, Finite
<1> HIDE DEF g
<1>13. Times(prior, Plus("fin", Times(Times(g, Square(m.u[1])), m.nov))) = "nan"
  <2>1. Square(m.u[1]) = "inf"
    BY <1>5 DEF Square, Times
  <2>2. Times(g, "inf") = "nan"
    BY <1>12 DEF Times
  <2>3. Times("nan", m.nov) = "nan"
    BY DEF Times
  <2>4. Plus("fin", "nan") = "nan"
    BY DEF Plus, Worst, Rank
  <2>5. Times(prior, "nan") = "nan"
    BY DEF Times
  <2>6. QED
    BY <2>1, <2>2, <2>3, <2>4, <2>5
<1>14. B \subseteq Values
  <2>1. m.u \in [1 .. cfg.partitions -> Values] /\ m.nov \in Values
    BY <1>3 DEF KalmanSet
  <2>2. ASSUME NEW i \in DOMAIN m.u
        PROVE  Times(prior, Plus("fin", Times(Times(g, Square(m.u[i])), m.nov))) \in Values
    <3>1. m.u[i] \in Values /\ g \in Values /\ "fin" \in Values
      BY <1>12, <2>1 DEF Values
    <3>2. Times(Times(g, Square(m.u[i])), m.nov) \in Values
      BY <2>1, <3>1, SquareClosed, TimesClosed
    <3>3. QED
      BY <1>9, <3>1, <3>2, TimesClosed, PlusClosed
  <2>3. QED
    BY <2>2
<1>15. ~ Finite(WorstOf(B))
  <2>1. Times(prior, Plus("fin", Times(Times(g, Square(m.u[1])), m.nov))) \in B
    BY <1>5
  <2>2. ~ Finite("nan")
    BY DEF Finite
  <2> HIDE DEF B
  <2>3. QED
    BY <1>13, <1>14, <2>1, <2>2, WorstOfSpoils
<1>16. Predicted(m, e, prior, k).p = WorstOf(B)
  <2>1. "p" \in DOMAIN m /\ "h" \in DOMAIN m /\ "psi" \in DOMAIN m
    BY <1>3 DEF KalmanSet
  <2>2. QED
    BY <2>1 DEF Predicted, Corrected, B, g, v
<1>17. r = TripKalman(m) \/ r.core = Predicted(m, e, prior, k)
  <2>1. ~ (m.cfg.guard > 0 /\ m.nb >= m.cfg.guard)
    BY <1>4
  <2>2. KalmanAdapt(m, e, yhat, k) = IF ~ FiniteSum(e) THEN TripKalman(m)
                                     ELSE [core |-> Predicted(m, e, prior, k), e |-> e, yhat |-> yhat]
    BY <2>1 DEF KalmanAdapt, prior
  <2>3. QED
    BY <1>4, <1>8, <2>2
<1>18. TripKalman(m).core.trips # c.trips
  BY <1>3, <1>4, KalmanTripCounts
<1>19. QED
  BY <1>15, <1>16, <1>17, <1>18 DEF r

\* A sample that is not a number, on either input, resets the core.
LEMMA BadInputTrips ==
  ASSUME NEW cfg, cfg.partitions \in Nat \ {0}, cfg.guard = 0, NEW c \in KalmanSet(cfg, Values),
         NEW x \in Values, NEW y \in Values, ~ Finite(x) \/ ~ Finite(y), NEW k
  PROVE  KalmanBlock(c, x, y, k).core.trips # c.trips
<1> DEFINE n == Novel(Slid(c, x))
           yhat == Settled(Filtered(n.u, n.h), k.loud)
           e == Plus(y, yhat)
           m == Counted(n, k)
<1> USE DEF Grades
<1>1. n \in KalmanSet(cfg, Values) /\ m \in KalmanSet(cfg, Values)
  BY KalmanSlides, KalmanDiscounts, KalmanCounts
<1>2. n.trips = c.trips /\ m.trips = c.trips
  BY KalmanKeeps
<1>3. n.u \in [1 .. cfg.partitions -> Values] /\ n.h \in Values
  BY <1>1 DEF KalmanSet
<1>4. ASSUME ~ Finite(x) PROVE ~ Finite(Filtered(n.u, n.h))
  <2> DEFINE S == {Times(n.u[i], n.h) : i \in DOMAIN n.u}
  <2>1. n.u[1] = Worst(c.win, x)
    BY NewestEnters
  <2>2. c.win \in Values
    BY DEF KalmanSet
  <2>3. n.u[1] \in Values /\ ~ Finite(n.u[1])
    BY <1>3, <1>4, <2>1, <2>2, WorstSpoils
  <2> HIDE DEF n
  <2>4. S \subseteq Values
    BY <1>3, TimesClosed
  <2>5. Times(n.u[1], n.h) \in S /\ ~ Finite(Times(n.u[1], n.h))
    BY <1>3, <2>3, TimesSpoils
  <2> HIDE DEF S
  <2>6. ~ Finite(WorstOf(S))
    BY <2>4, <2>5, WorstOfSpoils
  <2>7. QED
    BY <2>6 DEF Filtered, S
<1>5. yhat \in Values /\ e \in Values
  BY <1>3, FilterClosed, SettledClosed, PlusClosed
<1>6. ~ Finite(e)
  BY <1>3, <1>4, <1>5, FilterClosed, SettledSpoils, PlusSpoils
<1>7. KalmanBlock(c, x, y, k) = IF n.adapt THEN KalmanAdapt(m, e, yhat, k) ELSE Held(n, e, yhat)
  BY DEF KalmanBlock, KalmanFilter, KalmanCancel, KalmanError
<1> HIDE DEF n, m, yhat, e
<1>8. ~ FiniteSum(e) /\ ~ FinitePower(e)
  BY <1>5, <1>6, PassesFinite
<1>9. KalmanBlock(c, x, y, k) = TripKalman(m) \/ KalmanBlock(c, x, y, k) = TripKalman(n)
  BY <1>7, <1>8 DEF KalmanAdapt, Held
<1>10. QED
  BY <1>1, <1>2, <1>9, KalmanTripCounts

\* A doomed core resets, or its weights are no longer numbers: it stays doomed.
LEMMA DoomedRuns ==
  ASSUME NEW cfg, cfg.partitions \in Nat \ {0}, cfg.core = "kalman", cfg.guard = 0,
         NEW c \in KalmanSet(cfg, Values), Doomed(c),
         NEW x \in Values, NEW y \in Values, NEW k
  PROVE  LET d == KalmanBlock(c, x, y, k).core
         IN  \/ d.trips # c.trips
             \/ Finite(c.h) /\ Doomed(d) /\ (c.adapt => ~ Finite(d.h))
<1> DEFINE n == Novel(Slid(c, x))
           yhat == Settled(Filtered(n.u, n.h), k.loud)
           e == Plus(y, yhat)
           m == Counted(n, k)
           r == KalmanBlock(c, x, y, k)
<1> USE DEF Grades
<1>1. n \in KalmanSet(cfg, Values) /\ m \in KalmanSet(cfg, Values)
  BY KalmanSlides, KalmanDiscounts, KalmanCounts
<1>2. /\ n.h = c.h /\ n.p = c.p /\ n.adapt = c.adapt /\ n.trips = c.trips
      /\ m.h = c.h /\ m.p = c.p /\ m.cfg = c.cfg /\ m.trips = c.trips /\ c.cfg = cfg
  BY KalmanKeeps DEF KalmanSet
<1>3. n.u \in [1 .. cfg.partitions -> Values] /\ n.h \in Values
  BY <1>1 DEF KalmanSet
<1>4. yhat \in Values /\ e \in Values
  BY <1>3, FilterClosed, SettledClosed, PlusClosed
<1>5. r = IF n.adapt THEN KalmanAdapt(m, e, yhat, k) ELSE Held(n, e, yhat)
  BY DEF KalmanBlock, KalmanFilter, KalmanCancel, KalmanError
<1>6. ~ Finite(c.h) => r.core.trips # c.trips
  BY KalmanExposes DEF Exposed
<1> HIDE DEF n, m, yhat, e, r
<1>7. TripKalman(m).core.trips # c.trips /\ TripKalman(n).core.trips # c.trips
  BY <1>1, <1>2, KalmanTripCounts
<1>8. CASE ~ c.adapt
  <2>1. r.core = n \/ r = TripKalman(n)
    BY <1>2, <1>5, <1>8 DEF Held
  <2>2. Doomed(n)
    BY <1>2 DEF Doomed
  <2>3. QED
    BY <1>6, <1>7, <1>8, <2>1, <2>2 DEF r
<1>9. CASE c.adapt /\ Finite(c.h)
  <2>1. ~ (m.cfg.guard > 0 /\ m.nb >= m.cfg.guard)
    BY <1>2
  <2>2. r = TripKalman(m) \/ r.core = Predicted(m, e, Prior(m), k)
    BY <1>2, <1>5, <1>9, <2>1 DEF KalmanAdapt
  <2>3. ~ Finite(m.p) \/ m.h = "huge"
    BY <1>2, <1>9 DEF Doomed
  <2>4. ~ Finite(Predicted(m, e, Prior(m), k).h)
    BY <1>1, <1>4, <2>3, UncertaintySpoils
  <2>5. QED
    BY <1>7, <1>9, <2>2, <2>4 DEF Doomed, r
<1>10. QED
  BY <1>6, <1>8, <1>9 DEF r

\* A lift changes neither.
LEMMA LiftKeepsFit ==
  ASSUME NEW cfg, NEW c \in KalmanSet(cfg, Values)
  PROVE  LET d == Reinflated(c)
         IN  /\ c \in FitSet(cfg) => d \in FitSet(cfg)
             /\ d.h = c.h /\ d.psi = c.psi /\ (Finite(d.p) <=> Finite(c.p))
<1> DEFINE p == IF c.p = "zero" THEN "fin" ELSE c.p
<1>1. {"h", "p", "psi"} \subseteq DOMAIN c
  BY DEF KalmanSet
<1>2. (c.p \in Tame => p \in Tame) /\ (Finite(p) <=> Finite(c.p))
  BY DEF Tame, Finite
<1>3. Reinflated(c) = [c EXCEPT !.p = p]
  BY DEF Reinflated
<1> HIDE DEF p
<1>4. c \in FitSet(cfg) => [c EXCEPT !.p = p] \in FitSet(cfg)
  BY <1>2 DEF FitSet
<1>5. QED
  BY <1>1, <1>2, <1>3, <1>4

\* What a block leaves of a core that an overflow has not spoilt yet.
LEMMA FitTurns ==
  ASSUME NEW cfg, cfg.partitions \in Nat \ {0}, cfg.guard = 0, NEW c \in FitSet(cfg),
         NEW x \in Values, NEW y \in Values, x \in Tame \/ y \in Tame,
         c.adapt \/ (x \in Tame /\ y \in Tame), NEW k
  PROVE  LET r == KalmanBlock(c, x, y, k)
         IN  \/ r.core.trips # c.trips
             \/ Doomed(r.core) /\ ~ (x \in Tame /\ y \in Tame)
             \/ r.core \in FitSet(cfg) /\ (r.e = "huge" <=> y = "huge") /\ x \in Tame
<1> DEFINE r == KalmanBlock(c, x, y, k)
<1>1. c \in KalmanSet(cfg, Values)
  BY FitIsTyped
<1>2. CASE ~ Finite(x) \/ ~ Finite(y)
  BY <1>1, <1>2, BadInputTrips
<1>3. CASE x \in Tame /\ y \in Bounded
  <2>1. /\ r.core \in FitSet(cfg) \/ (y = "huge" /\ r.core.h = "huge")
        /\ r.e = "huge" <=> y = "huge"
    BY <1>3, FitRuns, TamePasses DEF Bounded, Tame
  <2> HIDE DEF r
  <2>2. y = "huge" => y \notin Tame
    BY DEF Tame
  <2>3. QED
    BY <1>3, <2>1, <2>2 DEF Doomed, r
<1>4. CASE x = "huge" /\ y \in Tame
  <2>1. c.adapt /\ x \notin Tame
    BY <1>4 DEF Tame
  <2>2. r.core.trips # c.trips \/ ~ Finite(r.core.p)
    BY <1>4, <2>1, FitOverflows
  <2> HIDE DEF r
  <2>3. QED
    BY <2>1, <2>2 DEF Doomed, r
<1>5. QED
  BY <1>2, <1>3, <1>4 DEF Bounded, Finite, Values, Tame

-------------------------------------------------------------------------------
(* What a ring that has heard more shows *)

LEMMA WorstOfTops ==
  ASSUME NEW S, S \subseteq Values, NEW v \in S
  PROVE  WorstOf(S) \in S /\ Rank(v) <= Rank(WorstOf(S))
<1>1. \E m \in S : \A w \in S : Rank(w) <= Rank(m)
  <2>1. CASE "nan" \in S
    BY <2>1 DEF Rank, Values
  <2>2. CASE "nan" \notin S /\ "inf" \in S
    BY <2>2 DEF Rank, Values
  <2>3. CASE "nan" \notin S /\ "inf" \notin S /\ "huge" \in S
    BY <2>3 DEF Rank, Values
  <2>4. CASE "nan" \notin S /\ "inf" \notin S /\ "huge" \notin S /\ "fin" \in S
    BY <2>4 DEF Rank, Values
  <2>5. CASE S \subseteq {"zero"}
    <3>1. S = {"zero"}
      BY <2>5
    <3>2. QED
      BY <3>1 DEF Rank
  <2>6. QED
    BY <2>1, <2>2, <2>3, <2>4, <2>5 DEF Values
<1>2. QED
  BY <1>1 DEF WorstOf

LEMMA WorstTops ==
  ASSUME NEW a \in Values, NEW b \in Values, NEW c \in Values, NEW d \in Values, Rank(b) <= Rank(d)
  PROVE  /\ Rank(a) <= Rank(c) => Rank(Worst(a, b)) <= Rank(Worst(c, d))
         /\ Worst(a, b) \in {a, b}
         /\ Rank(b) <= Rank(Worst(a, b)) /\ Rank(a) <= Rank(Worst(a, b))
  BY DEF Worst, Rank, Values

\* Two finite values, or a finite weight, keep a sum finite.
LEMMA PlusKeeps ==
  ASSUME NEW a \in Values, NEW b \in Values, NEW loud, Finite(a), Finite(b)
  PROVE  Finite(Plus(a, b)) /\ Finite(Settled(a, loud))
  BY DEF Plus, Worst, Rank, Finite, Values, Settled

\* What a finite weight makes of a value that overflows, it makes of any worse.
LEMMA TimesShows ==
  ASSUME NEW a \in Values, NEW b \in Values, NEW h \in Values, Finite(h),
         a \in Tame \/ Rank(a) <= Rank(b), ~ Finite(Times(a, h))
  PROVE  ~ Finite(Times(b, h))
<1>1. CASE ~ Finite(b)
  BY <1>1, TimesSpoils
<1>2. CASE Finite(b)
  <2>1. a \in {"zero", "fin", "huge"}
    BY <1>2 DEF Finite, Rank, Values, Tame
  <2>2. h \in {"zero", "fin", "huge"}
    BY DEF Finite
  <2>3. {a, h} = {"huge"}
    <3>1. SUFFICES ASSUME {a, h} # {"huge"} PROVE FALSE
      OBVIOUS
    <3>2. "nan" \notin {a, h} /\ "inf" \notin {a, h} /\ {a, h} # {"zero", "inf"}
      BY <2>1, <2>2
    <3>3. Times(a, h) \in {"zero", a, h}
      BY <3>1, <3>2 DEF Times, Worst
    <3>4. QED
      BY <2>1, <2>2, <3>3 DEF Finite
  <2>4. a = "huge" /\ h = "huge" /\ b = "huge"
    BY <1>2, <2>3 DEF Finite, Rank, Tame
  <2>5. Times(b, h) = "inf"
    BY <2>4 DEF Times
  <2>6. QED
    BY <2>5 DEF Finite
<1>3. QED
  BY <1>1, <1>2

\* Each slot of the ring u is ordinary, or no worse than some slot of v.
Outranked(u, v) == \A i \in DOMAIN u : u[i] \in Tame \/ \E j \in DOMAIN v : Rank(u[i]) <= Rank(v[j])

LEMMA FilterShows ==
  ASSUME NEW n \in Nat \ {0}, NEW u \in [1 .. n -> Values], NEW v \in [1 .. n -> Values],
         NEW h \in Values, Outranked(u, v), ~ Finite(Filtered(u, h))
  PROVE  ~ Finite(Filtered(v, h))
<1> DEFINE S == {Times(u[i], h) : i \in DOMAIN u}
           T == {Times(v[i], h) : i \in DOMAIN v}
<1>1. CASE ~ Finite(h)
  BY <1>1, FilterSpoils
<1>2. CASE Finite(h)
  <2>1. S \subseteq Values /\ T \subseteq Values
    BY TimesClosed DEF Grades
  <2>2. Times(u[1], h) \in S
    OBVIOUS
  <2>3. \E i \in DOMAIN u : WorstOf(S) = Times(u[i], h)
    <3> HIDE DEF S
    <3>1. WorstOf(S) \in S
      BY <2>1, <2>2, WorstOfTops
    <3>2. QED
      BY <3>1 DEF S
  <2>4. PICK i \in 1 .. n : ~ Finite(Times(u[i], h))
    BY <2>3 DEF Filtered
  <2>5. CASE u[i] \in Tame
    <3>1. v[1] \in Values /\ ~ Finite(Times(v[1], h)) /\ Times(v[1], h) \in T
      BY <1>2, <2>4, <2>5, TimesShows
    <3> HIDE DEF T
    <3>2. ~ Finite(WorstOf(T))
      BY <2>1, <3>1, WorstOfSpoils
    <3>3. QED
      BY <3>2 DEF Filtered, T
  <2>6. CASE u[i] \notin Tame
    <3>1. PICK j \in 1 .. n : Rank(u[i]) <= Rank(v[j])
      BY <2>6 DEF Outranked
    <3>2. ~ Finite(Times(v[j], h)) /\ Times(v[j], h) \in T
      BY <1>2, <2>4, <3>1, TimesShows
    <3> HIDE DEF T
    <3>3. ~ Finite(WorstOf(T))
      BY <2>1, <3>2, WorstOfSpoils
    <3>4. QED
      BY <3>3 DEF Filtered, T
  <2>7. QED
    BY <2>5, <2>6
<1>3. QED
  BY <1>1, <1>2

\* An error that is not a number is one on worse blocks, too.
LEMMA ErrorShows ==
  ASSUME NEW n \in Nat \ {0}, NEW u \in [1 .. n -> Values], NEW v \in [1 .. n -> Values],
         NEW h \in Values, Outranked(u, v), NEW y \in Values, NEW z \in Values, Rank(y) <= Rank(z),
         NEW loud, Finite(Plus(z, Settled(Filtered(v, h), loud)))
  PROVE  Finite(Plus(y, Settled(Filtered(u, h), loud)))
<1> DEFINE f == Filtered(u, h)
           g == Filtered(v, h)
<1> USE DEF Grades
<1>1. f \in Values /\ g \in Values /\ (~ Finite(f) => ~ Finite(g))
  BY FilterClosed, FilterShows
<1> HIDE DEF f, g
<1>2. Settled(f, loud) \in Values /\ Settled(g, loud) \in Values
  BY <1>1, SettledClosed
<1>3. Finite(z) /\ Finite(Settled(g, loud))
  BY <1>2, PlusSpoils DEF g
<1>4. Finite(g) /\ Finite(f)
  BY <1>1, <1>3, SettledSpoils
<1>5. Finite(y)
  BY <1>3 DEF Finite, Rank, Values
<1>6. Finite(Settled(f, loud))
  BY <1>1, <1>4, PlusKeeps
<1>7. QED
  BY <1>2, <1>5, <1>6, PlusKeeps DEF f

\* The ring once x has entered it.
Line(c, x) == [i \in DOMAIN c.u |-> IF i = 1 THEN Worst(c.win, x) ELSE c.u[i - 1]]

\* What a block leaves of a core that does not trip: its ring took in x, and its
\* error was finite.
Advances(c, d, x, y, k) ==
  /\ d.win = x /\ d.u = Line(c, x)
  /\ Finite(Plus(y, Settled(Filtered(Line(c, x), c.h), k.loud)))

SameRing(c, d) == d.win = c.win /\ d.u = c.u /\ DOMAIN d = DOMAIN c

LEMMA KalmanAdvances ==
  ASSUME NEW cfg, cfg.partitions \in Nat \ {0}, NEW c \in KalmanSet(cfg, Values),
         NEW x \in Values, NEW y \in Values, NEW k
  PROVE  LET d == KalmanBlock(c, x, y, k).core
         IN  d.trips = c.trips => Advances(c, d, x, y, k)
<1> DEFINE line == Line(c, x)
           s == [c EXCEPT !.win = x, !.u = line]
           n == Novel(s)
           yhat == Settled(Filtered(n.u, n.h), k.loud)
           e == Plus(y, yhat)
           m == Counted(n, k)
           p == Predicted(m, e, Prior(m), k)
           d == KalmanBlock(c, x, y, k).core
<1> USE DEF Grades
<1>1. Slid(c, x) = s
  BY DEF Slid, Line
<1>2. /\ n \in KalmanSet(cfg, Values) /\ m \in KalmanSet(cfg, Values)
      /\ n.h = c.h /\ n.adapt = c.adapt /\ n.trips = c.trips /\ m.trips = c.trips
  <2>1. s \in KalmanSet(cfg, Values)
    BY <1>1, KalmanSlides
  <2>2. n \in KalmanSet(cfg, Values)
    BY <2>1, KalmanDiscounts
  <2>3. m \in KalmanSet(cfg, Values)
    BY <2>2, KalmanCounts
  <2>4. QED
    BY <1>1, <2>2, <2>3, KalmanKeeps
<1> HIDE DEF line
<1>3. s.win = x /\ s.u = line
  BY DEF KalmanSet
<1> HIDE DEF s
<1>4. SameRing(s, n)
  BY DEF SameRing, Novel, Discounted
<1> HIDE DEF n
<1>5. SameRing(n, m)
  BY DEF SameRing, Counted
<1>6. n.u \in [1 .. cfg.partitions -> Values] /\ n.h \in Values
  BY <1>2 DEF KalmanSet
<1>7. yhat \in Values /\ e \in Values
  BY <1>6, FilterClosed, SettledClosed, PlusClosed
<1>8. KalmanBlock(c, x, y, k) = IF n.adapt THEN KalmanAdapt(m, e, yhat, k) ELSE Held(n, e, yhat)
  BY <1>1 DEF KalmanBlock, KalmanFilter, KalmanCancel, KalmanError, n
<1> HIDE DEF m, yhat, e
<1>9. TripKalman(m).core.trips # c.trips /\ TripKalman(n).core.trips # c.trips
  BY <1>2, KalmanTripCounts
<1>10. SameRing(m, p)
  BY DEF SameRing, Predicted, Corrected
<1> HIDE DEF p
<1>11. SUFFICES ASSUME d.trips = c.trips PROVE Advances(c, d, x, y, k)
  OBVIOUS
<1>12. d \in {n, m, p} /\ (FiniteSum(e) \/ FinitePower(e))
  BY <1>8, <1>9, <1>11 DEF KalmanAdapt, Held, p
<1>13. Finite(e)
  BY <1>7, <1>12, PassesFinite
<1>14. n.u = line /\ d.u = line /\ d.win = x
  BY <1>3, <1>4, <1>5, <1>10, <1>12 DEF SameRing
<1>15. QED
  BY <1>2, <1>13, <1>14 DEF Advances, e, yhat, line

LEMMA FdafAdvances ==
  ASSUME NEW cfg, cfg.partitions \in Nat \ {0}, NEW c \in FdafSet(cfg, Values),
         NEW x \in Values, NEW y \in Values, NEW k
  PROVE  LET d == FdafBlock(c, x, y, k).core
         IN  d.trips = c.trips => Advances(c, d, x, y, k)
<1> DEFINE line == Line(c, x)
           n == [c EXCEPT !.win = x, !.u = line]
           yhat == Settled(Filtered(n.u, n.h), k.loud)
           e == Plus(y, yhat)
           t == [n EXCEPT !.trips = n.trips + 1]
           a == UpdateIpc(n, e, k)
           b == Powered(a)
           d == FdafBlock(c, x, y, k).core
<1> USE DEF Grades
<1>1. Slid(c, x) = n
  BY DEF Slid, Line
<1>2. n \in FdafSet(cfg, Values)
  BY <1>1, FdafSlides
<1> HIDE DEF line
<1>3. n.win = x /\ n.u = line /\ n.h = c.h /\ n.adapt = c.adapt /\ n.trips = c.trips
  BY DEF FdafSet
<1> HIDE DEF n
<1>4. n.u \in [1 .. cfg.partitions -> Values] /\ n.h \in Values /\ n.trips \in Nat
  BY <1>2 DEF FdafSet
<1>5. yhat \in Values /\ e \in Values
  BY <1>4, FilterClosed, SettledClosed, PlusClosed
<1>6. FdafBlock(c, x, y, k)
        = IF ~ (IF n.adapt THEN FiniteSum(e) ELSE FinitePower(e)) THEN TripFdaf(n)
          ELSE [core |-> IF n.adapt THEN Adapted(n, e, k) ELSE n, e |-> e, yhat |-> yhat]
  BY <1>1 DEF FdafBlock, FdafFilter, FdafCancel, FdafError
<1> HIDE DEF yhat, e
<1>7. TripFdaf(n).core.trips # c.trips
  <2>1. t.trips = n.trips + 1
    BY <1>2 DEF FdafSet
  <2>2. TripFdaf(n).core = ResetFdaf(t)
    BY DEF TripFdaf
  <2> HIDE DEF t
  <2>3. ResetFdaf(t).trips = t.trips
    BY DEF ResetFdaf, Fdaf
  <2>4. QED
    BY <1>3, <1>4, <2>1, <2>2, <2>3
<1>8. SameRing(n, Adapted(n, e, k))
  <2>1. SameRing(n, a)
    BY DEF SameRing, UpdateIpc, Gated, Smoothed
  <2> HIDE DEF a
  <2>2. SameRing(a, b)
    BY DEF SameRing, Powered
  <2> HIDE DEF b
  <2>3. SameRing(b, Stepped(b, e, k))
    BY DEF SameRing, Stepped, Moved
  <2>4. Adapted(n, e, k) = Stepped(b, e, k)
    BY DEF Adapted, a, b
  <2>5. QED
    BY <2>1, <2>2, <2>3, <2>4 DEF SameRing
<1>9. SUFFICES ASSUME d.trips = c.trips PROVE Advances(c, d, x, y, k)
  OBVIOUS
<1>10. d \in {n, Adapted(n, e, k)} /\ (FiniteSum(e) \/ FinitePower(e))
  BY <1>6, <1>7, <1>9
<1>11. Finite(e)
  BY <1>5, <1>10, PassesFinite
<1>12. d.u = line /\ d.win = x
  BY <1>3, <1>8, <1>10 DEF SameRing
<1>13. QED
  BY <1>3, <1>11, <1>12 DEF Advances, e, yhat, line

LEMMA CoreAdvances ==
  ASSUME NEW cfg, cfg.partitions \in Nat \ {0}, NEW c \in CoreSet(cfg, Values),
         NEW x \in Values, NEW y \in Values, NEW k
  PROVE  LET d == CoreBlock(c, x, y, k).core
         IN  d.trips = c.trips => Advances(c, d, x, y, k)
<1>1. c.cfg = cfg
  BY CoreFields
<1>2. CASE cfg.core = "kalman"
  <2>1. c \in KalmanSet(cfg, Values) /\ CoreBlock(c, x, y, k) = KalmanBlock(c, x, y, k)
    BY <1>1, <1>2 DEF CoreSet, CoreBlock
  <2>2. QED
    BY <2>1, KalmanAdvances
<1>3. CASE cfg.core # "kalman"
  <2>1. c \in FdafSet(cfg, Values) /\ CoreBlock(c, x, y, k) = FdafBlock(c, x, y, k)
    BY <1>1, <1>3 DEF CoreSet, CoreBlock
  <2>2. QED
    BY <2>1, FdafAdvances
<1>4. QED
  BY <1>2, <1>3
=============================================================================
