--------------------------- MODULE EchoUnitProofs ---------------------------
(***************************************************************************)
(* Lemmas about the post stages, the prewhitened canceller and the stages     *)
(* of the AEC chain, for windows of any length. Of the post stages: their      *)
(* type, and what a certificate of theirs says of the blocks they heard.        *)
(***************************************************************************)
EXTENDS EchoCoreProofs, PemAfc, AecChain

LEMMA LessClosed ==
  ASSUME NEW V \in Grades, NEW a \in V, NEW b \in V PROVE Less(a, b) \in V
  BY DEF Less

LEMMA ValuesGrade == Values \in Grades /\ Tame \in Grades /\ Tame \subseteq Values
  BY DEF Grades, Values, Tame

-------------------------------------------------------------------------------
(* The classical suppressor *)

ResidualSet(cfg) ==
  [cfg : {cfg}, eh : 0 .. cfg.analysis, dh : 0 .. cfg.analysis, yh : 0 .. cfg.analysis,
   yl : 0 .. cfg.analysis, ql : 0 .. cfg.analysis,
   sdy : Values, sdd : Values, syy : Values, see : Values, leak : Values, psm : Values,
   min_cur : Values, min_prev : Values, min_count : Nat, trips : Nat]

LEMMA ResidualFresh ==
  ASSUME NEW cfg, cfg.analysis \in Nat
  PROVE  Residual(cfg) \in ResidualSet(cfg)
  BY DEF Residual, ResidualSet, Values

LEMMA ResidualResets ==
  ASSUME NEW cfg, cfg.analysis \in Nat, NEW s \in ResidualSet(cfg)
  PROVE  /\ ResetResidual(s) \in ResidualSet(cfg)
         /\ ResetResidual(s).trips = s.trips
         /\ ResetResidual(s).cfg = cfg
         /\ ResetResidual(ResetResidual(s)) = ResetResidual(s)
<1>1. s.cfg = cfg /\ s.trips \in Nat
  BY DEF ResidualSet
<1>2. QED
  BY <1>1 DEF Residual, ResidualSet, ResetResidual, Values

\* Everything but the windows and the count of trips may differ.
SameWindows(s, t) ==
  /\ t.cfg = s.cfg /\ t.trips = s.trips
  /\ t.eh = s.eh /\ t.dh = s.dh /\ t.yh = s.yh /\ t.yl = s.yl /\ t.ql = s.ql

LEMMA WindowsDecide ==
  ASSUME NEW s, NEW t, SameWindows(s, t)
  PROVE  EchoExplained(t) = EchoExplained(s)
  BY DEF SameWindows, EchoExplained, Silent, PowerOfY, PowerIn, InWindow

LEMMA SinceType ==
  ASSUME NEW n \in Nat, NEW a \in 0 .. n, NEW now PROVE Since(a, now, n) \in 0 .. n
  BY DEF Since

\* The ages of a block's windows, s before, t after.
Aged(s, t, yhat, mic, N) ==
  /\ t.dh = Since(s.dh, mic = "huge", N)
  /\ t.yh = Since(s.yh, yhat = "huge", N)
  /\ t.yl = Since(s.yl, yhat # "zero", N)
  /\ t.ql = Since(s.ql, {yhat, mic} # {"zero"}, N)

LEMMA WindowsSlide ==
  ASSUME NEW cfg, cfg.analysis \in Nat, NEW s \in ResidualSet(cfg), NEW e, NEW yhat, NEW mic
  PROVE  LET t == SlidWindows(s, e, yhat, mic)
         IN  /\ t \in ResidualSet(cfg) /\ t.trips = s.trips
             /\ Aged(s, t, yhat, mic, cfg.analysis)
<1> DEFINE N == cfg.analysis
           eh == Since(s.eh, e = "huge", N)
           dh == Since(s.dh, mic = "huge", N)
           yh == Since(s.yh, yhat = "huge", N)
           yl == Since(s.yl, yhat # "zero", N)
           ql == Since(s.ql, {yhat, mic} # {"zero"}, N)
           t == [s EXCEPT !.eh = eh, !.dh = dh, !.yh = yh, !.yl = yl, !.ql = ql]
<1>1. s.cfg = cfg /\ {s.eh, s.dh, s.yh, s.yl, s.ql} \subseteq 0 .. N
  BY DEF ResidualSet
<1>2. eh \in 0 .. N /\ dh \in 0 .. N /\ yh \in 0 .. N /\ yl \in 0 .. N /\ ql \in 0 .. N
  BY <1>1, SinceType
<1>3. SlidWindows(s, e, yhat, mic) = t
  BY <1>1 DEF SlidWindows
<1> HIDE DEF eh, dh, yh, yl, ql
<1>4. t \in ResidualSet(cfg) /\ t.trips = s.trips /\ t.dh = dh /\ t.yh = yh /\ t.yl = yl /\ t.ql = ql
  BY <1>2 DEF ResidualSet
<1>5. QED
  BY <1>3, <1>4 DEF Aged, dh, yh, yl, ql

LEMMA PowerType == ASSUME NEW s, NEW age PROVE PowerIn(s, age) \in Values /\ PowerOfY(s) \in Values
  BY DEF PowerIn, PowerOfY, Values

LEMMA SpectraType ==
  ASSUME NEW cfg, NEW s \in ResidualSet(cfg), NEW py \in Values, NEW pd \in Values
  PROVE  Spectra(s, py, pd) \in ResidualSet(cfg) /\ SameWindows(s, Spectra(s, py, pd))
<1> DEFINE sdy == Chase(s.sdy, Crossed(py, pd))
           sdd == Chase(s.sdd, pd)
           syy == Chase(s.syy, py)
           see == Chase(s.see, PowerIn(s, s.eh))
<1>1. s.sdy \in Values /\ s.sdd \in Values /\ s.syy \in Values /\ s.see \in Values
  BY DEF ResidualSet
<1>2. Crossed(py, pd) \in Values
  BY ValuesGrade, WorstClosed, GradeBase DEF Crossed
<1>3. sdy \in Values /\ sdd \in Values /\ syy \in Values /\ see \in Values
  BY <1>1, <1>2, ValuesGrade, ChaseClosed, PowerType
<1> HIDE DEF sdy, sdd, syy, see
<1>4. /\ [s EXCEPT !.sdy = sdy, !.sdd = sdd, !.syy = syy, !.see = see] \in ResidualSet(cfg)
      /\ SameWindows(s, [s EXCEPT !.sdy = sdy, !.sdd = sdd, !.syy = syy, !.see = see])
  BY <1>3 DEF ResidualSet, SameWindows
<1>5. QED
  BY <1>4 DEF Spectra, sdy, sdd, syy, see

LEMMA EstimatedType ==
  ASSUME NEW cfg, NEW s \in ResidualSet(cfg), NEW k
  PROVE  Estimated(s, k) \in ResidualSet(cfg) /\ SameWindows(s, Estimated(s, k))
<1> DEFINE t == Spectra(s, PowerOfY(s), PowerIn(s, s.dh))
           v == Chase(t.leak, Over(t.see, Worst("fin", t.syy)))
<1>1. t \in ResidualSet(cfg) /\ SameWindows(s, t)
  BY PowerType, SpectraType
<1> HIDE DEF t
<1>2. t.leak \in Values /\ t.see \in Values /\ t.syy \in Values
  BY <1>1 DEF ResidualSet
<1>3. v \in Values
  BY <1>2, ValuesGrade, GradeBase, WorstClosed, OverClosed, ChaseClosed
<1> HIDE DEF v
<1>4. [t EXCEPT !.leak = v] \in ResidualSet(cfg) /\ SameWindows(t, [t EXCEPT !.leak = v])
  BY <1>1, <1>3 DEF ResidualSet, SameWindows
<1>5. Estimated(s, k) = t \/ Estimated(s, k) = [t EXCEPT !.leak = v]
  BY DEF Estimated, Relearned, Leaked, t, v
<1>6. QED
  BY <1>1, <1>4, <1>5 DEF SameWindows

LEMMA TrackedType ==
  ASSUME NEW cfg, NEW s \in ResidualSet(cfg), NEW psm \in Values
  PROVE  Tracked(s, psm) \in ResidualSet(cfg) /\ SameWindows(s, Tracked(s, psm))
<1> DEFINE m == IF psm = "nan" THEN s.min_cur ELSE Less(psm, s.min_cur)
<1>1. s.min_cur \in Values
  BY DEF ResidualSet
<1>2. m \in Values
  BY <1>1, ValuesGrade, LessClosed
<1> HIDE DEF m
<1>3. /\ [s EXCEPT !.psm = psm, !.min_cur = m] \in ResidualSet(cfg)
      /\ SameWindows(s, [s EXCEPT !.psm = psm, !.min_cur = m])
  BY <1>2 DEF ResidualSet, SameWindows
<1>4. QED
  BY <1>3 DEF Tracked, m

LEMMA RotatedType ==
  ASSUME NEW cfg, NEW s \in ResidualSet(cfg)
  PROVE  Rotated(s) \in ResidualSet(cfg) /\ SameWindows(s, Rotated(s))
<1>1. s.min_count + 1 \in Nat /\ s.min_cur \in Values /\ "inf" \in Values
  BY DEF ResidualSet, Values
<1>2. QED
  BY <1>1 DEF Rotated, ResidualSet, SameWindows

\* What the chain learns from the post stage's block: s before, r its result,
\* t the windows after this block.
ResidualRan(cfg, s, r, t) ==
  /\ r.post \in ResidualSet(cfg)
  /\ Finite(r.out)
  /\ \/ /\ r.post.trips = s.trips + 1
        /\ r.post = ResetResidual(r.post)
        /\ r.out = "zero"
     \/ /\ SameWindows(t, r.post)
        /\ r.post.trips = s.trips
        /\ r.explained = EchoExplained(t)

LEMMA ResidualTrips ==
  ASSUME NEW cfg, cfg.analysis \in Nat, NEW s \in ResidualSet(cfg), NEW d \in ResidualSet(cfg),
         d.trips = s.trips, NEW t
  PROVE  ResidualRan(cfg, s, TripResidual(d), t)
<1> DEFINE u == [d EXCEPT !.trips = d.trips + 1]
<1>1. u \in ResidualSet(cfg) /\ u.trips = s.trips + 1
  BY DEF ResidualSet
<1>2. TripResidual(d) = [post |-> ResetResidual(u), out |-> "zero", explained |-> {"low"}]
  BY DEF TripResidual
<1> HIDE DEF u
<1>3. /\ ResetResidual(u) \in ResidualSet(cfg) /\ ResetResidual(u).trips = u.trips
      /\ ResetResidual(ResetResidual(u)) = ResetResidual(u)
  BY <1>1, ResidualResets
<1> HIDE DEF ResetResidual
<1>4. QED
  BY <1>1, <1>2, <1>3 DEF ResidualRan, Finite

\* The classical suppressor: its type; nothing but finite values out; and
\* either a fresh start or a certificate that its windows decide.
LEMMA ResidualRuns ==
  ASSUME NEW cfg, cfg.analysis \in Nat, NEW s \in ResidualSet(cfg),
         NEW e \in Values, NEW yhat \in Values, NEW mic \in Values, NEW k
  PROVE  ResidualRan(cfg, s, ResidualBlock(s, e, yhat, mic, k), SlidWindows(s, e, yhat, mic))
<1> DEFINE t == SlidWindows(s, e, yhat, mic)
           u == Estimated(t, k)
           psm == Chase(u.psm, PowerIn(u, u.eh))
           w == Tracked(u, psm)
           r == ResidualBlock(s, e, yhat, mic, k)
<1>1. t \in ResidualSet(cfg) /\ t.trips = s.trips
  BY WindowsSlide
<1> HIDE DEF t
<1>2. u \in ResidualSet(cfg) /\ SameWindows(t, u)
  BY <1>1, EstimatedType
<1> HIDE DEF u
<1>3. psm \in Values
  BY <1>2, ValuesGrade, ChaseClosed, PowerType DEF ResidualSet
<1> HIDE DEF psm
<1>4. w \in ResidualSet(cfg) /\ SameWindows(u, w)
  BY <1>2, <1>3, TrackedType
<1> HIDE DEF w
<1>5. Rotated(w) \in ResidualSet(cfg) /\ SameWindows(w, Rotated(w))
  BY <1>4, RotatedType
<1>6. SameWindows(t, w) /\ SameWindows(t, Rotated(w))
  BY <1>2, <1>4, <1>5 DEF SameWindows
<1>7. CASE ~ ({e, yhat, mic} \subseteq {"zero", "fin", "huge"})
  BY <1>7, ResidualTrips DEF ResidualBlock
<1>8. CASE {e, yhat, mic} \subseteq {"zero", "fin", "huge"}
  <2>1. r = ResidualGain(u, e)
    BY <1>8 DEF ResidualBlock, u, t
  <2>2. CASE ~ GainIsNumber(u)
    <3>1. u.trips = s.trips
      BY <1>1, <1>2 DEF SameWindows
    <3>2. QED
      BY <1>2, <2>1, <2>2, <3>1, ResidualTrips DEF ResidualGain, t
  <2>3. CASE GainIsNumber(u) /\ FillOverflows(w)
    <3>1. Rotated(w).trips = s.trips
      BY <1>1, <1>6 DEF SameWindows
    <3>2. r = TripResidual(Rotated(w))
      BY <2>1, <2>3 DEF ResidualGain, ResidualOut, w, psm
    <3>3. QED
      BY <1>5, <3>1, <3>2, ResidualTrips DEF t
  <2>4. CASE GainIsNumber(u) /\ ~ FillOverflows(w)
    <3> DEFINE out == IF InWindow(w, w.eh) THEN "huge" ELSE e
    <3>1. r = [post |-> Rotated(w), out |-> out, explained |-> EchoExplained(w)]
      BY <2>1, <2>4 DEF ResidualGain, ResidualOut, w, psm
    <3>2. Finite(out)
      BY <1>8 DEF Finite
    <3>3. EchoExplained(w) = EchoExplained(t)
      BY <1>6, WindowsDecide
    <3>4. Rotated(w).trips = s.trips
      BY <1>1, <1>6 DEF SameWindows
    <3> HIDE DEF out, r
    <3>5. ResidualRan(cfg, s, r, t)
      BY <1>5, <1>6, <3>1, <3>2, <3>3, <3>4 DEF ResidualRan
    <3>6. QED
      BY <3>5 DEF r, t
  <2>5. QED
    BY <2>2, <2>3, <2>4
<1>9. QED
  BY <1>7, <1>8

\* A certificate speaks of an echo estimate in the windows, or of silence in
\* all of them.
LEMMA CertificateOfWindows ==
  ASSUME NEW s, NEW v \in EchoExplained(s), v \in {"good", "over", "nan"}
  PROVE  \/ Silent(s) /\ v = "good"
         \/ InWindow(s, s.yh) \/ InWindow(s, s.yl)
<1>1. CASE Silent(s)
  BY <1>1 DEF EchoExplained
<1>2. CASE ~ Silent(s) /\ PowerOfY(s) = "zero"
  BY <1>2 DEF EchoExplained, Explained
<1>3. CASE PowerOfY(s) # "zero"
  BY <1>3 DEF PowerOfY
<1>4. QED
  BY <1>1, <1>2, <1>3

\* A ratio that is not a number takes a microphone that overflowed.
LEMMA UndefinedOfWindows ==
  ASSUME NEW s, "nan" \in EchoExplained(s)
  PROVE  InWindow(s, s.dh)
  BY DEF EchoExplained, Explained, PowerIn

-------------------------------------------------------------------------------
(* How the classical suppressor forgets an overflow, or trips over it *)

SameFloor(s, t) ==
  t.psm = s.psm /\ t.min_cur = s.min_cur /\ t.min_prev = s.min_prev /\ t.min_count = s.min_count

\* The five estimators.
Level(s) == s.sdy \in Tame /\ s.sdd \in Tame /\ s.syy \in Tame /\ s.see \in Tame /\ s.leak \in Tame

LEMMA SlideKeeps ==
  ASSUME NEW cfg, NEW s \in ResidualSet(cfg), NEW e, NEW yhat, NEW mic
  PROVE  LET t == SlidWindows(s, e, yhat, mic)
         IN  /\ SameFloor(s, t) /\ (Level(s) => Level(t))
             /\ t.eh = Since(s.eh, e = "huge", cfg.analysis)
<1> DEFINE N == cfg.analysis
           eh == Since(s.eh, e = "huge", N)
           dh == Since(s.dh, mic = "huge", N)
           yh == Since(s.yh, yhat = "huge", N)
           yl == Since(s.yl, yhat # "zero", N)
           ql == Since(s.ql, {yhat, mic} # {"zero"}, N)
           t == [s EXCEPT !.eh = eh, !.dh = dh, !.yh = yh, !.yl = yl, !.ql = ql]
<1>1. s.cfg = cfg /\ "eh" \in DOMAIN s
  BY DEF ResidualSet
<1>2. SlidWindows(s, e, yhat, mic) = t
  BY <1>1 DEF SlidWindows
<1> HIDE DEF eh, dh, yh, yl, ql
<1>3. SameFloor(s, t) /\ (Level(s) => Level(t)) /\ t.eh = eh
  BY <1>1 DEF SameFloor, Level
<1>4. QED
  BY <1>2, <1>3 DEF eh

LEMMA EstimateKeeps ==
  ASSUME NEW cfg, NEW s \in ResidualSet(cfg), NEW k
  PROVE  /\ SameFloor(s, Estimated(s, k))
         /\ ~ (InWindow(s, s.eh) \/ InWindow(s, s.dh) \/ InWindow(s, s.yh)) /\ Level(s)
              => Level(Estimated(s, k))
<1> DEFINE py == PowerOfY(s)
           pd == PowerIn(s, s.dh)
           sdy == Chase(s.sdy, Crossed(py, pd))
           sdd == Chase(s.sdd, pd)
           syy == Chase(s.syy, py)
           see == Chase(s.see, PowerIn(s, s.eh))
           t == [s EXCEPT !.sdy = sdy, !.sdd = sdd, !.syy = syy, !.see = see]
           leak == Chase(t.leak, Over(t.see, Worst("fin", t.syy)))
           v == [t EXCEPT !.leak = leak]
           quiet == ~ (InWindow(s, s.eh) \/ InWindow(s, s.dh) \/ InWindow(s, s.yh))
<1> USE ValuesGrade
<1>1. {"psm", "min_cur", "min_prev", "min_count", "sdy", "sdd", "syy", "see", "leak"} \subseteq DOMAIN s
  BY DEF ResidualSet
<1>2. Estimated(s, k) = t \/ Estimated(s, k) = v
  BY DEF Estimated, Spectra, Relearned, Leaked
<1>3. quiet /\ Level(s) => sdy \in Tame /\ sdd \in Tame /\ syy \in Tame /\ see \in Tame
  <2> SUFFICES ASSUME quiet, Level(s) PROVE sdy \in Tame /\ sdd \in Tame /\ syy \in Tame /\ see \in Tame
    OBVIOUS
  <2>1. py \in Tame /\ pd \in Tame /\ PowerIn(s, s.eh) \in Tame
    BY DEF PowerOfY, PowerIn, Tame
  <2>2. Crossed(py, pd) \in Tame
    BY <2>1, WorstClosed, GradeBase DEF Crossed
  <2>3. QED
    BY <2>1, <2>2, ChaseClosed DEF Level
<1> HIDE DEF py, pd, sdy, sdd, syy, see
<1>4. /\ t.sdy = sdy /\ t.sdd = sdd /\ t.syy = syy /\ t.see = see /\ t.leak = s.leak /\ SameFloor(s, t)
      /\ {"psm", "min_cur", "min_prev", "min_count", "sdy", "sdd", "syy", "see", "leak"} \subseteq DOMAIN t
  BY <1>1 DEF SameFloor
<1> HIDE DEF t
<1>5. quiet /\ Level(s) => leak \in Tame
  <2> SUFFICES ASSUME quiet, Level(s) PROVE leak \in Tame
    OBVIOUS
  <2>1. t.leak \in Tame /\ t.see \in Tame /\ t.syy \in Tame
    BY <1>3, <1>4 DEF Level
  <2>2. Worst("fin", t.syy) \in Tame
    BY <2>1, WorstClosed, GradeBase
  <2>3. Over(t.see, Worst("fin", t.syy)) \in Tame
    BY <2>1, <2>2, OverClosed
  <2>4. QED
    BY <2>1, <2>3, ChaseClosed
<1> HIDE DEF leak
<1>6. /\ v.sdy = t.sdy /\ v.sdd = t.sdd /\ v.syy = t.syy /\ v.see = t.see /\ v.leak = leak /\ SameFloor(t, v)
  BY <1>4 DEF SameFloor
<1> HIDE DEF v
<1>7. SameFloor(s, t) /\ SameFloor(s, v)
  BY <1>4, <1>6 DEF SameFloor
<1>8. quiet /\ Level(s) => Level(t) /\ Level(v)
  BY <1>3, <1>4, <1>5, <1>6 DEF Level
<1>9. QED
  BY <1>2, <1>7, <1>8

\* Nothing in the windows, or in the smoothed powers, but ordinary numbers.
Calm(s) ==
  /\ Level(s) /\ s.psm \in Tame
  /\ s.eh = s.cfg.analysis /\ s.dh = s.cfg.analysis /\ s.yh = s.cfg.analysis

\* A block of the suppressor that does not trip: s before, p after.
Lasts(s, p, e) ==
  LET eh  == Since(s.eh, e = "huge", s.cfg.analysis)
      psm == Chase(s.psm, IF eh < s.cfg.analysis THEN "inf" ELSE "fin")
      cur == IF psm = "nan" THEN s.min_cur ELSE Less(psm, s.min_cur)
  IN  /\ p.cfg = s.cfg /\ p.eh = eh /\ p.psm = psm
      /\ s.cfg.comfort /\ Less(cur, s.min_prev) = "inf" => eh < s.cfg.analysis
      /\ IF s.min_count + 1 >= s.cfg.floor_window
         THEN p.min_count = 0 /\ p.min_prev = cur /\ p.min_cur = "inf"
         ELSE p.min_count = s.min_count + 1 /\ p.min_prev = s.min_prev /\ p.min_cur = cur

LEMMA ResidualLasts ==
  ASSUME NEW cfg, cfg.analysis \in Nat \ {0}, NEW s \in ResidualSet(cfg),
         NEW e \in Values, NEW yhat \in Values, NEW mic \in Values, NEW k,
         ResidualBlock(s, e, yhat, mic, k).post.trips = s.trips
  PROVE  LET p == ResidualBlock(s, e, yhat, mic, k).post
         IN  Lasts(s, p, e) /\ ({e, yhat, mic} \subseteq Tame /\ Calm(s) => Calm(p))
<1> DEFINE t == SlidWindows(s, e, yhat, mic)
           u == Estimated(t, k)
           eh == Since(s.eh, e = "huge", cfg.analysis)
           power == IF eh < cfg.analysis THEN "inf" ELSE "fin"
           psm == Chase(s.psm, power)
           cur == IF psm = "nan" THEN s.min_cur ELSE Less(psm, s.min_cur)
           w == Tracked(u, psm)
           p == ResidualBlock(s, e, yhat, mic, k).post
<1> USE ValuesGrade
<1>1. s.cfg = cfg /\ s.trips \in Nat /\ s.psm \in Values /\ s.min_cur \in Values
  BY DEF ResidualSet
<1>2. /\ t \in ResidualSet(cfg) /\ t.trips = s.trips /\ SameFloor(s, t) /\ (Level(s) => Level(t))
      /\ t.eh = eh /\ Aged(s, t, yhat, mic, cfg.analysis)
  BY WindowsSlide, SlideKeeps
<1>3. ResidualBlock(s, e, yhat, mic, k)
        = IF {e, yhat, mic} \subseteq {"zero", "fin", "huge"} THEN ResidualGain(u, e) ELSE TripResidual(s)
  BY DEF ResidualBlock
<1> HIDE DEF t
<1>4. /\ u \in ResidualSet(cfg) /\ SameWindows(t, u) /\ SameFloor(t, u)
      /\ ~ (InWindow(t, t.eh) \/ InWindow(t, t.dh) \/ InWindow(t, t.yh)) /\ Level(t) => Level(u)
  BY <1>2, EstimatedType, EstimateKeeps
<1> HIDE DEF u
<1>5. u.cfg = cfg /\ u.eh = eh /\ u.trips = s.trips /\ SameFloor(s, u)
  BY <1>1, <1>2, <1>4 DEF SameWindows, SameFloor, ResidualSet
<1>6. PowerIn(u, u.eh) = power
  BY <1>5 DEF PowerIn, InWindow
<1>7. Chase(u.psm, PowerIn(u, u.eh)) = psm /\ psm \in Values
  BY <1>1, <1>5, <1>6, ChaseClosed DEF SameFloor, Values
<1> HIDE DEF eh, power, psm
<1>8. cur \in Values
  BY <1>1, <1>7, LessClosed
<1> HIDE DEF cur
<1>9. w = [u EXCEPT !.psm = psm, !.min_cur = cur]
  BY <1>5 DEF Tracked, SameFloor, cur
<1>10. /\ w \in ResidualSet(cfg) /\ w.cfg = cfg /\ w.psm = psm /\ w.min_cur = cur
       /\ w.min_prev = s.min_prev /\ w.min_count = s.min_count /\ w.trips = s.trips
       /\ SameWindows(u, w) /\ (Level(u) => Level(w))
  <2>1. w \in ResidualSet(cfg)
    BY <1>4, <1>7, <1>8, <1>9 DEF ResidualSet
  <2>2. {"psm", "min_cur"} \subseteq DOMAIN u
    BY <1>4 DEF ResidualSet
  <2>3. SameWindows(u, w) /\ (Level(u) => Level(w))
    BY <1>9 DEF SameWindows, Level
  <2>4. /\ w.psm = psm /\ w.min_cur = cur
        /\ w.cfg = u.cfg /\ w.min_prev = u.min_prev /\ w.min_count = u.min_count /\ w.trips = u.trips
    BY <1>9, <2>2
  <2>5. QED
    BY <1>5, <2>1, <2>3, <2>4 DEF SameFloor
<1> HIDE DEF w
<1>11. /\ Rotated(w) \in ResidualSet(cfg) /\ SameWindows(w, Rotated(w))
       /\ Rotated(w).psm = psm /\ (Level(w) => Level(Rotated(w)))
       /\ IF s.min_count + 1 >= cfg.floor_window
          THEN Rotated(w).min_count = 0 /\ Rotated(w).min_prev = cur /\ Rotated(w).min_cur = "inf"
          ELSE /\ Rotated(w).min_count = s.min_count + 1 /\ Rotated(w).min_prev = s.min_prev
               /\ Rotated(w).min_cur = cur
  <2>1. Rotated(w) \in ResidualSet(cfg) /\ SameWindows(w, Rotated(w))
    BY <1>10, RotatedType
  <2>2. {"psm", "min_cur", "min_prev", "min_count", "sdy", "sdd", "syy", "see", "leak"} \subseteq DOMAIN w
    BY <1>10 DEF ResidualSet
  <2>3. Rotated(w).psm = psm /\ (Level(w) => Level(Rotated(w)))
    BY <1>10, <2>2 DEF Rotated, Level
  <2>4. IF s.min_count + 1 >= cfg.floor_window
        THEN Rotated(w).min_count = 0 /\ Rotated(w).min_prev = cur /\ Rotated(w).min_cur = "inf"
        ELSE /\ Rotated(w).min_count = s.min_count + 1 /\ Rotated(w).min_prev = s.min_prev
             /\ Rotated(w).min_cur = cur
    BY <1>10, <2>2 DEF Rotated
  <2>5. QED
    BY <2>1, <2>3, <2>4
<1>12. ASSUME NEW d \in ResidualSet(cfg), d.trips = s.trips
       PROVE  TripResidual(d).post.trips # s.trips
  <2>1. cfg.analysis \in Nat
    OBVIOUS
  <2>2. ResidualRan(cfg, s, TripResidual(d), TripResidual(d).post)
    BY <1>12, <2>1, ResidualTrips
  <2> DEFINE b == [d EXCEPT !.trips = d.trips + 1]
  <2>3. b \in ResidualSet(cfg) /\ b.trips = s.trips + 1
    BY <1>1, <1>12 DEF ResidualSet
  <2>4. TripResidual(d).post = ResetResidual(b)
    BY DEF TripResidual
  <2> HIDE DEF b
  <2>5. ResetResidual(b).trips = b.trips
    BY <2>1, <2>3, ResidualResets
  <2>6. QED
    BY <1>1, <2>3, <2>4, <2>5
<1>13. p = Rotated(w) /\ ~ FillOverflows(w)
  <2>1. {e, yhat, mic} \subseteq {"zero", "fin", "huge"}
    BY <1>1, <1>3, <1>12
  <2>2. GainIsNumber(u)
    BY <1>3, <1>4, <1>5, <1>12, <2>1 DEF ResidualGain
  <2>3. ResidualGain(u, e) = ResidualOut(w, e)
    BY <1>7, <2>2 DEF ResidualGain, w
  <2>4. Rotated(w).trips = s.trips
    BY <1>10, <1>11 DEF SameWindows
  <2>5. ~ FillOverflows(w)
    BY <1>3, <1>11, <1>12, <2>1, <2>3, <2>4 DEF ResidualOut
  <2>6. QED
    BY <1>3, <2>1, <2>3, <2>5 DEF ResidualOut
<1>14. s.cfg.comfort /\ Less(cur, s.min_prev) = "inf" => eh < cfg.analysis
  BY <1>1, <1>5, <1>10, <1>13 DEF FillOverflows, InWindow, SameWindows
<1>15. p.cfg = cfg /\ p.eh = eh /\ p.psm = psm
  BY <1>5, <1>10, <1>11, <1>13 DEF SameWindows
<1>16. Lasts(s, p, e)
  BY <1>1, <1>11, <1>13, <1>14, <1>15 DEF Lasts, eh, psm, power, cur
<1>17. ASSUME {e, yhat, mic} \subseteq Tame, Calm(s)
       PROVE  Calm(p)
  <2>1. e # "huge" /\ yhat # "huge" /\ mic # "huge"
    BY <1>17 DEF Tame
  <2>2. t.cfg = cfg /\ t.eh = cfg.analysis /\ t.dh = cfg.analysis /\ t.yh = cfg.analysis
    BY <1>1, <1>2, <1>17, <2>1 DEF Calm, Since, Aged, ResidualSet, eh
  <2>3. ~ (InWindow(t, t.eh) \/ InWindow(t, t.dh) \/ InWindow(t, t.yh))
    BY <2>2 DEF InWindow
  <2>4. Level(p)
    BY <1>2, <1>4, <1>10, <1>11, <1>13, <1>17, <2>3 DEF Calm
  <2>5. psm \in Tame
    <3>1. eh = cfg.analysis
      BY <1>2, <2>2
    <3>2. power = "fin"
      BY <3>1 DEF power
    <3>3. QED
      BY <1>17, <3>2, ChaseClosed, GradeBase DEF Calm, psm
  <2>6. p.eh = t.eh /\ p.dh = t.dh /\ p.yh = t.yh
    BY <1>4, <1>10, <1>11, <1>13 DEF SameWindows
  <2>7. QED
    BY <1>15, <2>2, <2>4, <2>5, <2>6 DEF Calm
<1>18. QED
  BY <1>16, <1>17

\* The two minima are numbers, and the running one is fresh when its window is.
Rolls(s) ==
  /\ s.min_cur # "nan" /\ s.min_prev # "nan"
  /\ s.min_count < s.cfg.floor_window
  /\ s.min_cur # "inf" => s.min_count # 0

\* The blocks until both minima are infinite, when nothing lowers them.
Lag(s) ==
  IF s.min_cur # "inf" THEN 2 * s.cfg.floor_window - s.min_count
  ELSE IF s.min_prev # "inf" THEN s.cfg.floor_window - s.min_count
  ELSE 0

\* The blocks until the next one finds no overflow in the window of E.
Age(s) == IF InWindow(s, s.eh) THEN s.cfg.analysis - 1 - s.eh ELSE 0

LEMMA LeastNumber ==
  ASSUME NEW a \in Values \ {"nan"}, NEW b \in Values \ {"nan"}
  PROVE  /\ Less(a, b) \in Values \ {"nan"}
         /\ Less("inf", b) = b
         /\ (Less(a, b) = "inf") <=> (a = "inf" /\ b = "inf")
  BY DEF Less, Rank, Values

\* A smoothed power that is no number is no number again, and an infinite block
\* makes any power one.
LEMMA ChaseSpoils ==
  ASSUME NEW m \in Values, NEW x \in {"fin", "inf"}, m \in {"inf", "nan"} \/ x = "inf"
  PROVE  Chase(m, x) \in {"inf", "nan"}
<1>1. CASE m \in {"inf", "nan"}
  <2>1. Plus(x, m) \in {"inf", "nan"}
    BY <1>1 DEF Plus, Worst, Rank
  <2>2. QED
    BY <1>1, <2>1 DEF Chase, Plus, Worst, Rank
<1>2. CASE m \notin {"inf", "nan"} /\ x = "inf"
  <2>1. Plus(x, m) = "inf"
    BY <1>2 DEF Plus, Worst, Rank, Values
  <2>2. QED
    BY <1>2, <2>1 DEF Chase, Plus, Worst, Rank, Values
<1>3. QED
  BY <1>1, <1>2

LEMMA RollsOn ==
  ASSUME NEW cfg, cfg.floor_window \in Nat \ {0}, NEW s \in ResidualSet(cfg), Rolls(s),
         NEW p \in ResidualSet(cfg), NEW e, Lasts(s, p, e)
  PROVE  Rolls(p)
<1> DEFINE cur == IF p.psm = "nan" THEN s.min_cur ELSE Less(p.psm, s.min_cur)
<1>1. /\ s.cfg = cfg /\ p.cfg = cfg /\ s.min_count \in Nat /\ p.psm \in Values
      /\ s.min_cur \in Values /\ s.min_prev \in Values
  BY DEF ResidualSet
<1>2. cur # "nan"
  BY <1>1, LeastNumber DEF Rolls
<1>3. IF s.min_count + 1 >= cfg.floor_window
      THEN p.min_count = 0 /\ p.min_prev = cur /\ p.min_cur = "inf"
      ELSE p.min_count = s.min_count + 1 /\ p.min_prev = s.min_prev /\ p.min_cur = cur
  BY <1>1 DEF Lasts
<1> HIDE DEF cur
<1>4. QED
  BY <1>1, <1>2, <1>3 DEF Rolls

LEMMA AgesType ==
  ASSUME NEW cfg, cfg.analysis \in Nat \ {0}, cfg.floor_window \in Nat \ {0},
         NEW s \in ResidualSet(cfg), Rolls(s)
  PROVE  Lag(s) \in Nat /\ Age(s) \in Nat
<1>1. s.cfg = cfg /\ s.min_count \in Nat /\ s.eh \in 0 .. cfg.analysis
  BY DEF ResidualSet
<1>2. QED
  BY <1>1 DEF Lag, Age, InWindow, Rolls

\* With the smoothed power spoilt, a block leaves the running minimum; one
\* after an overflow has both ages one shorter, or trips at the end of both.
LEMMA Wanes ==
  ASSUME NEW cfg, cfg.analysis \in Nat \ {0}, cfg.floor_window \in Nat \ {0}, cfg.comfort,
         NEW s \in ResidualSet(cfg), Rolls(s), s.psm \in {"inf", "nan"},
         NEW p \in ResidualSet(cfg), NEW e, e # "huge", Lasts(s, p, e)
  PROVE  /\ p.psm \in {"inf", "nan"}
         /\ Lag(s) > 0 \/ Age(s) > 0
         /\ Lag(p) = IF Lag(s) > 0 THEN Lag(s) - 1 ELSE 0
         /\ Age(p) = IF Age(s) > 0 THEN Age(s) - 1 ELSE 0
<1> DEFINE cur == IF p.psm = "nan" THEN s.min_cur ELSE Less(p.psm, s.min_cur)
           F == cfg.floor_window
           A == cfg.analysis
<1>1. /\ s.cfg = cfg /\ p.cfg = cfg /\ s.min_count \in Nat /\ s.psm \in Values
      /\ s.min_cur \in Values \ {"nan"} /\ s.min_prev \in Values \ {"nan"}
      /\ s.eh \in 0 .. A
  BY DEF ResidualSet, Rolls
<1>2. p.psm \in {"inf", "nan"}
  BY <1>1, ChaseSpoils DEF Lasts
<1>3. cur = s.min_cur
  BY <1>1, <1>2, LeastNumber
<1>4. /\ p.eh = Since(s.eh, FALSE, A)
      /\ Less(cur, s.min_prev) = "inf" => p.eh < A
      /\ IF s.min_count + 1 >= F
         THEN p.min_count = 0 /\ p.min_prev = cur /\ p.min_cur = "inf"
         ELSE p.min_count = s.min_count + 1 /\ p.min_prev = s.min_prev /\ p.min_cur = cur
  BY <1>1 DEF Lasts
<1> HIDE DEF cur
<1>5. Age(p) = IF Age(s) > 0 THEN Age(s) - 1 ELSE 0
  BY <1>1, <1>4 DEF Age, InWindow, Since
<1>6. p.eh < A <=> Age(s) > 0
  BY <1>1, <1>4 DEF Age, InWindow, Since
<1>7. /\ Lag(s) \in Nat
      /\ Lag(s) = 0 => s.min_cur = "inf" /\ s.min_prev = "inf"
  BY <1>1 DEF Lag, Rolls
<1>8. Lag(s) > 0 \/ Age(s) > 0
  <2>1. Less("inf", "inf") = "inf"
    BY DEF Less
  <2>2. ASSUME Lag(s) = 0 PROVE Age(s) > 0
    <3>1. Less(cur, s.min_prev) = "inf"
      BY <1>3, <1>7, <2>1, <2>2
    <3>2. p.eh < A
      BY <1>4, <3>1
    <3>3. QED
      BY <1>6, <3>2
  <2>3. QED
    BY <1>7, <2>2
<1>9. Lag(p) = IF Lag(s) > 0 THEN Lag(s) - 1 ELSE 0
  BY <1>1, <1>3, <1>4 DEF Lag, Rolls
<1>10. QED
  BY <1>2, <1>5, <1>8, <1>9

\* An overflow of the error spoils the smoothed power, and both ages start.
LEMMA Strikes ==
  ASSUME NEW cfg, cfg.analysis \in Nat \ {0}, cfg.floor_window \in Nat \ {0},
         NEW s \in ResidualSet(cfg), Rolls(s),
         NEW p \in ResidualSet(cfg), NEW e, e = "huge", Lasts(s, p, e)
  PROVE  /\ p.psm \in {"inf", "nan"}
         /\ Lag(p) \in 0 .. 2 * cfg.floor_window - 2
         /\ Age(p) = cfg.analysis - 1
<1> DEFINE cur == IF p.psm = "nan" THEN s.min_cur ELSE Less(p.psm, s.min_cur)
           F == cfg.floor_window
           A == cfg.analysis
<1>1. /\ s.cfg = cfg /\ p.cfg = cfg /\ s.min_count \in Nat /\ s.psm \in Values
      /\ s.min_cur \in Values \ {"nan"} /\ s.min_prev \in Values \ {"nan"}
  BY DEF ResidualSet, Rolls
<1>2. Since(s.eh, e = "huge", A) = 0 /\ 0 < A
  BY DEF Since
<1>3. p.eh = 0 /\ p.psm = Chase(s.psm, "inf")
  BY <1>1, <1>2 DEF Lasts
<1>4. p.psm \in {"inf", "nan"}
  BY <1>1, <1>3, ChaseSpoils
<1>5. cur = s.min_cur
  BY <1>1, <1>4, LeastNumber
<1>6. IF s.min_count + 1 >= F
      THEN p.min_count = 0 /\ p.min_prev = cur /\ p.min_cur = "inf"
      ELSE p.min_count = s.min_count + 1 /\ p.min_prev = s.min_prev /\ p.min_cur = cur
  BY <1>1 DEF Lasts
<1> HIDE DEF cur
<1>7. Lag(p) \in 0 .. 2 * F - 2
  <2>1. CASE s.min_count + 1 >= F
    <3>1. p.min_cur = "inf" /\ p.min_count = 0 /\ p.min_prev = s.min_cur /\ F \in Nat \ {0}
      BY <1>5, <1>6, <2>1
    <3>2. Lag(p) \in {0, F} /\ (Lag(p) = F => s.min_cur # "inf")
      BY <1>1, <3>1 DEF Lag
    <3>3. s.min_cur # "inf" => F >= 2
      BY <1>1, <3>1 DEF Rolls
    <3>4. QED
      BY <3>1, <3>2, <3>3
  <2>2. CASE ~ (s.min_count + 1 >= F)
    <3>1. p.min_count = s.min_count + 1 /\ p.min_cur = s.min_cur /\ F \in Nat \ {0}
      BY <1>5, <1>6, <2>2
    <3>2. CASE s.min_cur # "inf"
      <4>1. Lag(p) = 2 * F - (s.min_count + 1) /\ s.min_count >= 1
        BY <1>1, <3>1, <3>2 DEF Lag, Rolls
      <4>2. QED
        BY <1>1, <2>2, <3>1, <4>1
    <3>3. CASE s.min_cur = "inf"
      <4>1. Lag(p) \in {0, F - (s.min_count + 1)}
        BY <1>1, <3>1, <3>3 DEF Lag
      <4>2. QED
        BY <1>1, <2>2, <3>1, <4>1
    <3>4. QED
      BY <3>2, <3>3
  <2>3. QED
    BY <2>1, <2>2
<1>8. Age(p) = A - 1
  BY <1>1, <1>2, <1>3 DEF Age, InWindow
<1>9. QED
  BY <1>4, <1>7, <1>8

-------------------------------------------------------------------------------
(* The learned suppressor *)

\* The running minimum starts at the largest number there is.
NnSet(cfg, V) ==
  [cfg : {cfg}, prev_e : V, prev_yhat : V, prev_mic : V, overlap : V, gru : V, floor : V,
   min_cur : V \cup {"huge"}, min_prev : V, min_count : Nat, syy : V, sdd : V, trips : {0}]

LEMMA NnFresh ==
  ASSUME NEW V \in Grades, NEW cfg PROVE Nn(cfg) \in NnSet(cfg, V)
  BY GradeBase DEF Nn, NnSet

LEMMA MinimumClosed ==
  ASSUME NEW V \in Grades, NEW floor \in V, NEW cur \in V \cup {"huge"}
  PROVE  Minimum(floor, cur) \in V
<1>1. CASE V = Values
  BY <1>1 DEF Minimum, Less, Values
<1>2. CASE V = Tame
  <2>1. floor # "nan" /\ Rank(floor) \in {0, 1} /\ Rank("huge") = 2
    BY <1>2 DEF Tame, Rank
  <2>2. QED
    BY <1>2, <2>1 DEF Minimum, Less
<1>3. QED
  BY <1>1, <1>2 DEF Grades

\* Neither minimum is the largest number once both were numbers of audio.
LEMMA FillClosed ==
  ASSUME NEW V \in Grades, NEW cfg, NEW s \in NnSet(cfg, V)
  PROVE  ComfortFill(s) \in V
<1>1. s.min_prev \in V /\ s.min_cur \in V \cup {"huge"}
  BY DEF NnSet
<1>2. CASE V = Values
  BY <1>2 DEF ComfortFill, Values
<1>3. CASE V = Tame
  <2>1. Less(s.min_prev, s.min_cur) \in Tame
    <3>1. Rank(s.min_prev) \in {0, 1} /\ Rank("huge") = 2
      BY <1>1, <1>3 DEF Tame, Rank
    <3>2. QED
      BY <1>1, <1>3, <3>1 DEF Less
  <2>2. QED
    BY <1>3, <2>1 DEF ComfortFill, Tame
<1>4. QED
  BY <1>2, <1>3 DEF Grades

LEMMA NnUpdates ==
  ASSUME NEW V \in Grades, NEW cfg, NEW s \in NnSet(cfg, V), NEW yhat \in V, NEW mic \in V
  PROVE  LET t == UpdateExplained(s, yhat, mic)
         IN  t \in NnSet(cfg, V)
             /\ (s.prev_yhat = "zero" /\ s.syy = "zero" /\ yhat = "zero" => t.syy = "zero")
<1> DEFINE syy == Worst(s.syy, Square(Worst(s.prev_yhat, yhat)))
           sdd == Worst(s.sdd, Square(Worst(s.prev_mic, mic)))
           t == [s EXCEPT !.syy = syy, !.sdd = sdd]
<1>1. s.syy \in V /\ s.sdd \in V /\ s.prev_yhat \in V /\ s.prev_mic \in V
  BY DEF NnSet
<1>2. syy \in V /\ sdd \in V
  BY <1>1, WorstClosed, SquareClosed
<1>3. s.prev_yhat = "zero" /\ s.syy = "zero" /\ yhat = "zero" => syy = "zero"
  <2>1. Worst("zero", "zero") = "zero"
    BY DEF Worst
  <2>2. Square("zero") = "zero"
    BY DEF Square, Times
  <2>3. QED
    BY <2>1, <2>2
<1> HIDE DEF syy, sdd
<1>4. t \in NnSet(cfg, V) /\ t.syy = syy
  BY <1>2 DEF NnSet
<1>5. UpdateExplained(s, yhat, mic) = t
  BY DEF UpdateExplained, syy, sdd
<1>6. QED
  BY <1>3, <1>4, <1>5

LEMMA NnFloors ==
  ASSUME NEW V \in Grades, NEW cfg, NEW s \in NnSet(cfg, V), NEW e \in V
  PROVE  UpdateFloor(s, e) \in NnSet(cfg, V) /\ UpdateFloor(s, e).syy = s.syy
<1> DEFINE floor == Worst(s.floor, Square(Worst(s.prev_e, e)))
           low == Minimum(floor, s.min_cur)
<1>1. s.floor \in V /\ s.prev_e \in V /\ s.min_cur \in V \cup {"huge"} /\ s.min_count + 1 \in Nat
  BY DEF NnSet
<1>2. floor \in V
  BY <1>1, WorstClosed, SquareClosed
<1> HIDE DEF floor
<1>3. low \in V
  BY <1>1, <1>2, MinimumClosed
<1> HIDE DEF low
<1>4. [s EXCEPT !.floor = floor, !.min_count = 0, !.min_prev = low, !.min_cur = "huge"] \in NnSet(cfg, V)
  BY <1>2, <1>3 DEF NnSet
<1>5. [s EXCEPT !.floor = floor, !.min_count = s.min_count + 1, !.min_cur = low] \in NnSet(cfg, V)
  BY <1>1, <1>2, <1>3 DEF NnSet
<1>6. UpdateFloor(s, e) = IF s.min_count + 1 >= s.cfg.floor_window
                          THEN [s EXCEPT !.floor = floor, !.min_count = 0, !.min_prev = low, !.min_cur = "huge"]
                          ELSE [s EXCEPT !.floor = floor, !.min_count = s.min_count + 1, !.min_cur = low]
  BY DEF UpdateFloor, Floored, Lowered, floor, low
<1>7. [s EXCEPT !.floor = floor, !.min_count = 0, !.min_prev = low, !.min_cur = "huge"].syy = s.syy
  BY DEF NnSet
<1>8. [s EXCEPT !.floor = floor, !.min_count = s.min_count + 1, !.min_cur = low].syy = s.syy
  BY DEF NnSet
<1>9. QED
  BY <1>4, <1>5, <1>6, <1>7, <1>8

LEMMA NnInfers ==
  ASSUME NEW V \in Grades, NEW cfg, NEW s \in NnSet(cfg, V), NEW e \in V, NEW yhat \in V
  PROVE  Infer(s, e, yhat) \in NnSet(cfg, V) /\ Infer(s, e, yhat).syy = s.syy
<1> DEFINE S == {s.prev_e, e, s.prev_yhat, yhat}
           gru == IF Finite(Square(WorstOf(S))) THEN s.gru ELSE "nan"
<1>1. S \subseteq V /\ e \in S /\ s.gru \in V
  BY DEF NnSet
<1> HIDE DEF S
<1>2. Square(WorstOf(S)) \in V
  BY <1>1, WorstOfClosed, SquareClosed
<1>3. gru \in V
  <2>1. CASE V = Values
    BY <1>1, <2>1 DEF Values
  <2>2. CASE V = Tame
    BY <1>1, <1>2, <2>2, TamePasses
  <2>3. QED
    BY <2>1, <2>2 DEF Grades
<1> HIDE DEF gru
<1>4. [s EXCEPT !.gru = gru] \in NnSet(cfg, V) /\ [s EXCEPT !.gru = gru].syy = s.syy
  BY <1>3 DEF NnSet
<1>5. QED
  BY <1>4 DEF Infer, gru, S

\* The learned suppressor: its type; and its certificate is of echo estimates.
LEMMA NnRuns ==
  ASSUME NEW V \in Grades, NEW cfg, NEW s \in NnSet(cfg, V),
         NEW e \in V, NEW yhat \in V, NEW mic \in V
  PROVE  LET r == NnBlock(s, e, yhat, mic)
         IN  /\ r.post \in NnSet(cfg, V) /\ r.out \in V
             /\ r.explained = NnExplained(r.post)
             /\ s.prev_yhat = "zero" /\ s.syy = "zero" /\ yhat = "zero"
                  => r.post.prev_yhat = "zero" /\ r.post.syy = "zero"
<1> DEFINE a == UpdateExplained(s, yhat, mic)
           b == UpdateFloor(a, e)
           c == Infer(b, e, yhat)
           F == {Times(c.gru, Worst(c.prev_e, e)), ComfortFill(c)}
           frame == WorstOf(F)
           d == [c EXCEPT !.overlap = frame, !.prev_e = e, !.prev_yhat = yhat, !.prev_mic = mic]
           r == NnBlock(s, e, yhat, mic)
<1>1. /\ a \in NnSet(cfg, V)
      /\ s.prev_yhat = "zero" /\ s.syy = "zero" /\ yhat = "zero" => a.syy = "zero"
  BY NnUpdates
<1> HIDE DEF a
<1>2. b \in NnSet(cfg, V) /\ b.syy = a.syy
  BY <1>1, NnFloors
<1> HIDE DEF b
<1>3. c \in NnSet(cfg, V) /\ c.syy = b.syy
  BY <1>2, NnInfers
<1> HIDE DEF c
<1>4. c.gru \in V /\ c.prev_e \in V /\ c.overlap \in V
  BY <1>3 DEF NnSet
<1>5. F \subseteq V /\ F # {}
  BY <1>3, <1>4, TimesClosed, WorstClosed, FillClosed
<1> HIDE DEF F
<1>6. frame \in V
  BY <1>5, WorstOfClosed
<1> HIDE DEF frame
<1>7. /\ d \in NnSet(cfg, V) /\ d.syy = c.syy /\ d.sdd = c.sdd /\ d.prev_yhat = yhat
  BY <1>3, <1>6 DEF NnSet
<1>8. r = [post |-> d, out |-> Worst(c.overlap, frame), explained |-> NnExplained(c)]
  BY DEF NnBlock, NnFrame, Synthesised, a, b, c, F, frame
<1>9. NnExplained(c) = NnExplained(d)
  BY <1>7 DEF NnExplained
<1>10. Worst(c.overlap, frame) \in V
  BY <1>4, <1>6, WorstClosed
<1> HIDE DEF d, r
<1>11. QED
  BY <1>1, <1>2, <1>3, <1>7, <1>8, <1>9, <1>10 DEF r

LEMMA NnCertificate ==
  ASSUME NEW s, NEW v \in NnExplained(s), v \in {"good", "over"}
  PROVE  s.syy # "zero"
<1>1. CASE s.syy = "zero" /\ "nan" \notin {s.syy, s.sdd}
  <2>1. v \in Explained(s.syy, s.sdd)
    BY <1>1 DEF NnExplained
  <2>2. Explained(s.syy, s.sdd) = {"low"}
    BY <1>1 DEF Explained
  <2>3. QED
    BY <2>1, <2>2
<1>2. CASE "nan" \in {s.syy, s.sdd}
  BY <1>2 DEF NnExplained
<1>3. QED
  BY <1>1, <1>2

LEMMA NnDefined ==
  ASSUME NEW cfg, NEW s \in NnSet(cfg, Tame)
  PROVE  "nan" \notin NnExplained(s)
<1>1. s.syy \in {"zero", "fin"} /\ s.sdd \in {"zero", "fin"}
  BY DEF NnSet, Tame
<1>2. NnExplained(s) = Explained(s.syy, s.sdd)
  BY <1>1 DEF NnExplained
<1>3. "nan" \notin Explained(s.syy, s.sdd)
  BY <1>1 DEF Explained
<1>4. QED
  BY <1>2, <1>3

-------------------------------------------------------------------------------
(* The prewhitened canceller *)

StreamSet(ring, V) == [past : V, ring : [1 .. ring -> V]]

RawSet(partitions, V) == [win : V, u : [1 .. partitions -> V]]

PemSet(cfg, V) ==
  [kind : {"afc"}, cfg : {cfg}, core : CoreSet(cfg.core, V), shadow : KalmanSet(ShadowConfig(cfg), V),
   raw : RawSet(cfg.core.partitions, V), ewin : [1 .. cfg.window -> V],
   us : StreamSet(cfg.ring, V), ys : StreamSet(cfg.ring, V), pm : V, ps : V, trips : Nat]

LEMMA PemConfigured ==
  ASSUME NEW cfg, ValidPem(cfg)
  PROVE  /\ cfg.core.partitions \in Nat \ {0} /\ cfg.window \in Nat \ {0} /\ cfg.ring \in Nat \ {0}
         /\ ShadowConfig(cfg).partitions \in Nat \ {0}
<1>1. cfg.core.partitions \in Nat \ {0}
  BY DEF ValidPem, ValidCore, ValidKalman, ValidFdaf
<1>2. cfg.window \in Nat \ {0} /\ cfg.ring \in Nat \ {0} /\ cfg.shadow \in 0 .. cfg.core.partitions
  BY DEF ValidPem
<1>3. ShadowConfig(cfg).partitions = IF cfg.shadow > 0 THEN cfg.shadow ELSE 1
  BY DEF ShadowConfig, KalmanConfig
<1>4. QED
  BY <1>1, <1>2, <1>3

LEMMA PemFresh ==
  ASSUME NEW V \in Grades, NEW cfg PROVE Pem(cfg) \in PemSet(cfg, V)
<1>1. Core(cfg.core) \in CoreSet(cfg.core, V) /\ Kalman(ShadowConfig(cfg)) \in KalmanSet(ShadowConfig(cfg), V)
  BY CoreFresh, KalmanFresh
<1>2. Stream(cfg.ring) \in StreamSet(cfg.ring, V)
  BY GradeBase DEF Stream, StreamSet
<1>3. [win |-> "zero", u |-> [i \in 1 .. cfg.core.partitions |-> "zero"]] \in RawSet(cfg.core.partitions, V)
  BY GradeBase DEF RawSet
<1>4. [i \in 1 .. cfg.window |-> "zero"] \in [1 .. cfg.window -> V]
  BY GradeBase
<1>5. QED
  BY <1>1, <1>2, <1>3, <1>4, GradeBase DEF Pem, PemSet

LEMMA PemResets ==
  ASSUME NEW V \in Grades, NEW cfg, NEW W \in Grades, NEW c \in PemSet(cfg, W)
  PROVE  /\ ResetPem(c) \in PemSet(cfg, V)
         /\ ResetPem(c).trips = c.trips
         /\ ResetPem(c).core = ResetCore(c.core)
         /\ ResetPem(ResetPem(c)) = ResetPem(c)
<1> DEFINE core == ResetCore(c.core)
           shadow == ResetKalman(c.shadow)
           t == [Pem(cfg) EXCEPT !.core = core, !.shadow = shadow, !.trips = c.trips]
<1>1. c.cfg = cfg /\ c.core \in CoreSet(cfg.core, W) /\ c.shadow \in KalmanSet(ShadowConfig(cfg), W) /\ c.trips \in Nat
  BY DEF PemSet
<1>2. core \in CoreSet(cfg.core, V) /\ ResetCore(core) = core
  BY <1>1, CoreResets
<1>3. shadow \in KalmanSet(ShadowConfig(cfg), V) /\ ResetKalman(shadow) = shadow
  BY <1>1, KalmanResets
<1>4. Pem(cfg) \in PemSet(cfg, V)
  BY PemFresh
<1> HIDE DEF core, shadow
<1>5. /\ t \in PemSet(cfg, V) /\ t.cfg = cfg /\ t.core = core /\ t.shadow = shadow /\ t.trips = c.trips
  BY <1>1, <1>2, <1>3, <1>4 DEF PemSet
<1>6. ResetPem(c) = t
  BY <1>1 DEF ResetPem, core, shadow
<1>7. ResetPem(t) = [Pem(cfg) EXCEPT !.core = core, !.shadow = shadow, !.trips = c.trips]
  BY <1>2, <1>3, <1>5 DEF ResetPem
<1>8. QED
  BY <1>5, <1>6, <1>7 DEF core

LEMMA RawSlides ==
  ASSUME NEW V \in Grades, NEW n \in Nat \ {0}, NEW c \in RawSet(n, V), NEW x \in V
  PROVE  Slid(c, x) \in RawSet(n, V)
<1> DEFINE w == Worst(c.win, x)
           u == [i \in DOMAIN c.u |-> IF i = 1 THEN w ELSE c.u[i - 1]]
<1>1. c.win \in V /\ c.u \in [1 .. n -> V]
  BY DEF RawSet
<1>2. w \in V
  BY <1>1, WorstClosed
<1> HIDE DEF w
<1>3. u \in [1 .. n -> V]
  BY <1>1, <1>2, LineSlides
<1> HIDE DEF u
<1>4. [c EXCEPT !.win = x, !.u = u] \in RawSet(n, V)
  BY <1>3 DEF RawSet
<1>5. QED
  BY <1>4 DEF Slid, u, w

\* Whitening a block keeps it, and the stream, in V.
LEMMA ApplyClosed ==
  ASSUME NEW V \in Grades, NEW n \in Nat \ {0}, NEW s \in StreamSet(n, V), NEW in \in V,
         NEW model, NEW fit
  PROVE  Apply(model, s, in, fit).out \in V /\ Apply(model, s, in, fit).stream \in StreamSet(n, V)
<1>1. s.past \in V /\ s.ring \in [1 .. n -> V] /\ Coefficient(fit) \in V
  BY GradeBase DEF StreamSet, Coefficient
<1>2. CASE model = "warped"
  <2> DEFINE past == Worst(s.past, in)
             S == {in, Times(Coefficient(fit), past)}
             next == IF Finite(past) THEN in ELSE past
  <2>1. past \in V
    BY <1>1, WorstClosed
  <2> HIDE DEF past
  <2>2. S \subseteq V /\ in \in S
    BY <1>1, <2>1, TimesClosed
  <2> HIDE DEF S
  <2>3. WorstOf(S) \in V /\ next \in V
    BY <2>1, <2>2, WorstOfClosed
  <2> HIDE DEF next
  <2>4. [s EXCEPT !.past = next] \in StreamSet(n, V)
    BY <2>3 DEF StreamSet
  <2>5. Apply(model, s, in, fit) = [out |-> WorstOf(S), stream |-> [s EXCEPT !.past = next]]
    BY <1>2 DEF Apply, ApplyWarped, Chained, S, past, next
  <2>6. QED
    BY <2>3, <2>4, <2>5
<1>3. CASE model # "warped"
  <2> DEFINE S == {in, Times(Coefficient(fit), in), Times(Coefficient(fit), s.past)}
             st == WorstOf(S)
             R == {st} \cup {s.ring[i] : i \in DOMAIN s.ring}
             out == IF fit = "voiced" THEN WorstOf(R) ELSE st
             ring == [i \in DOMAIN s.ring |-> IF i = 1 THEN st ELSE s.ring[i - 1]]
  <2>1. S \subseteq V /\ in \in S
    BY <1>1, TimesClosed
  <2> HIDE DEF S
  <2>2. st \in V
    BY <2>1, WorstOfClosed
  <2> HIDE DEF st
  <2>3. R \subseteq V /\ st \in R
    BY <1>1, <2>2
  <2> HIDE DEF R
  <2>4. out \in V
    BY <2>2, <2>3, WorstOfClosed
  <2> HIDE DEF out
  <2>5. ring \in [1 .. n -> V]
    BY <1>1, <2>2, LineSlides
  <2> HIDE DEF ring
  <2>6. [past |-> in, ring |-> ring] \in StreamSet(n, V)
    BY <2>5 DEF StreamSet
  <2>7. Apply(model, s, in, fit) = [out |-> out, stream |-> [past |-> in, ring |-> ring]]
    BY <1>3 DEF Apply, ApplySpeech, Cascaded, ShortTerm, S, st, R, out, ring
  <2>8. QED
    BY <2>4, <2>6, <2>7
<1>4. QED
  BY <1>2, <1>3

\* What a block leaves of a canceller: it runs on, or everything starts afresh.
PemRan(cfg, c, r, V) ==
  /\ r.unit \in PemSet(cfg, V) /\ r.out \in V
  /\ r.unit.core.adapt = c.core.adapt
  /\ \/ /\ r.unit.trips = c.trips /\ r.unit.core.trips = c.core.trips
        /\ c.core.adapt => Exposed(c.core, r.unit.core)
     \/ /\ r.unit.trips = c.trips + 1
        /\ r.unit = ResetPem(r.unit)
        /\ r.unit \in PemSet(cfg, Tame)
        /\ r.out = "zero"

LEMMA PemTrips ==
  ASSUME NEW V \in Grades, NEW cfg, NEW c \in PemSet(cfg, V)
  PROVE  PemRan(cfg, c, TripPem(c), V) /\ TripPem(c).unit.trips = c.trips + 1
<1> DEFINE d == [c EXCEPT !.trips = c.trips + 1]
<1>1. d \in PemSet(cfg, V) /\ d.trips = c.trips + 1 /\ d.core = c.core
  BY DEF PemSet
<1>2. TripPem(c) = [unit |-> ResetPem(d), out |-> "zero"]
  BY DEF TripPem
<1> HIDE DEF d
<1>3. /\ ResetPem(d) \in PemSet(cfg, V) /\ ResetPem(d) \in PemSet(cfg, Tame)
      /\ ResetPem(d).trips = d.trips /\ ResetPem(d).core = ResetCore(d.core)
      /\ ResetPem(ResetPem(d)) = ResetPem(d)
  BY <1>1, PemResets, ValuesGrade
<1>4. ResetCore(c.core).adapt = c.core.adapt
  <2>1. c.core \in CoreSet(cfg.core, V)
    BY DEF PemSet
  <2>2. QED
    BY <2>1, CoreResets DEF SameRun
<1> HIDE DEF ResetPem, ResetCore
<1>5. QED
  BY <1>1, <1>2, <1>3, <1>4, GradeBase DEF PemRan

LEMMA PemCompares ==
  ASSUME NEW V \in Grades, NEW cfg, ValidPem(cfg), NEW c \in PemSet(cfg, V),
         NEW up \in V, NEW yp \in V, NEW ep \in V, NEW k
  PROVE  LET d == UpdateShadow(c, up, yp, ep, k)
         IN  d \in PemSet(cfg, V) /\ d.core = c.core /\ d.trips = c.trips
<1> DEFINE s == KalmanBlock(c.shadow, up, yp, k)
           pm == Chase(c.pm, Square(ep))
           ps == Chase(c.ps, Square(s.e))
<1>1. c.shadow \in KalmanSet(ShadowConfig(cfg), V) /\ c.pm \in V /\ c.ps \in V
  BY DEF PemSet
<1>2. s.core \in KalmanSet(ShadowConfig(cfg), V) /\ s.e \in V
  BY <1>1, PemConfigured, KalmanRuns DEF Ran
<1> HIDE DEF s
<1>3. pm \in V /\ ps \in V
  BY <1>1, <1>2, ChaseClosed, SquareClosed
<1> HIDE DEF pm, ps
<1>4. LET d == [c EXCEPT !.shadow = s.core, !.pm = pm, !.ps = ps]
      IN  d \in PemSet(cfg, V) /\ d.core = c.core /\ d.trips = c.trips
  BY <1>2, <1>3 DEF PemSet
<1>5. UpdateShadow(c, up, yp, ep, k) = c
        \/ UpdateShadow(c, up, yp, ep, k) = [c EXCEPT !.shadow = s.core, !.pm = pm, !.ps = ps]
  BY DEF UpdateShadow, Compare, s, pm, ps
<1>6. QED
  BY <1>4, <1>5

\* The prewhitened canceller's block.
LEMMA PemRuns ==
  ASSUME NEW V \in Grades, NEW cfg, ValidPem(cfg), NEW c \in PemSet(cfg, V),
         NEW x \in V, NEW y \in V, NEW k
  PROVE  PemRan(cfg, c, PemBlock(c, x, y, k), V)
<1> DEFINE raw == Slid(c.raw, x)
           a == [c EXCEPT !.raw = raw]
           e == Plus(y, Settled(Filtered(a.raw.u, a.core.h), k.loud))
           ewin == Windowed(a, e)
           b == [a EXCEPT !.ewin = ewin]
           fit == Fitted(WorstOf({b.ewin[i] : i \in DOMAIN b.ewin}), b.cfg.model, k)
           up == Apply(b.cfg.model, b.us, x, fit)
           yp == Apply(b.cfg.model, b.ys, y, fit)
           w == [b EXCEPT !.us = up.stream, !.ys = yp.stream]
           r == CoreBlock(w.core, up.out, yp.out, k)
           d == [w EXCEPT !.core = r.core]
           N == cfg.core.partitions
<1>0. N \in Nat \ {0} /\ cfg.window \in Nat \ {0} /\ cfg.ring \in Nat \ {0}
  BY PemConfigured
<1>1. raw \in RawSet(N, V)
  BY <1>0, RawSlides DEF PemSet
<1> HIDE DEF raw
<1>2. a \in PemSet(cfg, V) /\ a.core = c.core /\ a.trips = c.trips /\ a.raw = raw
  BY <1>1 DEF PemSet
<1> HIDE DEF a
<1>3. a.core \in CoreSet(cfg.core, V) /\ a.raw.u \in [1 .. N -> V] /\ a.ewin \in [1 .. cfg.window -> V]
  BY <1>2 DEF PemSet, RawSet
<1>4. e \in V
  <2>1. a.core.h \in V
    BY <1>3, CoreFields
  <2>2. QED
    BY <1>0, <1>3, <2>1, FilterClosed, SettledClosed, PlusClosed
<1> HIDE DEF e
<1>5. PemBlock(c, x, y, k) = PemError(a, x, y, e, k)
  BY DEF PemBlock, PemCancel, a, e, raw
<1>6. PemRan(cfg, a, TripPem(a), V)
  BY <1>2, PemTrips
<1>7. ~ a.core.adapt => PemRan(cfg, a, [unit |-> a, out |-> e], V)
  BY <1>2, <1>4 DEF PemRan
<1>8. ewin \in [1 .. cfg.window -> V]
  BY <1>0, <1>3, <1>4, LineSlides DEF Windowed
<1> HIDE DEF ewin
<1>9. b \in PemSet(cfg, V) /\ b.core = a.core /\ b.trips = a.trips
  BY <1>2, <1>8 DEF PemSet
<1> HIDE DEF b, fit
<1>10. /\ up.out \in V /\ up.stream \in StreamSet(cfg.ring, V)
       /\ yp.out \in V /\ yp.stream \in StreamSet(cfg.ring, V)
  <2>1. b.us \in StreamSet(cfg.ring, V) /\ b.ys \in StreamSet(cfg.ring, V)
    BY <1>9 DEF PemSet
  <2>2. QED
    BY <1>0, <2>1, ApplyClosed
<1> HIDE DEF up, yp
<1>11. w \in PemSet(cfg, V) /\ w.core = b.core /\ w.trips = b.trips
  BY <1>9, <1>10 DEF PemSet
<1> HIDE DEF w
<1>12. /\ r.core \in CoreSet(cfg.core, V) /\ Ran(w.core, r, V) /\ TrippedCore(w.core, r)
       /\ Exposed(w.core, r.core)
  <2>1. w.core \in CoreSet(cfg.core, V)
    BY <1>11 DEF PemSet
  <2>2. r.core \in CoreSet(cfg.core, V) /\ Ran(w.core, r, V) /\ TrippedCore(w.core, r)
    BY <1>0, <1>10, <2>1, CoreRuns
  <2>3. w.core \in CoreSet(cfg.core, Values) /\ up.out \in Values /\ yp.out \in Values
    BY <1>10, <2>1, CoreWidens, GradeBase
  <2>4. Exposed(w.core, r.core)
    BY <1>0, <2>3, CoreExposes
  <2>5. QED
    BY <2>2, <2>4
<1> HIDE DEF r
<1>13. d \in PemSet(cfg, V) /\ d.core = r.core /\ d.trips = w.trips
  BY <1>11, <1>12 DEF PemSet
<1> HIDE DEF d
<1>14. PemAfter(w, r, up.out, yp.out, e, k)
         = IF r.core.trips # w.core.trips THEN TripPem(d)
           ELSE [unit |-> UpdateShadow(d, up.out, yp.out, r.e, k), out |-> e]
  BY DEF PemAfter, d
<1>15. PemRan(cfg, a, PemAfter(w, r, up.out, yp.out, e, k), V)
  <2>1. CASE r.core.trips # w.core.trips
    <3>1. PemRan(cfg, d, TripPem(d), V)
      BY <1>13, PemTrips
    <3>2. d.core.adapt = a.core.adapt /\ d.trips = a.trips
      BY <1>9, <1>11, <1>12, <1>13 DEF Ran
    <3>3. PemRan(cfg, a, TripPem(d), V)
      <4>1. TripPem(d).unit.trips = d.trips + 1
        BY <1>13, PemTrips
      <4>2. TripPem(d).unit.trips # d.trips
        BY <1>13, <4>1 DEF PemSet
      <4>3. QED
        BY <3>1, <3>2, <4>2 DEF PemRan
    <3>4. QED
      BY <1>14, <2>1, <3>3
  <2>2. CASE r.core.trips = w.core.trips
    <3> DEFINE g == UpdateShadow(d, up.out, yp.out, r.e, k)
    <3>1. g \in PemSet(cfg, V) /\ g.core = d.core /\ g.trips = d.trips
      BY <1>10, <1>12, <1>13, PemCompares DEF Ran
    <3> HIDE DEF g
    <3>2. PemRan(cfg, a, [unit |-> g, out |-> e], V)
      BY <1>4, <1>9, <1>11, <1>12, <1>13, <2>2, <3>1 DEF PemRan, Ran
    <3>3. QED
      BY <1>14, <2>2, <3>2 DEF g
  <2>3. QED
    BY <2>1, <2>2
<1>16. PemFit(b, x, y, e, k) = PemAfter(w, r, up.out, yp.out, e, k)
  BY <1>11 DEF PemFit, PemWhiten, PemCore, w, r, up, yp, fit
<1>17. PemRan(cfg, a, PemError(a, x, y, e, k), V)
  <2>1. CASE a.core.adapt
    BY <1>15, <1>16, <2>1 DEF PemError, b, ewin
  <2>2. CASE ~ a.core.adapt
    BY <1>6, <1>7, <2>2 DEF PemError
  <2>3. QED
    BY <2>1, <2>2
<1>18. QED
  BY <1>2, <1>5, <1>17 DEF PemRan

-------------------------------------------------------------------------------
(* The core of a prewhitened canceller hears what its canceller does *)

\* A sample of the raw ring's slot i is ordinary, or the core's ring holds no
\* better one there or later (before its first slot: in the window).
Covers(c, v, i) ==
  \/ v \in Tame
  \/ Rank(v) <= Rank(c.win)
  \/ \E j \in DOMAIN c.u : j <= i /\ Rank(v) <= Rank(c.u[j])

Shielded(raw, c) == Covers(c, raw.win, 0) /\ \A i \in DOMAIN raw.u : Covers(c, raw.u[i], i)

LEMMA RawTakes ==
  ASSUME NEW V, NEW n, NEW w \in RawSet(n, V), NEW x
  PROVE  Slid(w, x) = [win |-> x, u |-> Line(w, x)]
<1> DEFINE l == Line(w, x)
           t == [w EXCEPT !.win = x, !.u = l]
<1>1. Slid(w, x) = t
  BY DEF Slid, Line
<1> HIDE DEF l
<1>2. DOMAIN w = {"win", "u"}
  BY DEF RawSet
<1>3. DOMAIN t = {"win", "u"} /\ t.win = x /\ t.u = l /\ t = [f \in DOMAIN t |-> t[f]]
  BY <1>2
<1> HIDE DEF t
<1>4. t = [win |-> x, u |-> l]
  BY <1>3
<1>5. QED
  BY <1>1, <1>4 DEF l

LEMMA ApplyTops ==
  ASSUME NEW n \in Nat \ {0}, NEW s \in StreamSet(n, Values), NEW in \in Values, NEW model, NEW fit
  PROVE  Rank(in) <= Rank(Apply(model, s, in, fit).out)
<1> USE ValuesGrade
<1>1. s.past \in Values /\ s.ring \in [1 .. n -> Values] /\ Coefficient(fit) \in Values
  BY GradeBase DEF StreamSet, Coefficient
<1>2. CASE model = "warped"
  <2> DEFINE S == {in, Times(Coefficient(fit), Worst(s.past, in))}
  <2>1. S \subseteq Values /\ in \in S
    BY <1>1, WorstClosed, TimesClosed
  <2>2. Apply(model, s, in, fit).out = WorstOf(S)
    BY <1>2 DEF Apply, ApplyWarped, Chained
  <2> HIDE DEF S
  <2>3. QED
    BY <2>1, <2>2, WorstOfTops
<1>3. CASE model # "warped"
  <2> DEFINE S == {in, Times(Coefficient(fit), in), Times(Coefficient(fit), s.past)}
             st == WorstOf(S)
             R == {st} \cup {s.ring[i] : i \in DOMAIN s.ring}
  <2>1. S \subseteq Values /\ in \in S
    BY <1>1, TimesClosed
  <2>2. Apply(model, s, in, fit).out = IF fit = "voiced" THEN WorstOf(R) ELSE st
    BY <1>3 DEF Apply, ApplySpeech, Cascaded, ShortTerm
  <2> HIDE DEF S
  <2>3. st \in Values /\ Rank(in) <= Rank(st)
    BY <2>1, WorstOfTops
  <2> HIDE DEF st
  <2>4. R \subseteq Values /\ st \in R
    BY <1>1, <2>3
  <2> HIDE DEF R
  <2>5. WorstOf(R) \in Values /\ Rank(st) <= Rank(WorstOf(R))
    BY <2>4, WorstOfTops
  <2>6. QED
    BY <2>2, <2>3, <2>5, RankType
<1>4. QED
  BY <1>2, <1>3

\* A block that enters both rings, whitened into the core's.
LEMMA BothSlide ==
  ASSUME NEW n \in Nat \ {0}, NEW raw \in RawSet(n, Values), NEW c, c.win \in Values,
         c.u \in [1 .. n -> Values], Shielded(raw, c),
         NEW x \in Values, NEW up \in Values, Rank(x) <= Rank(up),
         NEW d, d.win = up, d.u = Line(c, up)
  PROVE  /\ Outranked(Line(raw, x), Line(c, up))
         /\ Shielded([win |-> x, u |-> Line(raw, x)], d)
<1> DEFINE r == Line(raw, x)
           l == Line(c, up)
<1>1. raw.win \in Values /\ raw.u \in [1 .. n -> Values]
  BY DEF RawSet
<1>2. DOMAIN r = 1 .. n /\ DOMAIN l = 1 .. n
  BY <1>1 DEF Line
<1>3. r[1] = Worst(raw.win, x) /\ l[1] = Worst(c.win, up)
  BY <1>1 DEF Line
<1>4. ASSUME NEW i \in 1 .. n, i # 1 PROVE r[i] = raw.u[i - 1] /\ l[i] = c.u[i - 1] /\ i - 1 \in 1 .. n
  BY <1>1, <1>4 DEF Line
<1>5. Rank(x) \in 0 .. 4 /\ Rank(up) \in 0 .. 4 /\ Rank(c.win) \in 0 .. 4 /\ Rank(raw.win) \in 0 .. 4
  BY <1>1, RankType
<1>6. Rank(c.win) <= Rank(l[1]) /\ Rank(up) <= Rank(l[1]) /\ Rank(l[1]) \in 0 .. 4
  <2>1. l[1] \in Values
    BY <1>3, WorstClosed, ValuesGrade
  <2>2. Rank(up) <= Rank(up)
    BY <1>5
  <2>3. Rank(c.win) <= Rank(l[1]) /\ Rank(up) <= Rank(l[1])
    BY <1>3, <2>2, WorstTops
  <2>4. QED
    BY <2>1, <2>3, RankType
<1>7. r[1] \in {raw.win, x}
  BY <1>1, <1>3, <1>5, WorstTops
<1> HIDE DEF r, l
<1>8. ASSUME NEW i \in 1 .. n, r[i] \notin Tame
      PROVE  \E j \in 1 .. n : j <= i /\ Rank(r[i]) <= Rank(l[j])
  <2>1. CASE i = 1
    <3>1. r[1] = x \/ Rank(r[1]) <= Rank(c.win)
      <4>1. raw.win \in Tame \/ Rank(raw.win) <= Rank(c.win)
        BY DEF Shielded, Covers
      <4>2. QED
        BY <1>7, <1>8, <2>1, <4>1
    <3>2. Rank(r[1]) \in 0 .. 4
      BY <1>5, <1>7
    <3>3. Rank(r[1]) <= Rank(l[1])
      BY <1>5, <1>6, <3>1, <3>2
    <3>4. QED
      BY <2>1, <3>3
  <2>2. CASE i # 1
    <3>1. r[i] = raw.u[i - 1] /\ i - 1 \in 1 .. n
      BY <1>4, <2>2
    <3>2. Covers(c, raw.u[i - 1], i - 1)
      BY <1>1, <3>1 DEF Shielded
    <3>3. CASE Rank(r[i]) <= Rank(c.win)
      <4>1. Rank(r[i]) \in 0 .. 4
        BY <1>1, <3>1, RankType
      <4>2. Rank(r[i]) <= Rank(l[1])
        BY <1>5, <1>6, <3>3, <4>1
      <4>3. QED
        BY <4>2
    <3>4. CASE ~ (Rank(r[i]) <= Rank(c.win))
      <4>1. PICK j \in 1 .. n : j <= i - 1 /\ Rank(r[i]) <= Rank(c.u[j])
        BY <1>8, <3>1, <3>2, <3>4 DEF Covers
      <4>2. j + 1 \in 1 .. n /\ j + 1 # 1 /\ j + 1 <= i /\ (j + 1) - 1 = j
        BY <4>1
      <4>3. l[j + 1] = c.u[j]
        BY <1>4, <4>2
      <4>4. QED
        BY <4>1, <4>2, <4>3
    <3>5. QED
      BY <3>3, <3>4
  <2>3. QED
    BY <2>1, <2>2
<1>9. Outranked(r, l)
  BY <1>2, <1>8 DEF Outranked
<1>10. Covers(d, x, 0) /\ \A i \in 1 .. n : Covers(d, r[i], i)
  BY <1>2, <1>8 DEF Covers, l
<1>11. QED
  BY <1>2, <1>9, <1>10 DEF Shielded, r, l

\* An ordinary block that enters the raw ring alone, while the core is frozen.
LEMMA OneSlides ==
  ASSUME NEW n \in Nat \ {0}, NEW raw \in RawSet(n, Values), NEW c, c.win \in Values,
         c.u \in [1 .. n -> Values], Shielded(raw, c), NEW x \in Tame
  PROVE  Shielded([win |-> x, u |-> Line(raw, x)], c)
<1> DEFINE r == Line(raw, x)
<1>1. raw.win \in Values /\ raw.u \in [1 .. n -> Values]
  BY DEF RawSet
<1>2. DOMAIN r = 1 .. n /\ r[1] \in {raw.win, x}
  BY <1>1 DEF Line, Worst
<1>3. ASSUME NEW i \in 1 .. n, i # 1 PROVE r[i] = raw.u[i - 1] /\ i - 1 \in 1 .. n
  BY <1>1, <1>3 DEF Line
<1> HIDE DEF r
<1>4. ASSUME NEW i \in 1 .. n PROVE Covers(c, r[i], i)
  <2>1. CASE i = 1
    <3>1. raw.win \in Tame \/ Rank(raw.win) <= Rank(c.win)
      BY DEF Shielded, Covers
    <3>2. QED
      BY <1>2, <2>1, <3>1 DEF Covers
  <2>2. CASE i # 1
    <3>1. r[i] = raw.u[i - 1] /\ i - 1 \in 1 .. n
      BY <1>3, <2>2
    <3>2. Covers(c, raw.u[i - 1], i - 1)
      BY <1>1, <3>1 DEF Shielded
    <3>3. \A j \in DOMAIN c.u : j <= i - 1 => j <= i
      OBVIOUS
    <3>4. QED
      BY <3>1, <3>2, <3>3 DEF Covers
  <2>3. QED
    BY <2>1, <2>2
<1>5. QED
  BY <1>2, <1>4 DEF Shielded, Covers, r

LEMMA ResetIsShielded ==
  ASSUME NEW c PROVE Shielded(Pem(c.cfg).raw, ResetPem(c).core) /\ ResetPem(c).raw = Pem(c.cfg).raw
  BY DEF Pem, ResetPem, Shielded, Covers, Tame

\* A block of a shielded canceller, unless a faulty one meets a frozen core.
LEMMA PemShields ==
  ASSUME NEW cfg, ValidPem(cfg), NEW c \in PemSet(cfg, Values), Shielded(c.raw, c.core),
         NEW x \in Values, NEW y \in Values, c.core.adapt \/ x \in Tame, NEW k
  PROVE  LET r == PemBlock(c, x, y, k)
         IN  Finite(r.out) /\ Shielded(r.unit.raw, r.unit.core)
<1> DEFINE raw == [win |-> x, u |-> Line(c.raw, x)]
           a == [c EXCEPT !.raw = raw]
           e == Plus(y, Settled(Filtered(a.raw.u, a.core.h), k.loud))
           ewin == Windowed(a, e)
           b == [a EXCEPT !.ewin = ewin]
           fit == Fitted(WorstOf({b.ewin[i] : i \in DOMAIN b.ewin}), b.cfg.model, k)
           up == Apply(b.cfg.model, b.us, x, fit)
           yp == Apply(b.cfg.model, b.ys, y, fit)
           w == [b EXCEPT !.us = up.stream, !.ys = yp.stream]
           r == CoreBlock(w.core, up.out, yp.out, k)
           d == [w EXCEPT !.core = r.core]
           N == cfg.core.partitions
           Fine(res) == Finite(res.out) /\ Shielded(res.unit.raw, res.unit.core)
<1> USE ValuesGrade
<1>0. N \in Nat \ {0} /\ cfg.window \in Nat \ {0} /\ cfg.ring \in Nat \ {0}
  BY PemConfigured
<1>1. /\ c.raw \in RawSet(N, Values) /\ c.core \in CoreSet(cfg.core, Values)
      /\ c.us \in StreamSet(cfg.ring, Values) /\ c.ys \in StreamSet(cfg.ring, Values)
      /\ {"raw", "core", "ewin", "us", "ys", "shadow", "pm", "ps", "trips"} \subseteq DOMAIN c
  BY DEF PemSet
<1>2. Slid(c.raw, x) = raw /\ raw.u \in [1 .. N -> Values] /\ raw.win = x
  <2>1. Slid(c.raw, x) = raw
    BY <1>1, RawTakes
  <2>2. Slid(c.raw, x) \in RawSet(N, Values)
    BY <1>0, <1>1, RawSlides
  <2>3. QED
    BY <2>1, <2>2 DEF RawSet
<1>3. c.core.win \in Values /\ c.core.u \in [1 .. N -> Values] /\ c.core.h \in Values
  BY <1>1 DEF CoreSet, KalmanSet, FdafSet
<1>4. a.raw = raw /\ a.core = c.core /\ a.us = c.us /\ a.ys = c.ys /\ a.cfg = cfg
  BY DEF PemSet
<1>5. PemBlock(c, x, y, k) = PemError(a, x, y, e, k)
  BY <1>2 DEF PemBlock, PemCancel
<1> HIDE DEF raw, a
<1>6. ASSUME NEW t PROVE Fine(TripPem(t))
  <2> DEFINE v == [t EXCEPT !.trips = t.trips + 1]
  <2>1. TripPem(t) = [unit |-> ResetPem(v), out |-> "zero"]
    BY DEF TripPem
  <2> HIDE DEF v
  <2>2. QED
    BY <2>1, ResetIsShielded DEF Finite
<1>7. CASE ~ c.core.adapt
  <2>1. e \in Values
    BY <1>0, <1>2, <1>3, <1>4, FilterClosed, SettledClosed, PlusClosed
  <2> HIDE DEF e
  <2>2. x \in Tame
    BY <1>7
  <2>3. Shielded(raw, c.core)
    BY <1>0, <1>1, <1>3, <2>2, OneSlides DEF raw
  <2>4. PemError(a, x, y, e, k) = TripPem(a)
          \/ (FinitePower(e) /\ PemError(a, x, y, e, k) = [unit |-> a, out |-> e])
    BY <1>4, <1>7 DEF PemError
  <2>5. FinitePower(e) => Finite(e)
    BY <2>1, PassesFinite
  <2>6. QED
    BY <1>4, <1>5, <1>6, <2>3, <2>4, <2>5
<1>8. CASE c.core.adapt
  <2> HIDE DEF ewin
  <2>1. b.raw = raw /\ b.core = c.core /\ b.us = c.us /\ b.ys = c.ys /\ b.cfg = cfg
    BY <1>4 DEF b
  <2> HIDE DEF b, fit
  <2>2. /\ up.out \in Values /\ yp.out \in Values
        /\ Rank(x) <= Rank(up.out) /\ Rank(y) <= Rank(yp.out)
    BY <1>0, <1>1, <2>1, ApplyClosed, ApplyTops
  <2> HIDE DEF up, yp
  <2>3. w.raw = raw /\ w.core = c.core
    BY <2>1
  <2> HIDE DEF w
  <2>4. r.core.trips = w.core.trips => Advances(c.core, r.core, up.out, yp.out, k)
    BY <1>0, <1>1, <2>2, <2>3, CoreAdvances
  <2> HIDE DEF r
  <2>5. d.raw = raw /\ d.core = r.core
    BY <1>1, <2>3 DEF w, b, a
  <2>6. PemError(a, x, y, e, k) = PemAfter(w, r, up.out, yp.out, e, k)
    BY <1>4, <1>8 DEF PemError, PemFit, PemWhiten, PemCore, w, r, up, yp, fit, b, ewin
  <2> HIDE DEF d
  <2>7. CASE r.core.trips # w.core.trips
    <3>1. PemAfter(w, r, up.out, yp.out, e, k) = TripPem(d)
      BY <2>7 DEF PemAfter, d
    <3>2. QED
      BY <1>5, <1>6, <2>6, <3>1
  <2>8. CASE r.core.trips = w.core.trips
    <3>1. /\ r.core.win = up.out /\ r.core.u = Line(c.core, up.out)
          /\ Finite(Plus(yp.out, Settled(Filtered(Line(c.core, up.out), c.core.h), k.loud)))
      BY <2>4, <2>8 DEF Advances
    <3>2. /\ Outranked(Line(c.raw, x), Line(c.core, up.out))
          /\ Shielded(raw, r.core)
      BY <1>0, <1>1, <1>3, <2>2, <3>1, BothSlide DEF raw
    <3>3. Line(c.core, up.out) \in [1 .. N -> Values] /\ Line(c.raw, x) \in [1 .. N -> Values]
      <4>1. Worst(c.core.win, up.out) \in Values
        BY <1>3, <2>2, WorstClosed
      <4>2. Line(c.core, up.out) \in [1 .. N -> Values]
        BY <1>0, <1>3, <4>1, LineSlides DEF Line
      <4>3. QED
        BY <1>2, <4>2 DEF raw
    <3>4. Finite(e)
      <4> DEFINE u == Line(c.raw, x)
                 v == Line(c.core, up.out)
                 h == c.core.h
      <4>1. e = Plus(y, Settled(Filtered(u, h), k.loud))
        BY <1>4 DEF raw
      <4>2. u \in [1 .. N -> Values] /\ v \in [1 .. N -> Values] /\ Outranked(u, v) /\ h \in Values
        BY <1>3, <3>2, <3>3
      <4>3. Finite(Plus(yp.out, Settled(Filtered(v, h), k.loud)))
        BY <3>1
      <4> HIDE DEF u, v, h, e, N
      <4>4. QED
        BY <1>0, <2>2, <4>1, <4>2, <4>3, ErrorShows
    <3> DEFINE g == UpdateShadow(d, up.out, yp.out, r.e, k)
    <3>5. PemAfter(w, r, up.out, yp.out, e, k) = [unit |-> g, out |-> e]
      BY <2>8 DEF PemAfter, d
    <3>6. g.raw = d.raw /\ g.core = d.core
      BY DEF UpdateShadow, Compare
    <3> HIDE DEF g, e
    <3>7. QED
      BY <1>5, <2>5, <2>6, <3>2, <3>4, <3>5, <3>6
  <2>9. QED
    BY <2>7, <2>8
<1>9. QED
  BY <1>7, <1>8

-------------------------------------------------------------------------------
(* The stages of the AEC chain *)

PostSet(cfg, V) == IF cfg.post = "residual" THEN ResidualSet(cfg) ELSE NnSet(cfg, V)

ShadowOf(cfg) == [cfg.core EXCEPT !.partitions = cfg.shadow]

AecSet(cfg, V) ==
  [kind : {"aec"}, cfg : {cfg}, core : KalmanSet(cfg.core, V), post : PostSet(cfg.post, V),
   shadow : KalmanSet(ShadowOf(cfg), V), trips : Nat]

LEMMA AecConfigured ==
  ASSUME NEW cfg, ValidAec(cfg)
  PROVE  /\ cfg.core.partitions \in Nat \ {0} /\ ShadowOf(cfg).partitions \in Nat \ {0}
         /\ cfg.post.post = "residual" => cfg.post.analysis \in Nat \ {0}
         /\ cfg.guard \in BOOLEAN
<1>1. cfg.core.partitions \in Nat \ {0} /\ cfg.shadow \in Nat \ {0} /\ cfg.guard \in BOOLEAN
  BY DEF ValidAec, ValidKalman
<1>2. cfg.core = KalmanConfig(cfg.core.partitions, cfg.core.novelty, cfg.core.floor, cfg.core.guard)
  BY DEF ValidAec, ValidKalman
<1>3. ShadowOf(cfg).partitions = cfg.shadow
  BY <1>2 DEF ShadowOf, KalmanConfig
<1>4. cfg.post.post = "residual" => cfg.post.analysis \in Nat \ {0}
  BY DEF ValidAec, ValidPost, ValidResidual
<1>5. QED
  BY <1>1, <1>3, <1>4

LEMMA PostFresh ==
  ASSUME NEW V \in Grades, NEW cfg, cfg.post = "residual" => cfg.analysis \in Nat
  PROVE  Post(cfg) \in PostSet(cfg, V)
  BY ResidualFresh, NnFresh DEF Post, PostSet

LEMMA PostResets ==
  ASSUME NEW V \in Grades, NEW cfg, cfg.post = "residual" => cfg.analysis \in Nat,
         NEW W \in Grades, NEW s \in PostSet(cfg, W)
  PROVE  /\ ResetPost(s) \in PostSet(cfg, V)
         /\ ResetPost(s).trips = s.trips
         /\ ResetPost(ResetPost(s)) = ResetPost(s)
         /\ s.cfg = cfg
<1>1. CASE cfg.post = "residual"
  <2>1. s \in ResidualSet(cfg) /\ s.cfg = cfg
    BY <1>1 DEF PostSet, ResidualSet
  <2>2. ResetPost(s) = ResetResidual(s)
    BY <1>1, <2>1 DEF ResetPost
  <2>3. /\ ResetResidual(s) \in ResidualSet(cfg) /\ ResetResidual(s).trips = s.trips
        /\ ResetResidual(s).cfg = cfg /\ ResetResidual(ResetResidual(s)) = ResetResidual(s)
    BY <1>1, <2>1, ResidualResets
  <2> HIDE DEF ResetResidual
  <2>4. QED
    BY <1>1, <2>1, <2>2, <2>3 DEF PostSet, ResetPost
<1>2. CASE cfg.post # "residual"
  <2>1. s.cfg = cfg /\ s.trips = 0
    BY <1>2 DEF PostSet, NnSet
  <2>2. ResetPost(s) = Nn(cfg)
    BY <1>2, <2>1 DEF ResetPost
  <2>3. Nn(cfg) \in NnSet(cfg, V) /\ Nn(cfg).cfg = cfg /\ Nn(cfg).trips = 0
    BY NnFresh DEF NnSet
  <2> HIDE DEF Nn
  <2>4. QED
    BY <1>2, <2>1, <2>2, <2>3 DEF PostSet, ResetPost
<1>3. QED
  BY <1>1, <1>2

LEMMA AecFresh ==
  ASSUME NEW V \in Grades, NEW cfg, ValidAec(cfg) PROVE Aec(cfg) \in AecSet(cfg, V)
<1>1. Post(cfg.post) \in PostSet(cfg.post, V)
  BY AecConfigured, PostFresh
<1>2. Kalman(cfg.core) \in KalmanSet(cfg.core, V) /\ ChainShadow(cfg) \in KalmanSet(ShadowOf(cfg), V)
  BY KalmanFresh DEF ChainShadow, ShadowOf
<1>3. QED
  BY <1>1, <1>2 DEF Aec, AecSet

LEMMA AecResets ==
  ASSUME NEW V \in Grades, NEW cfg, ValidAec(cfg), NEW W \in Grades, NEW c \in AecSet(cfg, W)
  PROVE  /\ ResetAec(c) \in AecSet(cfg, V)
         /\ ResetAec(c).trips = c.trips
         /\ ResetAec(c).core = ResetKalman(c.core)
         /\ ResetAec(c).post = ResetPost(c.post)
         /\ ResetAec(ResetAec(c)) = ResetAec(c)
<1> DEFINE core == ResetKalman(c.core)
           post == ResetPost(c.post)
           shadow == ResetKalman(c.shadow)
           t == [Aec(cfg) EXCEPT !.core = core, !.post = post, !.shadow = shadow, !.trips = c.trips]
<1>1. /\ c.cfg = cfg /\ c.core \in KalmanSet(cfg.core, W) /\ c.post \in PostSet(cfg.post, W)
      /\ c.shadow \in KalmanSet(ShadowOf(cfg), W) /\ c.trips \in Nat
  BY DEF AecSet
<1>2. core \in KalmanSet(cfg.core, V) /\ ResetKalman(core) = core
  BY <1>1, KalmanResets
<1>3. post \in PostSet(cfg.post, V) /\ ResetPost(post) = post
  BY <1>1, AecConfigured, PostResets
<1>4. shadow \in KalmanSet(ShadowOf(cfg), V) /\ ResetKalman(shadow) = shadow
  BY <1>1, KalmanResets
<1>5. Aec(cfg) \in AecSet(cfg, V)
  BY AecFresh
<1> HIDE DEF core, post, shadow
<1>6. /\ t \in AecSet(cfg, V) /\ t.cfg = cfg /\ t.trips = c.trips
      /\ t.core = core /\ t.post = post /\ t.shadow = shadow
  BY <1>1, <1>2, <1>3, <1>4, <1>5 DEF AecSet
<1>7. ResetAec(c) = t
  BY <1>1 DEF ResetAec, core, post, shadow
<1>8. ResetAec(t) = t
  BY <1>2, <1>3, <1>4, <1>6 DEF ResetAec
<1>9. QED
  BY <1>6, <1>7, <1>8 DEF core, post

\* What the chain learns of a post stage that did not trip.
PostPassed(cfg, s, r, yhat, mic, e, V) ==
  IF cfg.post = "residual"
  THEN /\ Finite(r.out)
       /\ SameWindows(SlidWindows(s, e, yhat, mic), r.post)
       /\ r.explained = EchoExplained(SlidWindows(s, e, yhat, mic))
  ELSE /\ r.out \in V
       /\ r.explained = NnExplained(r.post)
       /\ s.prev_yhat = "zero" /\ s.syy = "zero" /\ yhat = "zero"
            => r.post.prev_yhat = "zero" /\ r.post.syy = "zero"

LEMMA PostRuns ==
  ASSUME NEW V \in Grades, NEW cfg, cfg.post = "residual" => cfg.analysis \in Nat,
         NEW s \in PostSet(cfg, V), NEW e \in V, NEW yhat \in V, NEW mic \in V, NEW k
  PROVE  LET r == PostBlock(s, e, yhat, mic, k)
         IN  /\ r.post \in PostSet(cfg, V)
             /\ \/ r.post.trips = s.trips /\ PostPassed(cfg, s, r, yhat, mic, e, V)
                \/ r.post.trips = s.trips + 1 /\ r.post = ResetPost(r.post)
<1> DEFINE r == PostBlock(s, e, yhat, mic, k)
<1>1. CASE cfg.post = "residual"
  <2>1. s \in ResidualSet(cfg) /\ s.cfg = cfg
    BY <1>1 DEF PostSet, ResidualSet
  <2>2. r = ResidualBlock(s, e, yhat, mic, k)
    BY <1>1, <2>1 DEF PostBlock
  <2>3. ResidualRan(cfg, s, r, SlidWindows(s, e, yhat, mic))
    BY <1>1, <2>1, <2>2, GradeBase, ResidualRuns
  <2> HIDE DEF r
  <2>4. r.post.cfg = cfg
    BY <2>3 DEF ResidualRan, ResidualSet
  <2>5. QED
    BY <1>1, <2>3, <2>4 DEF r, PostSet, ResidualRan, PostPassed, ResetPost
<1>2. CASE cfg.post # "residual"
  <2>1. s \in NnSet(cfg, V) /\ s.cfg = cfg /\ s.trips = 0
    BY <1>2 DEF PostSet, NnSet
  <2>2. r = NnBlock(s, e, yhat, mic)
    BY <1>2, <2>1 DEF PostBlock
  <2>3. /\ r.post \in NnSet(cfg, V) /\ r.out \in V /\ r.explained = NnExplained(r.post)
        /\ s.prev_yhat = "zero" /\ s.syy = "zero" /\ yhat = "zero"
             => r.post.prev_yhat = "zero" /\ r.post.syy = "zero"
    BY <2>1, <2>2, NnRuns
  <2> HIDE DEF r
  <2>4. r.post.trips = 0
    BY <2>3 DEF NnSet
  <2>5. QED
    BY <1>2, <2>1, <2>3, <2>4 DEF r, PostSet, PostPassed
<1>3. QED
  BY <1>1, <1>2

AecPassed(cfg, c, r, y, V) ==
  /\ r.tripped = FALSE
  /\ r.unit.trips = c.trips /\ r.unit.core.trips = c.core.trips /\ r.unit.post.trips = c.post.trips
  /\ Exposed(c.core, r.unit.core)
  /\ r.mid \in V /\ r.yhat \in V /\ r.shadow_e \in V
  /\ PostPassed(cfg.post, c.post, [post |-> r.unit.post, out |-> r.out, explained |-> r.explained],
                r.yhat, y, r.mid, V)

AecTripped(cfg, c, r) ==
  /\ r.tripped = TRUE
  /\ r.unit.trips = c.trips + 1
  /\ r.unit = ResetAec(r.unit)
  /\ r.unit \in AecSet(cfg, Tame)
  /\ r.out = "zero"

AecRan(cfg, c, r, y, V) ==
  /\ r.unit \in AecSet(cfg, V)
  /\ r.unit.core.adapt = c.core.adapt
  /\ AecPassed(cfg, c, r, y, V) \/ AecTripped(cfg, c, r)

LEMMA AecTrips ==
  ASSUME NEW V \in Grades, NEW cfg, ValidAec(cfg), NEW c \in AecSet(cfg, V)
  PROVE  /\ AecTripped(cfg, c, TripAec(c))
         /\ TripAec(c).unit \in AecSet(cfg, V)
         /\ TripAec(c).unit.core.adapt = c.core.adapt
<1> DEFINE d == [c EXCEPT !.trips = c.trips + 1]
<1>1. d \in AecSet(cfg, V) /\ d.trips = c.trips + 1 /\ d.core = c.core
  BY DEF AecSet
<1> HIDE DEF d
<1>2. /\ ResetAec(d) \in AecSet(cfg, V) /\ ResetAec(d) \in AecSet(cfg, Tame)
      /\ ResetAec(d).trips = d.trips /\ ResetAec(d).core = ResetKalman(d.core)
      /\ ResetAec(ResetAec(d)) = ResetAec(d)
  BY <1>1, AecResets, ValuesGrade
<1>3. ResetKalman(c.core).adapt = c.core.adapt
  <2>1. c.core \in KalmanSet(cfg.core, V)
    BY DEF AecSet
  <2>2. QED
    BY <2>1, KalmanResets DEF SameRun
<1>4. TripAec(c).tripped = TRUE /\ TripAec(c).unit = ResetAec(d) /\ TripAec(c).out = "zero"
  BY DEF TripAec, d
<1> HIDE DEF ResetAec, TripAec, ResetKalman
<1>5. QED
  BY <1>1, <1>2, <1>3, <1>4 DEF AecTripped

\* A block of the chain's stages: they all run on, or all start afresh.
LEMMA AecRuns ==
  ASSUME NEW V \in Grades, NEW cfg, ValidAec(cfg), NEW c \in AecSet(cfg, V),
         NEW x \in V, NEW y \in V, NEW k
  PROVE  AecRan(cfg, c, AecBlock(c, x, y, k), y, V)
<1> DEFINE r == KalmanBlock(c.core, x, y, k)
           mic == IF r.core.trips = c.core.trips THEN y ELSE "zero"
           q == PostBlock(c.post, r.e, r.yhat, mic, k)
           d == [c EXCEPT !.core = r.core, !.post = q.post]
           s == KalmanBlock(d.shadow, x, y, k)
           a == AecBlock(c, x, y, k)
<1>1. /\ c.core \in KalmanSet(cfg.core, V) /\ c.post \in PostSet(cfg.post, V)
      /\ c.shadow \in KalmanSet(ShadowOf(cfg), V) /\ c.trips \in Nat
      /\ c.core.trips \in Nat
  BY DEF AecSet, KalmanSet
<1>2. c.post.trips \in Nat
  <2>1. CASE cfg.post.post = "residual"
    BY <1>1, <2>1 DEF PostSet, ResidualSet
  <2>2. CASE cfg.post.post # "residual"
    BY <1>1, <2>2 DEF PostSet, NnSet
  <2>3. QED
    BY <2>1, <2>2
<1>3. r.core \in KalmanSet(cfg.core, V) /\ Ran(c.core, r, V) /\ Exposed(c.core, r.core)
  <2>1. r.core \in KalmanSet(cfg.core, V) /\ Ran(c.core, r, V)
    BY <1>1, AecConfigured, KalmanRuns
  <2>2. cfg.core.core = "kalman" /\ x \in Values /\ y \in Values
    BY GradeBase DEF ValidAec, ValidKalman, KalmanConfig
  <2>3. Exposed(c.core, r.core)
    BY <1>1, <2>2, AecConfigured, CoreWidens, KalmanExposes
  <2>4. QED
    BY <2>1, <2>3
<1> HIDE DEF r
<1>4. mic \in V
  BY GradeBase
<1> HIDE DEF mic
<1>5. /\ q.post \in PostSet(cfg.post, V)
      /\ \/ q.post.trips = c.post.trips /\ PostPassed(cfg.post, c.post, q, r.yhat, mic, r.e, V)
         \/ q.post.trips = c.post.trips + 1
  BY <1>1, <1>3, <1>4, AecConfigured, PostRuns DEF Ran
<1> HIDE DEF q
<1>6. /\ d \in AecSet(cfg, V) /\ d.core = r.core /\ d.post = q.post
      /\ d.shadow = c.shadow /\ d.trips = c.trips
  BY <1>3, <1>5 DEF AecSet
<1>7. a = IF d.core.trips + d.post.trips # c.core.trips + c.post.trips THEN TripAec(d)
          ELSE [tripped |-> FALSE, unit |-> [d EXCEPT !.shadow = s.core], out |-> q.out,
                mid |-> r.e, yhat |-> r.yhat, shadow_e |-> s.e, explained |-> q.explained]
  BY DEF AecBlock, AecPost, AecStages, AecJoin, PassAec, StageTrips, r, q, mic
<1> HIDE DEF d, a
<1>8. CASE d.core.trips + d.post.trips # c.core.trips + c.post.trips
  <2>1. AecTripped(cfg, d, TripAec(d)) /\ TripAec(d).unit \in AecSet(cfg, V)
        /\ TripAec(d).unit.core.adapt = d.core.adapt
    BY <1>6, AecTrips
  <2>2. d.core.adapt = c.core.adapt
    BY <1>3, <1>6 DEF Ran
  <2>3. QED
    BY <1>6, <1>7, <1>8, <2>1, <2>2 DEF a, AecRan, AecTripped
<1>9. CASE d.core.trips + d.post.trips = c.core.trips + c.post.trips
  <2>1. r.core.trips = c.core.trips /\ q.post.trips = c.post.trips
    BY <1>1, <1>2, <1>3, <1>5, <1>6, <1>9 DEF Ran
  <2>2. mic = y
    BY <2>1 DEF mic
  <2>3. PostPassed(cfg.post, c.post, q, r.yhat, y, r.e, V)
    <3>1. q.post.trips # c.post.trips + 1
      BY <1>2, <2>1
    <3>2. QED
      BY <1>5, <2>2, <3>1
  <2>4. s.core \in KalmanSet(ShadowOf(cfg), V) /\ s.e \in V
    BY <1>1, <1>6, AecConfigured, KalmanRuns DEF Ran
  <2> HIDE DEF s
  <2> DEFINE t == [d EXCEPT !.shadow = s.core]
  <2>5. t \in AecSet(cfg, V) /\ t.core = r.core /\ t.post = q.post /\ t.trips = c.trips
    BY <1>6, <2>4 DEF AecSet
  <2> HIDE DEF t
  <2>6. a = [tripped |-> FALSE, unit |-> t, out |-> q.out,
             mid |-> r.e, yhat |-> r.yhat, shadow_e |-> s.e, explained |-> q.explained]
    BY <1>7, <1>9 DEF t
  <2>7. PostPassed(cfg.post, c.post, [post |-> a.unit.post, out |-> a.out, explained |-> a.explained],
                   a.yhat, y, a.mid, V)
    BY <2>3, <2>5, <2>6 DEF PostPassed
  <2>8. AecPassed(cfg, c, a, y, V)
    BY <1>3, <2>1, <2>4, <2>5, <2>6, <2>7 DEF AecPassed, Ran
  <2>9. QED
    BY <1>3, <2>5, <2>6, <2>8 DEF a, AecRan, Ran
<1>10. QED
  BY <1>8, <1>9

\* The stages of a chain none of which trips.
LEMMA AecParts ==
  ASSUME NEW V \in Grades, NEW cfg, ValidAec(cfg), NEW c \in AecSet(cfg, V),
         NEW x \in V, NEW y \in V, NEW k, AecBlock(c, x, y, k).tripped = FALSE
  PROVE  LET a == AecBlock(c, x, y, k)
             r == KalmanBlock(c.core, x, y, k)
             q == PostBlock(c.post, r.e, r.yhat, y, k)
         IN  /\ a.unit.core = r.core /\ r.core.trips = c.core.trips
             /\ a.unit.post = q.post /\ q.post.trips = c.post.trips
             /\ r.e \in V /\ r.yhat \in V
<1> DEFINE r == KalmanBlock(c.core, x, y, k)
           mic == IF r.core.trips = c.core.trips THEN y ELSE "zero"
           q == PostBlock(c.post, r.e, r.yhat, mic, k)
           d == [c EXCEPT !.core = r.core, !.post = q.post]
           s == KalmanBlock(d.shadow, x, y, k)
           a == AecBlock(c, x, y, k)
<1>1. /\ c.core \in KalmanSet(cfg.core, V) /\ c.post \in PostSet(cfg.post, V)
      /\ c.core.trips \in Nat /\ {"core", "post", "shadow"} \subseteq DOMAIN c
  BY DEF AecSet, KalmanSet
<1>2. c.post.trips \in Nat
  <2>1. CASE cfg.post.post = "residual"
    BY <1>1, <2>1 DEF PostSet, ResidualSet
  <2>2. CASE cfg.post.post # "residual"
    BY <1>1, <2>2 DEF PostSet, NnSet
  <2>3. QED
    BY <2>1, <2>2
<1>3. Ran(c.core, r, V)
  BY <1>1, AecConfigured, KalmanRuns
<1> HIDE DEF r
<1>4. mic \in V
  BY GradeBase
<1>5. q.post.trips = c.post.trips \/ q.post.trips = c.post.trips + 1
  BY <1>1, <1>3, <1>4, AecConfigured, PostRuns DEF Ran
<1>6. q.post.trips = c.post.trips => q = PostBlock(c.post, r.e, r.yhat, mic, k)
  OBVIOUS
<1> HIDE DEF mic, q
<1>7. d.core = r.core /\ d.post = q.post /\ "shadow" \in DOMAIN d
  BY <1>1
<1>8. a = IF d.core.trips + d.post.trips # c.core.trips + c.post.trips THEN TripAec(d)
          ELSE [tripped |-> FALSE, unit |-> [d EXCEPT !.shadow = s.core], out |-> q.out,
                mid |-> r.e, yhat |-> r.yhat, shadow_e |-> s.e, explained |-> q.explained]
  BY DEF AecBlock, AecPost, AecStages, AecJoin, PassAec, StageTrips, r, q, mic
<1> HIDE DEF d, s
<1>9. TripAec(d).tripped = TRUE
  BY DEF TripAec
<1>10. /\ d.core.trips + d.post.trips = c.core.trips + c.post.trips
       /\ a.unit = [d EXCEPT !.shadow = s.core]
  BY <1>8, <1>9
<1>11. a.unit.core = r.core /\ a.unit.post = q.post
  BY <1>7, <1>10
<1>12. r.core.trips = c.core.trips /\ q.post.trips = c.post.trips
  BY <1>1, <1>2, <1>3, <1>5, <1>7, <1>10 DEF Ran
<1>13. mic = y
  BY <1>12 DEF mic
<1>14. q = PostBlock(c.post, r.e, r.yhat, y, k)
  BY <1>13 DEF q
<1>15. QED
  BY <1>3, <1>11, <1>12, <1>14 DEF Ran, r

LEMMA AecLifts ==
  ASSUME NEW V \in Grades, NEW cfg, NEW c \in AecSet(cfg, V)
  PROVE  LET d == LiftedAec(c)
         IN  /\ d \in AecSet(cfg, V)
             /\ d.trips = c.trips /\ d.post = c.post
             /\ d.core.trips = c.core.trips /\ d.core.adapt = c.core.adapt
<1> DEFINE core == Reinflated(c.core)
<1>1. core \in KalmanSet(cfg.core, V) /\ SameRun(c.core, core)
  BY KalmanLifts DEF AecSet
<1> HIDE DEF core
<1>2. LET d == [c EXCEPT !.core = core]
      IN  d \in AecSet(cfg, V) /\ d.core = core /\ d.trips = c.trips /\ d.post = c.post
  BY <1>1 DEF AecSet
<1>3. QED
  BY <1>1, <1>2 DEF LiftedAec, core, SameRun
=============================================================================
