-------------------------- MODULE HowlDetectorProofs --------------------------
(***************************************************************************)
(* Proofs about the howl detector, for any bank, window, hold, thresholds  *)
(* and tracker.                                                            *)
(*                                                                         *)
(* The verdict is held as long as it says (HoldInv).  A howl that grows    *)
(* out of the program is caught (FootingInv): what the history calls       *)
(* growing, the code freezes the program for, because the window that ends *)
(* the lines heard is the column of the ring (Aligned), and the ring is    *)
(* full when that window is (Filled).  An integral is the climb of one     *)
(* line (RiseInv): what a band inherits is the climb of the best walk to a *)
(* neighbour, which is one tick shorter.  One onset does not trip          *)
(* (OnsetInv): every tick of a walk has the onset in its window, one place *)
(* further back than the last.                                             *)
(*                                                                         *)
(* Sums over finite sets and intervals are proved about by the smallest    *)
(* counterexample: the fewest elements, or the least length.               *)
(***************************************************************************)
EXTENDS HowlDetectorHistory, FiniteSetTheorems, SequenceTheorems, WellFoundedInduction, TLAPS

-------------------------------------------------------------------------------
(* The hold *)

\* What is left of the hold, and the ticks since the verdict.
HoldInv ==
  /\ since \in 0 .. HoldTicks + 1
  /\ holdLeft = IF since <= HoldTicks THEN HoldTicks - since ELSE 0
  /\ HeldAfterVerdict

LEMMA HoldInit == DetectorHistoryInit => HoldInv
  BY DetectorSizesAssumption DEF DetectorHistoryInit, DetectorInit, HoldInv, HeldAfterVerdict

\* A tick, by whether it has a verdict.
LEMMA HoldTick ==
  ASSUME HoldInv, NEW verdict,
         holdLeft' = Held(verdict # "none"),
         tripped' = (verdict # "none" \/ holdLeft > 0),
         since' = IF verdict # "none" THEN 0 ELSE IF since <= HoldTicks THEN since + 1 ELSE since
  PROVE  HoldInv'
<1>1. CASE verdict # "none"
  <2>1. holdLeft' = HoldTicks /\ since' = 0
    BY <1>1 DEF Held
  <2>2. tripped'
    BY <1>1
  <2>3. since' \in 0 .. HoldTicks + 1 /\ since' <= HoldTicks /\ holdLeft' = HoldTicks - since'
    BY <2>1, DetectorSizesAssumption
  <2>4. QED
    BY <2>2, <2>3 DEF HoldInv, HeldAfterVerdict
<1>2. CASE verdict = "none"
  <2>1. holdLeft' = IF holdLeft > 0 THEN holdLeft - 1 ELSE 0
    BY <1>2 DEF Held
  <2>2. since' = IF since <= HoldTicks THEN since + 1 ELSE since
    BY <1>2
  <2>3. since' \in 0 .. HoldTicks + 1 /\ holdLeft' = IF since' <= HoldTicks THEN HoldTicks - since' ELSE 0
    BY <2>1, <2>2, DetectorSizesAssumption DEF HoldInv
  <2>4. holdLeft > 0 <=> since' <= HoldTicks
    BY <2>2, DetectorSizesAssumption DEF HoldInv
  <2>5. tripped' <=> since' <= HoldTicks
    BY <1>2, <2>4
  <2>6. QED
    BY <2>3, <2>5 DEF HoldInv, HeldAfterVerdict
<1>3. QED
  BY <1>1, <1>2

LEMMA HoldStep == HoldInv /\ [DetectorHistoryNext]_detectorHistoryVars => HoldInv'
<1> SUFFICES ASSUME HoldInv, [DetectorHistoryNext]_detectorHistoryVars
             PROVE  HoldInv'
  OBVIOUS
<1>1. ASSUME NEW heard, NEW pw, Decide(heard, pw), HistoryDecide(heard, pw)
      PROVE  HoldInv'
  <2>1. /\ holdLeft' = Held(trigger' # "none")
        /\ tripped' = (trigger' # "none" \/ holdLeft > 0)
    BY <1>1 DEF Decide
  <2>2. since' = IF trigger' # "none" THEN 0 ELSE IF since <= HoldTicks THEN since + 1 ELSE since
    BY <1>1 DEF HistoryDecide
  <2>3. QED
    BY <2>1, <2>2, HoldTick
<1>2. CASE Cleared /\ since' = HoldTicks + 1
  BY <1>2, DetectorSizesAssumption DEF Cleared, HoldInv, HeldAfterVerdict
<1>3. CASE UNCHANGED detectorHistoryVars
  BY <1>3 DEF detectorHistoryVars, detectorVars, HoldInv, HeldAfterVerdict
<1>4. QED
  BY <1>1, <1>2, <1>3 DEF DetectorHistoryNext

\* tripped() reads true exactly from a verdict to hold_s after the last one,
\* for any hold (decide(), the hold).
THEOREM VerdictAlwaysHeld == DetectorHistorySpec => []HeldAfterVerdict
<1>1. HoldInv => HeldAfterVerdict
  BY DEF HoldInv
<1>2. QED
  BY HoldInit, HoldStep, <1>1, PTL DEF DetectorHistorySpec

-------------------------------------------------------------------------------
(* The window of the ring *)

Lines == [Bands -> {Loudest(env, b) : env \in Banks, b \in Bands}]

\* The latest m lines of l, the latest first, lie in the ring before pos.
Aligned(r, pos, l, m) ==
  \A j \in 1 .. m : j <= Len(l) => l[Len(l) + 1 - j] = r[Slot(pos, Slots - j, Slots)]

Filled(count, l) == Len(l) <= count \/ count >= Slots - 1

RingInv ==
  /\ ring \in [0 .. Slots - 1 -> Lines \cup {Silent}]
  /\ ringPos \in 0 .. Slots - 1 /\ ringCount \in 0 .. Slots
  /\ lines \in Seq(Lines)
  /\ Aligned(ring, ringPos, lines, Slots - 1)
  /\ Filled(ringCount, lines)

\* Before the slot pos lies what was j - 1 before it one tick ago.
LEMMA SlotBefore ==
  ASSUME NEW pos \in 0 .. Slots - 1, NEW j \in 1 .. Slots
  PROVE  LET k == Slot(Advance(pos, 1, Slots), Slots - j, Slots)
         IN  /\ k \in 0 .. Slots - 1
             /\ j = 1 => k = pos
             /\ j > 1 => k = Slot(pos, Slots - (j - 1), Slots) /\ k # pos
  BY DetectorSizesAssumption DEF Slot, Advance

\* A line written is the latest of the lines, and the whole ring is in order.
LEMMA WrittenAligned ==
  ASSUME NEW pos \in 0 .. Slots - 1, NEW r \in [0 .. Slots - 1 -> Lines \cup {Silent}],
         NEW l \in Seq(Lines), NEW line \in Lines, Aligned(r, pos, l, Slots - 1)
  PROVE  Aligned([r EXCEPT ![pos] = line], Advance(pos, 1, Slots), Append(l, line), Slots)
<1> DEFINE s == Append(l, line)
           n == Len(l)
           w == [r EXCEPT ![pos] = line]
           at == Advance(pos, 1, Slots)
<1>0. n \in Nat /\ Len(s) = n + 1 /\ s[n + 1] = line /\ \A i \in 1 .. n : s[i] = l[i]
  OBVIOUS
<1>1. ASSUME NEW j \in 1 .. Slots, j <= n + 1
      PROVE  s[n + 2 - j] = w[Slot(at, Slots - j, Slots)]
  <2>0. j = 1 \/ j > 1
    BY DetectorSizesAssumption
  <2>1. CASE j = 1
    <3>1. Slot(at, Slots - j, Slots) = pos
      BY <2>1, SlotBefore
    <3>2. n + 2 - j = n + 1
      BY <2>1, <1>0
    <3>3. w[pos] = line
      OBVIOUS
    <3>4. s[n + 2 - j] = line
      BY <1>0, <3>2
    <3>5. QED
      BY <3>1, <3>3, <3>4
  <2>2. CASE j > 1
    <3>1. /\ Slot(at, Slots - j, Slots) = Slot(pos, Slots - (j - 1), Slots)
          /\ Slot(at, Slots - j, Slots) \in 0 .. Slots - 1 /\ Slot(at, Slots - j, Slots) # pos
      BY <2>2, SlotBefore
    <3>2. j - 1 \in 1 .. Slots - 1 /\ j - 1 <= n /\ n + 1 - (j - 1) = n + 2 - j /\ n + 2 - j \in 1 .. n
      BY <1>0, <1>1, <2>2, DetectorSizesAssumption
    <3>3. l[n + 2 - j] = r[Slot(pos, Slots - (j - 1), Slots)]
      BY <3>2 DEF Aligned
    <3>4. s[n + 2 - j] = l[n + 2 - j]
      BY <1>0, <3>2
    <3>5. w[Slot(at, Slots - j, Slots)] = r[Slot(at, Slots - j, Slots)]
      BY <3>1
    <3>6. QED
      BY <3>1, <3>3, <3>4, <3>5
  <2> HIDE DEF s, n, w, at
  <2>3. QED
    BY <2>0, <2>1, <2>2
<1>2. \A j \in 1 .. Slots : j <= Len(s) => Len(s) + 1 - j = n + 2 - j /\ j <= n + 1
  BY <1>0, DetectorSizesAssumption
<1> HIDE DEF s, n, w, at
<1>3. Aligned(w, at, s, Slots)
  BY <1>1, <1>2 DEF Aligned
<1>4. QED
  BY <1>3 DEF w, at, s

\* What Last keeps: the same latest lines, and all of them or m.
LEMMA LastKeeps ==
  ASSUME NEW S, NEW l \in Seq(S), NEW m \in Nat
  PROVE  /\ Last(l, m) \in Seq(S)
         /\ Len(Last(l, m)) = IF Len(l) <= m THEN Len(l) ELSE m
         /\ \A j \in 1 .. m : j <= Len(l) =>
              j <= Len(Last(l, m)) /\ Last(l, m)[Len(Last(l, m)) + 1 - j] = l[Len(l) + 1 - j]
<1>1. CASE Len(l) <= m
  BY <1>1 DEF Last
<1>2. CASE ~ (Len(l) <= m)
  <2> DEFINE a == Len(l) - m + 1
             cut == SubSeq(l, a, Len(l))
  <2>1. Len(l) \in Nat /\ a \in Int /\ 1 <= a /\ Len(l) - a + 1 = m
    BY <1>2
  <2>2. \A i \in a .. Len(l) : l[i] \in S
    BY <2>1
  <2>3. /\ cut \in Seq(S) /\ Len(cut) = m
        /\ \A i \in 1 .. m : cut[i] = l[a + i - 1]
    <3>1. /\ cut \in Seq(S)
          /\ Len(cut) = IF a <= Len(l) THEN Len(l) - a + 1 ELSE 0
          /\ \A i \in 1 .. Len(l) - a + 1 : cut[i] = l[a + i - 1]
      BY <2>1, <2>2, SubSeqProperties
    <3>2. QED
      BY <3>1, <2>1
  <2>4. Last(l, m) = cut
    BY <1>2 DEF Last
  <2> HIDE DEF cut
  <2>5. ASSUME NEW j \in 1 .. m
        PROVE  cut[m + 1 - j] = l[Len(l) + 1 - j]
    <3>1. m + 1 - j \in 1 .. m /\ a + (m + 1 - j) - 1 = Len(l) + 1 - j
      BY <2>1
    <3>2. QED
      BY <3>1, <2>3
  <2>6. QED
    BY <1>2, <2>3, <2>4, <2>5
<1>3. QED
  BY <1>1, <1>2

LEMMA RingInit == DetectorHistoryInit => RingInv
<1> SUFFICES ASSUME DetectorHistoryInit PROVE RingInv
  OBVIOUS
<1>1. /\ ring \in [0 .. Slots - 1 -> Lines \cup {Silent}]
      /\ ringPos \in 0 .. Slots - 1 /\ ringCount \in 0 .. Slots
  BY DetectorSizesAssumption DEF DetectorHistoryInit, DetectorInit
<1>2. lines = <<>> /\ ringCount = 0
  BY DEF DetectorHistoryInit, DetectorInit
<1>3. lines \in Seq(Lines) /\ Len(lines) = 0
  BY <1>2
<1>4. QED
  BY <1>1, <1>2, <1>3, DetectorSizesAssumption DEF RingInv, Aligned, Filled

-------------------------------------------------------------------------------
(* One tick *)

\* The ring, the lines and the count after a tick, as decide() has them inside.
NextRing(line) == [ring EXCEPT ![ringPos] = line]
NextPos == Advance(ringPos, 1, Slots)
NextCount == IF ringCount < Slots THEN ringCount + 1 ELSE ringCount
Seen(line) == Append(lines, line)

LEMMA HeardType == ASSUME NEW heard \in Ticks PROVE heard.line \in Lines
<1>1. PICK env \in Banks : heard = Heard(env)
  BY DEF Ticks
<1>2. heard.line = [b \in Bands |-> Loudest(env, b)]
  BY <1>1 DEF Heard
<1>3. QED
  BY <1>2 DEF Lines

LEMMA SeenInRing ==
  ASSUME RingInv, NEW line \in Lines
  PROVE  /\ Seen(line) \in Seq(Lines) /\ Len(Seen(line)) = Len(lines) + 1
         /\ Aligned(NextRing(line), NextPos, Seen(line), Slots)
         /\ Len(Seen(line)) >= Slots => NextCount = Slots
<1>1. Seen(line) \in Seq(Lines) /\ Len(Seen(line)) = Len(lines) + 1 /\ Len(lines) \in Nat
  BY DEF RingInv, Seen
<1>2. Aligned(NextRing(line), NextPos, Seen(line), Slots)
  BY WrittenAligned DEF RingInv, NextRing, NextPos, Seen
<1>3. Len(Seen(line)) >= Slots => NextCount = Slots
  BY <1>1, DetectorSizesAssumption DEF RingInv, Filled, NextCount
<1>4. QED
  BY <1>1, <1>2, <1>3

LEMMA RingTick ==
  ASSUME RingInv, NEW line \in Lines, NEW m \in Nat, m >= Slots - 1,
         ring' = NextRing(line), ringPos' = NextPos, ringCount' = NextCount,
         lines' = Last(Seen(line), m)
  PROVE  RingInv'
<1>1. /\ Seen(line) \in Seq(Lines) /\ Len(Seen(line)) = Len(lines) + 1
      /\ Aligned(NextRing(line), NextPos, Seen(line), Slots)
  BY SeenInRing
<1>2. ring' \in [0 .. Slots - 1 -> Lines \cup {Silent}]
  BY DEF RingInv, NextRing
<1>3. ringPos' \in 0 .. Slots - 1 /\ ringCount' \in 0 .. Slots
  BY DetectorSizesAssumption DEF RingInv, NextPos, NextCount, Advance
<1>4. /\ lines' \in Seq(Lines)
      /\ Len(lines') = IF Len(Seen(line)) <= m THEN Len(Seen(line)) ELSE m
      /\ \A j \in 1 .. m : j <= Len(Seen(line)) =>
           j <= Len(lines') /\ lines'[Len(lines') + 1 - j] = Seen(line)[Len(Seen(line)) + 1 - j]
  BY <1>1, LastKeeps
<1>5. Len(lines) \in Nat /\ Len(lines') \in Nat /\ Len(lines') <= Len(Seen(line))
  BY <1>1, <1>4 DEF RingInv
<1>6. Aligned(ring', ringPos', lines', Slots - 1)
  <2> SUFFICES ASSUME NEW j \in 1 .. Slots - 1, j <= Len(lines')
               PROVE  lines'[Len(lines') + 1 - j] = ring'[Slot(ringPos', Slots - j, Slots)]
    BY DEF Aligned
  <2>1. j \in 1 .. m /\ j \in 1 .. Slots /\ j <= Len(Seen(line))
    BY <1>1, <1>5, DetectorSizesAssumption
  <2>2. Seen(line)[Len(Seen(line)) + 1 - j] = ring'[Slot(ringPos', Slots - j, Slots)]
    BY <1>1, <2>1 DEF Aligned
  <2>3. QED
    BY <1>4, <2>1, <2>2
<1>7. Filled(ringCount', lines')
  BY <1>1, <1>5, DetectorSizesAssumption DEF RingInv, Filled, NextCount
<1>8. QED
  BY <1>2, <1>3, <1>4, <1>6, <1>7 DEF RingInv

LEMMA RingDecide ==
  ASSUME RingInv, NEW heard \in Ticks, NEW pw, Decide(heard, pw), HistoryDecide(heard, pw)
  PROVE  RingInv'
<1>1. heard.line \in Lines
  BY HeardType
<1>2. ring' = NextRing(heard.line) /\ ringPos' = NextPos /\ ringCount' = NextCount
  BY DEF Decide, NextRing, NextPos, NextCount
<1>3. RiseTicks \in Nat
  BY DetectorGrowthAssumption DEF RiseTicks
<1>4. PICK m \in {Slots - 1 + RiseTicks, Slots - 1} : lines' = Last(Seen(heard.line), m)
  BY DEF HistoryDecide, Seen
<1>5. m \in Nat /\ m >= Slots - 1
  BY <1>3, <1>4, DetectorSizesAssumption
<1>6. QED
  BY <1>1, <1>2, <1>4, <1>5, RingTick

\* The window of the history is the column of the ring.
LEMMA WindowIsColumn ==
  ASSUME RingInv, NEW line \in Lines, NEW b, Len(Seen(line)) >= Slots
  PROVE  [i \in 1 .. Slots |-> Seen(line)[Len(Seen(line)) - Slots + i][b]]
           = Column(NextRing(line), NextPos, b)
<1>1. /\ Len(Seen(line)) \in Nat
      /\ Aligned(NextRing(line), NextPos, Seen(line), Slots)
  BY SeenInRing DEF RingInv
<1>2. ASSUME NEW i \in 1 .. Slots
      PROVE  Seen(line)[Len(Seen(line)) - Slots + i] = NextRing(line)[Slot(NextPos, i - 1, Slots)]
  <2> DEFINE j == Slots + 1 - i
  <2>1. /\ j \in 1 .. Slots /\ j <= Len(Seen(line))
        /\ Len(Seen(line)) + 1 - j = Len(Seen(line)) - Slots + i /\ Slots - j = i - 1
    BY <1>1, DetectorSizesAssumption
  <2> HIDE DEF j
  <2>2. Seen(line)[Len(Seen(line)) + 1 - j] = NextRing(line)[Slot(NextPos, Slots - j, Slots)]
    BY <1>1, <2>1 DEF Aligned
  <2>3. QED
    BY <2>1, <2>2
<1>3. QED
  BY <1>2 DEF Column

\* What the history calls growing, the code does.
LEMMA GrowsInBoth ==
  ASSUME RingInv, NEW line \in Lines, NEW gate, NEW b, SlopeNow(Seen(line), gate, b) # 0
  PROVE  /\ b \in gate
         /\ NextCount = Slots /\ Climbs(Column(NextRing(line), NextPos, b))
<1> DEFINE window == [i \in 1 .. Slots |-> Seen(line)[Len(Seen(line)) - Slots + i][b]]
<1>1. Len(Seen(line)) >= Slots /\ b \in gate /\ Climbs(window)
  BY DEF SlopeNow
<1>2. window = Column(NextRing(line), NextPos, b)
  BY <1>1, WindowIsColumn
<1> HIDE DEF window
<1>3. QED
  BY <1>1, <1>2, SeenInRing

-------------------------------------------------------------------------------
(* The program level *)

\* While a line grows, the program is what it was before.
FootingInv ==
  /\ RingInv
  /\ footing # 0 => program = footing
  /\ HowlNotLearned

LEMMA FootingInit == DetectorHistoryInit => FootingInv
<1>1. DetectorHistoryInit => footing = 0 /\ due = FALSE
  BY DEF DetectorHistoryInit
<1>2. QED
  BY <1>1, RingInit DEF FootingInv, HowlNotLearned

LEMMA FootingTick ==
  ASSUME FootingInv, NEW heard \in Ticks, NEW pw, Decide(heard, pw), HistoryDecide(heard, pw)
  PROVE  FootingInv'
<1> DEFINE line == heard.line
           slopes == [b \in Bands |-> SlopeNow(Seen(line), heard.gate, b)]
           grows == slopes # Silent
           growing == {b \in heard.gate : NextCount = Slots /\ Climbs(Column(NextRing(line), NextPos, b))}
           before == IF program = 0 THEN pw ELSE program
<1>1. line \in Lines /\ RingInv
  BY HeardType DEF FootingInv
<1>2. program' = Tracked(growing # {}, pw)
  BY DEF Decide, NextRing, NextPos, NextCount
<1>3. \E top : trigger' = Verdict(top, heard.loud, pw)
  BY DEF Decide
<1>4. /\ footing' = IF ~ grows THEN 0 ELSE IF footing = 0 THEN before ELSE footing
      /\ due' = (grows /\ heard.loud /\ pw >= OverProgram * footing')
  BY DEF HistoryDecide, Seen
<1>5. RingInv'
  BY <1>1, RingDecide
<1>6. grows => growing # {}
  <2> SUFFICES ASSUME slopes # Silent
               PROVE  growing # {}
    OBVIOUS
  <2>1. PICK b \in Bands : SlopeNow(Seen(line), heard.gate, b) # 0
    BY DEF Silent
  <2>2. b \in growing
    BY <1>1, <2>1, GrowsInBoth
  <2>3. QED
    BY <2>2
<1> HIDE DEF line, slopes, growing
<1>7. grows => program' = before /\ footing' = before
  <2>1. grows => program' = before
    BY <1>2, <1>6 DEF Tracked
  <2>2. footing # 0 => before = footing
    BY DEF FootingInv
  <2>3. QED
    BY <1>4, <2>1, <2>2
<1>8. footing' # 0 => program' = footing'
  BY <1>4, <1>7
<1>9. due' /\ LevelCatch => trigger' # "none"
  <2> SUFFICES ASSUME due', LevelCatch PROVE trigger' # "none"
    OBVIOUS
  <2>1. heard.loud /\ pw >= OverProgram * before
    BY <1>4, <1>7
  <2>2. QED
    BY <1>3, <2>1 DEF Verdict
<1>10. QED
  BY <1>5, <1>8, <1>9 DEF FootingInv, HowlNotLearned

LEMMA FootingStep == FootingInv /\ [DetectorHistoryNext]_detectorHistoryVars => FootingInv'
<1> SUFFICES ASSUME FootingInv, [DetectorHistoryNext]_detectorHistoryVars
             PROVE  FootingInv'
  OBVIOUS
<1>1. CASE \E heard \in Ticks, pw \in Powers : Decide(heard, pw) /\ HistoryDecide(heard, pw)
  BY <1>1, FootingTick
<1>2. CASE Cleared /\ lines' = <<>> /\ footing' = 0 /\ due' = FALSE
  <2>1. /\ ring' \in [0 .. Slots - 1 -> Lines \cup {Silent}]
        /\ ringPos' \in 0 .. Slots - 1 /\ ringCount' \in 0 .. Slots /\ ringCount' = 0
    BY <1>2, DetectorSizesAssumption DEF Cleared
  <2>2. lines' \in Seq(Lines) /\ Len(lines') = 0
    BY <1>2
  <2>3. RingInv'
    BY <2>1, <2>2, DetectorSizesAssumption DEF RingInv, Aligned, Filled
  <2>4. QED
    BY <1>2, <2>3 DEF FootingInv, HowlNotLearned
<1>3. CASE UNCHANGED detectorHistoryVars
  BY <1>3 DEF detectorHistoryVars, detectorVars, FootingInv, RingInv, HowlNotLearned
<1>4. QED
  BY <1>1, <1>2, <1>3 DEF DetectorHistoryNext

\* A prominent howl that stands OverProgram above the program it grew out of is
\* caught, for any window and thresholds, and whatever the tracker is: the
\* program is frozen while it grows (decide(), the program level).
THEOREM HowlNeverLearned == DetectorHistorySpec => []HowlNotLearned
<1>1. FootingInv => HowlNotLearned
  BY DEF FootingInv
<1>2. QED
  BY FootingInit, FootingStep, <1>1, PTL DEF DetectorHistorySpec

-------------------------------------------------------------------------------
(* Sums.  SumFunction folds over a set in an order of its own; that the fold
   exists, that it depends on nothing but the values, and that any element can
   be taken out of it, go by a counterexample of the fewest elements. *)

Any(s) == CHOOSE x \in s : TRUE

Folds(f, g, S) ==
  g = [s \in SUBSET S |-> IF s = {} THEN 0 ELSE f[Any(s)] + g[s \ {Any(s)}]]

LEMMA LeastExists ==
  ASSUME NEW T, T \subseteq Nat, T # {}
  PROVE  \E i \in T : \A j \in T : i <= j
<1> DEFINE R == OpToRel(<, Nat)
<1>1. \A i, j \in Nat : <<j, i>> \in R <=> j < i
  BY DEF OpToRel
<1>2. IsWellFoundedOn(R, Nat)
  BY NatLessThanWellFounded
<1> HIDE DEF R
<1>3. PICK i \in T : \A j \in T : ~ (<<j, i>> \in R)
  BY <1>2, WFMin
<1>4. \A j \in T : i <= j
  <2> TAKE j \in T
  <2>1. i \in Nat /\ j \in Nat
    OBVIOUS
  <2>2. ~ (j < i)
    BY <1>1, <1>3, <2>1
  <2>3. QED
    BY <2>1, <2>2
<1>5. QED
  BY <1>4

\* Of the subsets of a finite set that have a property, one has the fewest
\* elements.
LEMMA FewestExists ==
  ASSUME NEW S, IsFiniteSet(S), NEW D \in SUBSET (SUBSET S), D # {}
  PROVE  \E u \in D : \A v \in D : ~ (Cardinality(v) < Cardinality(u))
<1> DEFINE T == {Cardinality(u) : u \in D}
<1>1. \A u \in D : IsFiniteSet(u) /\ Cardinality(u) \in Nat
  <2> TAKE u \in D
  <2>1. u \in SUBSET S
    OBVIOUS
  <2>2. IsFiniteSet(u)
    BY <2>1, FS_Subset
  <2>3. QED
    BY <2>2, FS_CardinalityType
<1>2. T \subseteq Nat /\ T # {}
  BY <1>1
<1>3. PICK i \in T : \A j \in T : i <= j
  <2> HIDE DEF T
  <2>1. QED
    BY <1>2, LeastExists
<1>4. PICK u \in D : i = Cardinality(u)
  OBVIOUS
<1>5. \A v \in D : ~ (Cardinality(v) < Cardinality(u))
  <2> TAKE v \in D
  <2>1. Cardinality(v) \in T /\ Cardinality(v) \in Nat /\ Cardinality(u) \in Nat
    BY <1>1
  <2>2. QED
    BY <1>3, <1>4, <2>1
<1>6. QED
  BY <1>5

\* A set without one of its elements has fewer.
LEMMA Fewer ==
  ASSUME NEW S, IsFiniteSet(S), NEW u \in SUBSET S, NEW x \in u
  PROVE  u \ {x} \in SUBSET S /\ Cardinality(u \ {x}) < Cardinality(u)
<1>1. IsFiniteSet(u)
  BY FS_Subset
<1>2. Cardinality(u \ {x}) = Cardinality(u) - 1 /\ Cardinality(u) \in Nat
  BY <1>1, FS_RemoveElement, FS_CardinalityType
<1>3. QED
  BY <1>2

LEMMA FoldsAgree ==
  ASSUME NEW f, NEW g, NEW S, Folds(f, g, S),
         NEW e, NEW h, NEW T, Folds(e, h, T),
         NEW s, IsFiniteSet(s), s \subseteq S, s \subseteq T, \A x \in s : f[x] = e[x]
  PROVE  g[s] = h[s]
<1> DEFINE D == {u \in SUBSET s : g[u] # h[u]}
<1> SUFFICES ASSUME D # {} PROVE FALSE
  OBVIOUS
<1>1. PICK u \in D : \A v \in D : ~ (Cardinality(v) < Cardinality(u))
  <2>1. D \in SUBSET (SUBSET s)
    OBVIOUS
  <2> HIDE DEF D
  <2>2. QED
    BY <2>1, FewestExists
<1>2. u \in SUBSET S /\ u \in SUBSET T /\ u \in SUBSET s /\ g[u] # h[u]
  OBVIOUS
<1>3. /\ g[u] = IF u = {} THEN 0 ELSE f[Any(u)] + g[u \ {Any(u)}]
      /\ h[u] = IF u = {} THEN 0 ELSE e[Any(u)] + h[u \ {Any(u)}]
  BY <1>2 DEF Folds
<1>4. u # {}
  BY <1>2, <1>3
<1>5. Any(u) \in u
  BY <1>4 DEF Any
<1>6. u \ {Any(u)} \notin D /\ u \ {Any(u)} \in SUBSET s
  BY <1>1, <1>2, <1>5, Fewer
<1>7. g[u \ {Any(u)}] = h[u \ {Any(u)}] /\ f[Any(u)] = e[Any(u)]
  BY <1>2, <1>5, <1>6
<1>8. QED
  BY <1>2, <1>3, <1>4, <1>7

LEMMA FoldsExist == ASSUME NEW f, NEW S, IsFiniteSet(S) PROVE \E g : Folds(f, g, S)
<1> DEFINE D == {u \in SUBSET S : ~ \E g : Folds(f, g, u)}
<1> SUFFICES ASSUME D # {} PROVE FALSE
  OBVIOUS
<1>1. PICK u \in D : \A v \in D : ~ (Cardinality(v) < Cardinality(u))
  <2>1. D \in SUBSET (SUBSET S)
    OBVIOUS
  <2> HIDE DEF D
  <2>2. QED
    BY <2>1, FewestExists
<1>2. u \in SUBSET S /\ IsFiniteSet(u) /\ ~ \E g : Folds(f, g, u)
  <2>1. u \in SUBSET S
    OBVIOUS
  <2>2. IsFiniteSet(u)
    BY <2>1, FS_Subset
  <2>3. QED
    BY <2>1, <2>2
<1> DEFINE F(s) == CHOOSE g : Folds(f, g, s)
           G(s) == F(s)[s]
<1>3. \A s \in SUBSET u : s # u => Folds(f, F(s), s)
  <2> SUFFICES ASSUME NEW s \in SUBSET u, s # u PROVE \E g : Folds(f, g, s)
    OBVIOUS
  <2>1. IsFiniteSet(s) /\ Cardinality(s) < Cardinality(u)
    <3>1. IsFiniteSet(s) /\ Cardinality(s) <= Cardinality(u) /\ Cardinality(u) # Cardinality(s)
      BY <1>2, FS_Subset
    <3>2. Cardinality(s) \in Nat /\ Cardinality(u) \in Nat
      BY <1>2, <3>1, FS_CardinalityType
    <3>3. QED
      BY <3>1, <3>2
  <2>2. s \notin D
    BY <1>1, <2>1
  <2>3. s \in SUBSET S
    BY <1>2
  <2>4. QED
    BY <2>2, <2>3
<1> HIDE DEF F, D
<1>4. ASSUME NEW s \in SUBSET u, s # u
      PROVE  G(s) = IF s = {} THEN 0 ELSE f[Any(s)] + G(s \ {Any(s)})
  <2>1. F(s) = [v \in SUBSET s |-> IF v = {} THEN 0 ELSE f[Any(v)] + F(s)[v \ {Any(v)}]]
    BY <1>3, <1>4 DEF Folds
  <2>2. G(s) = IF s = {} THEN 0 ELSE f[Any(s)] + F(s)[s \ {Any(s)}]
    BY <2>1
  <2>3. CASE s = {}
    BY <2>2, <2>3
  <2>4. CASE s # {}
    <3> DEFINE v == s \ {Any(s)}
    <3>1. Any(s) \in s
      BY <2>4 DEF Any
    <3>2. v \in SUBSET u /\ v # u /\ v \subseteq s /\ v \subseteq v
      BY <3>1
    <3>3. IsFiniteSet(v)
      BY <1>2, <3>2, FS_Subset
    <3>4. Folds(f, F(v), v) /\ Folds(f, F(s), s)
      BY <1>3, <1>4, <3>2
    <3>5. F(s)[v] = F(v)[v]
      BY <3>2, <3>3, <3>4, FoldsAgree
    <3>6. QED
      BY <2>2, <2>4, <3>5
  <2>5. QED
    BY <2>3, <2>4
<1> DEFINE g == [s \in SUBSET u |->
                   IF s = u THEN (IF u = {} THEN 0 ELSE f[Any(u)] + G(u \ {Any(u)})) ELSE G(s)]
<1> HIDE DEF G
<1>5. ASSUME NEW s \in SUBSET u
      PROVE  g[s] = IF s = {} THEN 0 ELSE f[Any(s)] + g[s \ {Any(s)}]
  <2>1. CASE s = {}
    BY <1>4, <2>1
  <2>2. CASE s # {}
    <3>1. Any(s) \in s
      BY <2>2 DEF Any
    <3>2. s \ {Any(s)} \in SUBSET u /\ s \ {Any(s)} # u
      BY <3>1
    <3>3. g[s \ {Any(s)}] = G(s \ {Any(s)})
      BY <3>2
    <3>4. g[s] = f[Any(s)] + G(s \ {Any(s)})
      <4>1. CASE s = u
        BY <2>2, <4>1
      <4>2. CASE s # u
        BY <1>4, <2>2, <4>2
      <4>3. QED
        BY <4>1, <4>2
    <3>5. QED
      BY <2>2, <3>3, <3>4
  <2>3. QED
    BY <2>1, <2>2
<1>6. g = [s \in SUBSET u |-> g[s]]
  OBVIOUS
<1> HIDE DEF g
<1>7. Folds(f, g, u)
  BY <1>5, <1>6 DEF Folds
<1>8. QED
  BY <1>2, <1>7

\* The equation of the sum.
LEMMA SumEquation ==
  ASSUME NEW f, NEW S, IsFiniteSet(S)
  PROVE  SumFunctionOnSet(f, S) =
           IF S = {} THEN 0 ELSE f[Any(S)] + SumFunctionOnSet(f, S \ {Any(S)})
<1> DEFINE F(s) == CHOOSE g : Folds(f, g, s)
<1>1. \A s : IsFiniteSet(s) => Folds(f, F(s), s) /\ SumFunctionOnSet(f, s) = F(s)[s]
  <2> SUFFICES ASSUME NEW s, IsFiniteSet(s)
               PROVE  Folds(f, F(s), s) /\ SumFunctionOnSet(f, s) = F(s)[s]
    OBVIOUS
  <2>1. Folds(f, F(s), s)
    BY FoldsExist
  <2>2. SumFunctionOnSet(f, s) = F(s)[s]
    BY DEF SumFunctionOnSet, FoldFunctionOnSet, MapThenFoldSet, Folds, Any
  <2>3. QED
    BY <2>1, <2>2
<1> HIDE DEF F
<1>2. F(S)[S] = IF S = {} THEN 0 ELSE f[Any(S)] + F(S)[S \ {Any(S)}]
  <2>1. F(S) = [s \in SUBSET S |-> IF s = {} THEN 0 ELSE f[Any(s)] + F(S)[s \ {Any(s)}]]
    BY <1>1 DEF Folds
  <2>2. S \in SUBSET S
    OBVIOUS
  <2>3. QED
    BY <2>1, <2>2
<1>3. CASE S = {}
  BY <1>1, <1>2, <1>3
<1>4. CASE S # {}
  <2> DEFINE s == S \ {Any(S)}
  <2>1. IsFiniteSet(s) /\ s \subseteq S /\ s \subseteq s
    BY FS_Subset
  <2>2. Folds(f, F(s), s) /\ Folds(f, F(S), S) /\ SumFunctionOnSet(f, s) = F(s)[s]
    BY <1>1, <2>1
  <2>3. F(S)[s] = F(s)[s]
    BY <2>1, <2>2, FoldsAgree
  <2>4. QED
    BY <1>1, <1>2, <1>4, <2>2, <2>3
<1>5. QED
  BY <1>3, <1>4

\* A sum of integers is one.
LEMMA SumType ==
  ASSUME NEW S, IsFiniteSet(S), NEW f, \A x \in S : f[x] \in Int
  PROVE  SumFunctionOnSet(f, S) \in Int
<1> DEFINE D == {u \in SUBSET S : SumFunctionOnSet(f, u) \notin Int}
<1> SUFFICES ASSUME D # {} PROVE FALSE
  OBVIOUS
<1>1. PICK u \in D : \A v \in D : ~ (Cardinality(v) < Cardinality(u))
  <2>1. D \in SUBSET (SUBSET S)
    OBVIOUS
  <2> HIDE DEF D
  <2>2. QED
    BY <2>1, FewestExists
<1>2. u \in SUBSET S /\ IsFiniteSet(u) /\ SumFunctionOnSet(f, u) \notin Int
  <2>1. u \in SUBSET S /\ SumFunctionOnSet(f, u) \notin Int
    OBVIOUS
  <2>2. IsFiniteSet(u)
    BY <2>1, FS_Subset
  <2>3. QED
    BY <2>1, <2>2
<1>3. SumFunctionOnSet(f, u) =
        IF u = {} THEN 0 ELSE f[Any(u)] + SumFunctionOnSet(f, u \ {Any(u)})
  BY <1>2, SumEquation
<1>4. u # {}
  BY <1>2, <1>3
<1>5. Any(u) \in u
  BY <1>4 DEF Any
<1>6. u \ {Any(u)} \notin D /\ u \ {Any(u)} \in SUBSET S
  BY <1>1, <1>2, <1>5, Fewer
<1>7. SumFunctionOnSet(f, u \ {Any(u)}) \in Int /\ f[Any(u)] \in Int
  BY <1>2, <1>5, <1>6
<1>8. QED
  BY <1>2, <1>3, <1>4, <1>7

\* Any element can be taken out of a sum.
LEMMA SumWithout ==
  ASSUME NEW S, IsFiniteSet(S), NEW f, \A x \in S : f[x] \in Int, NEW y \in S
  PROVE  SumFunctionOnSet(f, S) = f[y] + SumFunctionOnSet(f, S \ {y})
<1> DEFINE Sum(u) == SumFunctionOnSet(f, u)
           D == {u \in SUBSET S : \E x \in u : Sum(u) # f[x] + Sum(u \ {x})}
<1> SUFFICES D = {}
  OBVIOUS
<1> SUFFICES ASSUME D # {} PROVE FALSE
  OBVIOUS
<1>1. PICK u \in D : \A v \in D : ~ (Cardinality(v) < Cardinality(u))
  <2>1. D \in SUBSET (SUBSET S)
    OBVIOUS
  <2> HIDE DEF D
  <2>2. QED
    BY <2>1, FewestExists
<1>2. PICK x \in u : Sum(u) # f[x] + Sum(u \ {x})
  OBVIOUS
<1>3. u \in SUBSET S
  OBVIOUS
<1>4. \A v \in SUBSET S : IsFiniteSet(v) /\ Sum(v) \in Int
  <2> TAKE v \in SUBSET S
  <2>1. IsFiniteSet(v)
    BY FS_Subset
  <2>2. QED
    BY <2>1, SumType
<1> DEFINE c == Any(u)
<1>5. c \in u /\ Sum(u) = f[c] + Sum(u \ {c})
  <2>1. u # {}
    OBVIOUS
  <2>2. QED
    BY <1>3, <1>4, <2>1, SumEquation DEF Any
<1> HIDE DEF c, Sum
<1>6. c # x
  BY <1>2, <1>5
<1>7. /\ u \ {c} \in SUBSET S /\ u \ {c} \notin D
      /\ u \ {x} \in SUBSET S /\ u \ {x} \notin D
  BY <1>1, <1>3, <1>5, Fewer
<1>8. Sum(u \ {c}) = f[x] + Sum((u \ {c}) \ {x}) /\ Sum(u \ {x}) = f[c] + Sum((u \ {x}) \ {c})
  BY <1>5, <1>6, <1>7
<1>9. (u \ {c}) \ {x} = (u \ {x}) \ {c} /\ (u \ {c}) \ {x} \in SUBSET S
  BY <1>3
<1>10. f[x] \in Int /\ f[c] \in Int /\ Sum((u \ {c}) \ {x}) \in Int
  BY <1>3, <1>4, <1>5, <1>9
<1>11. QED
  BY <1>2, <1>5, <1>8, <1>9, <1>10

\* Over an interval.
LEMMA SumLast ==
  ASSUME NEW t \in Int, NEW n \in Int, t <= n, NEW f, \A i \in t .. n : f[i] \in Int
  PROVE  /\ SumFunctionOnSet(f, t .. n) = SumFunctionOnSet(f, t .. (n - 1)) + f[n]
         /\ SumFunctionOnSet(f, t .. (n - 1)) \in Int
<1>1. IsFiniteSet(t .. n) /\ IsFiniteSet(t .. (n - 1))
  BY FS_Interval
<1>2. n \in t .. n /\ (t .. n) \ {n} = t .. (n - 1)
  OBVIOUS
<1>3. SumFunctionOnSet(f, t .. n) = f[n] + SumFunctionOnSet(f, t .. (n - 1))
  BY <1>1, <1>2, SumWithout
<1>4. SumFunctionOnSet(f, t .. (n - 1)) \in Int
  <2>1. \A i \in t .. (n - 1) : f[i] \in Int
    OBVIOUS
  <2>2. QED
    BY <1>1, <2>1, SumType
<1>5. f[n] \in Int
  BY <1>2
<1>6. QED
  BY <1>3, <1>4, <1>5

LEMMA SumNone == ASSUME NEW t \in Int, NEW f PROVE SumFunctionOnSet(f, t .. (t - 1)) = 0
<1>1. t .. (t - 1) = {}
  OBVIOUS
<1>2. SumFunctionOnSet(f, {}) = 0
  BY FS_EmptySet, SumEquation
<1>3. QED
  BY <1>1, <1>2

LEMMA SumOne == ASSUME NEW m \in Int, NEW f, f[m] \in Int PROVE SumFunctionOnSet(f, m .. m) = f[m]
<1>1. m \in m .. m /\ \A i \in m .. m : i = m
  OBVIOUS
<1>2. \A i \in m .. m : f[i] \in Int
  BY <1>1
<1>3. SumFunctionOnSet(f, m .. m) = SumFunctionOnSet(f, m .. (m - 1)) + f[m]
  <2>1. m <= m
    OBVIOUS
  <2>2. QED
    BY <1>2, <2>1, SumLast
<1>4. SumFunctionOnSet(f, m .. (m - 1)) = 0
  BY SumNone
<1>5. QED
  BY <1>3, <1>4

\* A sum of larger terms, numbered from elsewhere, is larger.
Bounds(f, t, n, e, o) == \A i \in t .. n : f[i] \in Int /\ e[i - o] \in Int /\ f[i] <= e[i - o]

LEMMA SumAtMost ==
  ASSUME NEW t \in Int, NEW n \in Int, NEW o \in Int, t <= n + 1, NEW f, NEW e,
         Bounds(f, t, n, e, o)
  PROVE  SumFunctionOnSet(f, t .. n) <= SumFunctionOnSet(e, (t - o) .. (n - o))
<1> USE DEF Bounds
<1> DEFINE E(k) == SumFunctionOnSet(e, (t - o) .. (t - o + k - 1))
           F(k) == SumFunctionOnSet(f, t .. (t + k - 1))
           T == {k \in Nat : t + k <= n + 1 /\ ~ (F(k) <= E(k))}
<1>1. T = {}
  <2> SUFFICES ASSUME T # {} PROVE FALSE
    OBVIOUS
  <2>1. PICK k \in T : \A j \in T : k <= j
    <3> HIDE DEF T
    <3>1. T \subseteq Nat
      BY DEF T
    <3>2. QED
      BY <3>1, LeastExists
  <2>2. k # 0
    <3>1. E(0) = 0
      <4>1. (t - o) + 0 - 1 = (t - o) - 1 /\ t - o \in Int
        OBVIOUS
      <4>2. QED
        BY <4>1, SumNone
    <3>2. F(0) = 0
      <4>1. t + 0 - 1 = t - 1
        OBVIOUS
      <4>2. QED
        BY <4>1, SumNone
    <3> HIDE DEF E, F
    <3>3. F(0) <= E(0)
      BY <3>1, <3>2
    <3>4. QED
      BY <2>1, <3>3
  <2>3. k - 1 \in Nat /\ t + (k - 1) <= n + 1 /\ k - 1 \notin T
    <3>1. k \in Nat /\ t + k <= n + 1
      BY <2>1
    <3> HIDE DEF T
    <3>2. QED
      BY <2>1, <2>2, <3>1
  <2>4. F(k - 1) <= E(k - 1)
    BY <2>3
  <2> DEFINE l == t + k - 1
  <2>5. l \in t .. n /\ l \in Int /\ l - o \in Int /\ t - o \in Int /\ t - o <= l - o
    BY <2>1, <2>2
  <2>6. F(k) = F(k - 1) + f[l] /\ F(k - 1) \in Int
    <3>1. \A i \in t .. l : f[i] \in Int
      BY <2>5
    <3>2. l - 1 = t + (k - 1) - 1
      BY <2>1
    <3>3. l \in Int /\ t <= l
      BY <2>5
    <3> HIDE DEF l
    <3>4. /\ SumFunctionOnSet(f, t .. l) = SumFunctionOnSet(f, t .. (l - 1)) + f[l]
          /\ SumFunctionOnSet(f, t .. (l - 1)) \in Int
      BY <3>1, <3>3, SumLast
    <3>5. QED
      BY <3>2, <3>4 DEF l
  <2>7. E(k) = E(k - 1) + e[l - o] /\ E(k - 1) \in Int
    <3> DEFINE lo == t - o
               hi == l - o
    <3>1. \A i \in lo .. hi : e[i] \in Int
      <4> TAKE i \in lo .. hi
      <4>1. i + o \in t .. n /\ (i + o) - o = i
        BY <2>5
      <4>2. QED
        BY <4>1
    <3>2. hi = (t - o) + k - 1 /\ hi - 1 = (t - o) + (k - 1) - 1
      BY <2>1
    <3>3. lo \in Int /\ hi \in Int /\ lo <= hi
      BY <2>5
    <3> HIDE DEF lo, hi
    <3>4. /\ SumFunctionOnSet(e, lo .. hi) = SumFunctionOnSet(e, lo .. (hi - 1)) + e[hi]
          /\ SumFunctionOnSet(e, lo .. (hi - 1)) \in Int
      BY <3>1, <3>3, SumLast
    <3>5. QED
      BY <3>2, <3>4 DEF lo, hi
  <2>8. f[l] \in Int /\ e[l - o] \in Int /\ f[l] <= e[l - o]
    BY <2>5
  <2>9. ~ (F(k) <= E(k))
    BY <2>1
  <2> HIDE DEF E, F, l
  <2>10. QED
    BY <2>4, <2>6, <2>7, <2>8, <2>9
<1> DEFINE c == n - t + 1
<1>2. c \in Nat /\ t + c <= n + 1 /\ (t - o) + c - 1 = n - o /\ t + c - 1 = n
  OBVIOUS
<1>3. F(c) <= E(c)
  <2>1. c \notin T
    BY <1>1
  <2> HIDE DEF c, E, F
  <2>2. QED
    BY <1>2, <2>1
<1> HIDE DEF c
<1>4. QED
  BY <1>2, <1>3

\* A sum does not change when its terms are numbered from elsewhere.
Renumbered(f, t, n, e, o) == \A i \in t .. n : f[i] \in Int /\ e[i - o] = f[i]

LEMMA SumShifted ==
  ASSUME NEW t \in Int, NEW n \in Int, NEW o \in Int, t <= n + 1, NEW f, NEW e,
         Renumbered(f, t, n, e, o)
  PROVE  SumFunctionOnSet(e, (t - o) .. (n - o)) = SumFunctionOnSet(f, t .. n)
<1> DEFINE a == t - o
           b == n - o
           p == - o
<1>1. \A i \in t .. n : f[i] \in Int /\ e[i - o] = f[i]
  BY DEF Renumbered
<1>2. SumFunctionOnSet(f, t .. n) <= SumFunctionOnSet(e, a .. b)
  <2>1. Bounds(f, t, n, e, o)
    BY <1>1 DEF Bounds
  <2>2. QED
    BY <2>1, SumAtMost
<1>3. \A i \in a .. b : e[i] \in Int /\ f[i - p] \in Int /\ e[i] <= f[i - p]
  <2> TAKE i \in a .. b
  <2>1. i + o \in t .. n /\ (i + o) - o = i /\ i - p = i + o
    OBVIOUS
  <2> HIDE DEF p
  <2>2. e[i] = f[i + o] /\ f[i + o] \in Int
    BY <1>1, <2>1
  <2>3. QED
    BY <2>1, <2>2
<1>4. a \in Int /\ b \in Int /\ p \in Int /\ a <= b + 1 /\ a - p = t /\ b - p = n
  OBVIOUS
<1> HIDE DEF a, b, p
<1>5. SumFunctionOnSet(e, a .. b) <= SumFunctionOnSet(f, (a - p) .. (b - p))
  <2>1. Bounds(e, a, b, f, p)
    BY <1>3 DEF Bounds
  <2>2. QED
    BY <1>4, <2>1, SumAtMost
<1>6. SumFunctionOnSet(e, a .. b) \in Int /\ SumFunctionOnSet(f, t .. n) \in Int
  <2>1. IsFiniteSet(a .. b) /\ IsFiniteSet(t .. n)
    BY <1>4, FS_Interval
  <2>2. (\A i \in a .. b : e[i] \in Int) /\ (\A i \in t .. n : f[i] \in Int)
    BY <1>1, <1>3
  <2>3. QED
    BY <2>1, <2>2, SumType
<1>7. SumFunctionOnSet(e, a .. b) = SumFunctionOnSet(f, t .. n)
  BY <1>2, <1>4, <1>5, <1>6
<1>8. QED
  BY <1>7 DEF a, b

\* A part of a sum of terms that are not negative.
LEMMA SumOfPart ==
  ASSUME NEW S, IsFiniteSet(S), NEW u \in SUBSET S, NEW f, \A x \in S : f[x] \in Nat
  PROVE  SumFunctionOnSet(f, u) <= SumFunctionOnSet(f, S)
<1> DEFINE Sum(v) == SumFunctionOnSet(f, v)
           R == S \ u
           D == {v \in SUBSET R : ~ (Sum(u) <= Sum(u \cup v))}
<1>1. D = {}
  <2> SUFFICES ASSUME D # {} PROVE FALSE
    OBVIOUS
  <2>1. IsFiniteSet(R) /\ R \subseteq S
    BY FS_Subset
  <2>2. PICK v \in D : \A z \in D : ~ (Cardinality(z) < Cardinality(v))
    <3>1. D \in SUBSET (SUBSET R)
      OBVIOUS
    <3> HIDE DEF D
    <3>2. QED
      BY <2>1, <3>1, FewestExists
  <2>3. v \in SUBSET R /\ ~ (Sum(u) <= Sum(u \cup v))
    OBVIOUS
  <2>4. \A z \in SUBSET S : IsFiniteSet(z) /\ Sum(z) \in Int
    <3> TAKE z \in SUBSET S
    <3>1. IsFiniteSet(z)
      BY FS_Subset
    <3>2. \A x \in z : f[x] \in Int
      OBVIOUS
    <3>3. QED
      BY <3>1, <3>2, SumType
  <2>5. v # {}
    <3>1. u \cup {} = u /\ Sum(u) <= Sum(u)
      BY <2>4
    <3>2. QED
      BY <2>3, <3>1
  <2>6. PICK x \in v : TRUE
    BY <2>5
  <2>7. v \ {x} \in SUBSET R /\ v \ {x} \notin D
    BY <2>1, <2>2, <2>3, Fewer
  <2>8. Sum(u) <= Sum(u \cup (v \ {x}))
    BY <2>7
  <2>9. /\ u \cup v \in SUBSET S /\ x \in u \cup v
        /\ (u \cup v) \ {x} = u \cup (v \ {x}) /\ u \cup (v \ {x}) \in SUBSET S
    BY <2>3
  <2>10. Sum(u \cup v) = f[x] + Sum((u \cup v) \ {x})
    <3>1. IsFiniteSet(u \cup v) /\ \A i \in u \cup v : f[i] \in Int
      BY <2>4, <2>9
    <3>2. QED
      BY <2>9, <3>1, SumWithout
  <2>11. f[x] \in Nat /\ Sum(u) \in Int /\ Sum(u \cup (v \ {x})) \in Int
    BY <2>3, <2>4, <2>9
  <2> HIDE DEF D, Sum
  <2>12. Sum(u \cup v) = f[x] + Sum(u \cup (v \ {x}))
    BY <2>9, <2>10
  <2>13. \A a, b, c, d : a \in Int /\ b \in Int /\ c \in Nat /\ d = c + b /\ a <= b => a <= d
    OBVIOUS
  <2>14. Sum(u) <= Sum(u \cup v)
    BY <2>8, <2>11, <2>12, <2>13
  <2>15. QED
    BY <2>3, <2>14
<1>2. R \notin D /\ u \cup R = S
  BY <1>1
<1> HIDE DEF Sum
<1>3. Sum(u) <= Sum(u \cup R)
  BY <1>2
<1>4. QED
  BY <1>2, <1>3 DEF Sum

\* A sum of terms of at least g.
LEMMA SumAtLeast ==
  ASSUME NEW t \in Int, NEW n \in Int, t <= n + 1, NEW g \in Nat, NEW f,
         \A i \in t .. n : f[i] \in Int /\ f[i] >= g
  PROVE  SumFunctionOnSet(f, t .. n) \in Int /\ SumFunctionOnSet(f, t .. n) >= (n - t + 1) * g
<1> DEFINE F(k) == SumFunctionOnSet(f, t .. (t + k - 1))
           T == {k \in Nat : t + k <= n + 1 /\ ~ (F(k) \in Int /\ F(k) >= k * g)}
<1>1. T = {}
  <2> SUFFICES ASSUME T # {} PROVE FALSE
    OBVIOUS
  <2>1. PICK k \in T : \A j \in T : k <= j
    <3> HIDE DEF T
    <3>1. T \subseteq Nat
      BY DEF T
    <3>2. QED
      BY <3>1, LeastExists
  <2>2. k # 0
    <3>1. t + 0 - 1 = t - 1 /\ 0 * g = 0
      OBVIOUS
    <3>2. F(0) = 0
      BY <3>1, SumNone
    <3>3. QED
      BY <3>1, <3>2
  <2>3. k - 1 \in Nat /\ t + (k - 1) <= n + 1 /\ k - 1 \notin T
    <3>1. k \in Nat /\ t + k <= n + 1
      BY <2>1
    <3> HIDE DEF T
    <3>2. QED
      BY <2>1, <2>2, <3>1
  <2>4. F(k - 1) \in Int /\ F(k - 1) >= (k - 1) * g
    BY <2>3
  <2> DEFINE l == t + k - 1
  <2>5. l \in t .. n /\ l \in Int /\ t <= l
    BY <2>1, <2>2
  <2>6. F(k) = F(k - 1) + f[l]
    <3>1. \A i \in t .. l : f[i] \in Int
      BY <2>5
    <3>2. l - 1 = t + (k - 1) - 1
      BY <2>1
    <3> HIDE DEF l
    <3>3. SumFunctionOnSet(f, t .. l) = SumFunctionOnSet(f, t .. (l - 1)) + f[l]
      BY <2>5, <3>1, SumLast
    <3>4. QED
      BY <3>2, <3>3 DEF l
  <2>7. f[l] \in Int /\ f[l] >= g
    BY <2>5
  <2>8. (k - 1) * g + g = k * g
    BY <2>1
  <2> HIDE DEF F, l
  <2>9. (k - 1) * g \in Int /\ k * g \in Int
    BY <2>1
  <2>10. F(k) \in Int /\ F(k) >= k * g
    <3> DEFINE x == (k - 1) * g
               y == k * g
    <3>1. x \in Int /\ y \in Int /\ x + g = y /\ F(k - 1) >= x
      BY <2>4, <2>8, <2>9
    <3> HIDE DEF x, y
    <3>2. F(k) \in Int /\ F(k) >= y
      BY <2>4, <2>6, <2>7, <3>1
    <3>3. QED
      BY <3>2 DEF y
  <2>11. QED
    BY <2>1, <2>10
<1> DEFINE c == n - t + 1
<1>2. c \in Nat /\ t + c <= n + 1 /\ t + c - 1 = n
  OBVIOUS
<1>3. F(c) \in Int /\ F(c) >= c * g
  <2>1. c \notin T
    BY <1>1
  <2> HIDE DEF c, F
  <2>2. QED
    BY <1>2, <2>1
<1>4. F(c) = SumFunctionOnSet(f, t .. n)
  <2> HIDE DEF c
  <2>1. QED
    BY <1>2
<1>5. QED
  BY <1>3, <1>4

-------------------------------------------------------------------------------
(* The types.  A column is fitted with the ring full, of lines and no others. *)

LEMMA NearType ==
  ASSUME NEW b \in Bands
  PROVE  b \in Near(b) /\ \A k \in Near(b) : k \in Bands /\ k \in {b - 1, b, b + 1}
  BY DetectorSizesAssumption DEF Near, Bands

\* The largest value of a band and its neighbours is one of theirs.
LEMMA MaxNear ==
  ASSUME NEW b \in Bands, NEW f, \A k \in Near(b) : f[k] \in Int
  PROVE  \E k \in Near(b) : /\ Max({f[j] : j \in Near(b)}) = f[k]
                            /\ \A j \in Near(b) : f[j] <= f[k]
<1>1. b \in Near(b) /\ \A k \in Near(b) : k \in {b - 1, b, b + 1}
  BY NearType
<1>2. \E k \in Near(b) : \A j \in Near(b) : f[j] <= f[k]
  <2>1. PICK c \in Near(b) : f[b] <= f[c] /\ (b - 1 \in Near(b) => f[b - 1] <= f[c])
    <3>1. CASE b - 1 \in Near(b) /\ f[b] <= f[b - 1]
      BY <3>1
    <3>2. CASE ~ (b - 1 \in Near(b) /\ f[b] <= f[b - 1])
      BY <1>1, <3>2
    <3>3. QED
      BY <3>1, <3>2
  <2>2. PICK d \in Near(b) : f[c] <= f[d] /\ (b + 1 \in Near(b) => f[b + 1] <= f[d])
    <3>1. CASE b + 1 \in Near(b) /\ f[c] <= f[b + 1]
      BY <3>1
    <3>2. CASE ~ (b + 1 \in Near(b) /\ f[c] <= f[b + 1])
      BY <2>1, <3>2
    <3>3. QED
      BY <3>1, <3>2
  <2>3. \A j \in Near(b) : f[j] <= f[d]
    <3> TAKE j \in Near(b)
    <3>1. f[b] \in Int /\ f[c] \in Int /\ f[d] \in Int /\ f[j] \in Int
      BY <1>1
    <3>2. CASE j = b
      BY <2>1, <2>2, <3>1, <3>2
    <3>3. CASE j = b - 1
      BY <2>1, <2>2, <3>1, <3>3
    <3>4. CASE j = b + 1
      BY <2>2, <3>4
    <3>5. QED
      BY <1>1, <3>2, <3>3, <3>4
  <2>4. QED
    BY <2>3
<1> DEFINE S == {f[j] : j \in Near(b)}
           top == CHOOSE x \in S : \A y \in S : x >= y
<1>3. Max(S) = top
  BY DEF Max
<1>4. top \in S /\ \A y \in S : top >= y
  <2>1. \E x \in S : \A y \in S : x >= y
    BY <1>2
  <2>2. QED
    BY <2>1
<1>5. PICK k \in Near(b) : top = f[k]
  BY <1>4
<1>6. \A j \in Near(b) : f[j] <= f[k]
  BY <1>4, <1>5
<1>7. QED
  BY <1>3, <1>5, <1>6

Levels == {Level(env[b]) : env \in Banks, b \in Bands}

\* A line is a level that some band has.
LEMMA LoudestType == ASSUME NEW env \in Banks, NEW b \in Bands PROVE Loudest(env, b) \in Levels
<1> DEFINE f == [k \in Bands |-> Level(env[k])]
<1>1. \A k \in Near(b) : k \in Bands /\ f[k] = Level(env[k]) /\ f[k] \in Int
  BY NearType, DetectorInputsAssumption DEF Bands
<1>2. {f[j] : j \in Near(b)} = {Level(env[k]) : k \in Near(b)}
  BY <1>1
<1> HIDE DEF f
<1>3. PICK k \in Near(b) : Max({f[j] : j \in Near(b)}) = f[k]
  BY <1>1, MaxNear
<1>4. Loudest(env, b) = Level(env[k]) /\ k \in Bands
  BY <1>1, <1>2, <1>3 DEF Loudest
<1>5. QED
  BY <1>4 DEF Levels

LEMMA LinesType == Lines \subseteq [Bands -> Levels] /\ Levels \subseteq Nat
<1>1. Levels \subseteq Nat
  BY DetectorInputsAssumption DEF Levels, Bands
<1>2. ASSUME NEW l \in Lines PROVE l \in [Bands -> Levels]
  <2>1. {Loudest(env, b) : env \in Banks, b \in Bands} \subseteq Levels
    BY LoudestType
  <2>2. QED
    BY <2>1 DEF Lines
<1>3. QED
  BY <1>1, <1>2

\* A window's fit is of that window, and its slope a number.
LEMMA FitType ==
  ASSUME NEW y \in Windows
  PROVE  Fit(y).slope = Slope(y) /\ Slope(y) \in Int
<1> DEFINE fit == [window |-> y, slope |-> Slope(y), misfit |-> Misfit(y)]
<1>1. Fit(y) \in Fits /\ Fit(y).window = y
  <2>1. fit \in Fits /\ fit.window = y
    BY DEF Fits
  <2>2. \E g \in Fits : g.window = y
    BY <2>1
  <2>3. QED
    BY <2>2 DEF Fit
<1>2. Fit(y).slope = Slope(y)
  BY <1>1 DEF Fits
<1>3. Slope(y) \in Int
  <2> DEFINE f == [i \in 1 .. Slots |-> (2 * i - 1 - Slots) * y[i]]
  <2>1. \A i \in 1 .. Slots : y[i] \in Int
    BY LinesType DEF Windows, Levels, Bands
  <2>2. \A i \in 1 .. Slots : f[i] \in Int
    BY <2>1, DetectorSizesAssumption
  <2>3. DOMAIN f = 1 .. Slots /\ IsFiniteSet(1 .. Slots)
    BY FS_Interval, DetectorSizesAssumption
  <2> HIDE DEF f
  <2>4. SumFunctionOnSet(f, 1 .. Slots) \in Int
    BY <2>2, <2>3, SumType
  <2>5. QED
    BY <2>3, <2>4 DEF Slope, SumFunction, f
<1>4. QED
  BY <1>2, <1>3

\* The slots filled hold lines, the latest just before ringPos.
FullInv ==
  /\ ring \in [0 .. Slots - 1 -> Lines \cup {Silent}]
  /\ ringPos \in 0 .. Slots - 1 /\ ringCount \in 0 .. Slots
  /\ \A j \in 1 .. ringCount : ring[Slot(ringPos, Slots - j, Slots)] \in Lines

LEMMA FullTick ==
  ASSUME FullInv, NEW line \in Lines
  PROVE  /\ NextRing(line) \in [0 .. Slots - 1 -> Lines \cup {Silent}]
         /\ NextPos \in 0 .. Slots - 1 /\ NextCount \in 0 .. Slots
         /\ \A j \in 1 .. NextCount : NextRing(line)[Slot(NextPos, Slots - j, Slots)] \in Lines
<1>1. NextRing(line) \in [0 .. Slots - 1 -> Lines \cup {Silent}]
  BY DEF FullInv, NextRing
<1>2. ringPos \in 0 .. Slots - 1 /\ ringCount \in 0 .. Slots
  BY DEF FullInv
<1>3. NextPos \in 0 .. Slots - 1 /\ NextCount \in 0 .. Slots
  BY <1>2, DetectorSizesAssumption DEF NextPos, NextCount, Advance
<1>4. ASSUME NEW j \in 1 .. NextCount
      PROVE  NextRing(line)[Slot(NextPos, Slots - j, Slots)] \in Lines
  <2> DEFINE k == Slot(NextPos, Slots - j, Slots)
             next == [ring EXCEPT ![ringPos] = line]
  <2> SUFFICES next[k] \in Lines
    BY DEF NextRing
  <2>1. j \in 1 .. Slots
    BY <1>3, DetectorSizesAssumption
  <2>2. /\ k \in 0 .. Slots - 1
        /\ j = 1 => k = ringPos
        /\ j > 1 => k = Slot(ringPos, Slots - (j - 1), Slots) /\ k # ringPos
    BY <1>2, <2>1, SlotBefore DEF NextPos
  <2> HIDE DEF k
  <2>3. next[ringPos] = line /\ \A i \in 0 .. Slots - 1 : i # ringPos => next[i] = ring[i]
    BY <1>2 DEF FullInv
  <2> HIDE DEF next
  <2>4. CASE j = 1
    BY <2>2, <2>3, <2>4
  <2>5. CASE j > 1
    <3>1. j - 1 \in 1 .. ringCount
      BY <1>2, <2>5, DetectorSizesAssumption DEF NextCount
    <3>2. ring[k] \in Lines
      BY <2>2, <2>5, <3>1 DEF FullInv
    <3>3. QED
      BY <2>2, <2>3, <2>5, <3>2
  <2>6. QED
    BY <2>1, <2>4, <2>5
<1>5. QED
  BY <1>1, <1>3, <1>4

\* A full ring's columns are windows of the table.
LEMMA ColumnType ==
  ASSUME FullInv, NEW line \in Lines, NextCount = Slots, NEW b \in Bands
  PROVE  Column(NextRing(line), NextPos, b) \in Windows
<1>1. ASSUME NEW i \in 1 .. Slots
      PROVE  NextRing(line)[Slot(NextPos, i - 1, Slots)][b] \in Levels
  <2> DEFINE j == Slots + 1 - i
  <2>1. j \in 1 .. NextCount /\ Slots - j = i - 1
    BY DetectorSizesAssumption
  <2> HIDE DEF j
  <2>2. NextRing(line)[Slot(NextPos, Slots - j, Slots)] \in Lines
    BY <2>1, FullTick
  <2>3. NextRing(line)[Slot(NextPos, Slots - j, Slots)] \in [Bands -> Levels]
    BY <2>2, LinesType
  <2>4. QED
    BY <2>1, <2>3
<1>2. QED
  BY <1>1 DEF Column, Windows, Levels, Bands

\* The bands that grow at a tick, and what they have risen, as decide() has them
\* inside.
Growing(heard) ==
  {b \in heard.gate : NextCount = Slots /\ Climbs(Column(NextRing(heard.line), NextPos, b))}

SlopeOf(heard, b) == Fit(Column(NextRing(heard.line), NextPos, b)).slope

Risen(heard) ==
  [b \in Bands |-> IF b \in Growing(heard) THEN Capped(Inherited(rise, b) + SlopeOf(heard, b)) ELSE 0]

LEMMA GrowthType ==
  ASSUME FullInv, NEW heard \in Ticks, NEW b \in Growing(heard)
  PROVE  b \in Bands /\ SlopeOf(heard, b) \in Nat /\ SlopeOf(heard, b) >= GrowthTick
<1> DEFINE y == Column(NextRing(heard.line), NextPos, b)
<1>1. b \in heard.gate /\ NextCount = Slots /\ Climbs(y)
  BY DEF Growing
<1>2. heard.line \in Lines /\ heard.gate \subseteq Bands
  BY HeardType DEF Ticks, Heard
<1>3. y \in Windows
  BY <1>1, <1>2, ColumnType
<1>4. SlopeOf(heard, b) = Fit(y).slope
  BY DEF SlopeOf
<1> HIDE DEF y
<1>5. Fit(y).slope \in Int
  BY <1>3, FitType
<1>6. Fit(y).slope >= GrowthTick
  BY <1>1 DEF Climbs
<1>7. QED
  BY <1>1, <1>2, <1>4, <1>5, <1>6, DetectorGrowthAssumption

LEMMA InheritedType ==
  ASSUME NEW r \in [Bands -> 0 .. Rise], NEW b \in Bands
  PROVE  \E k \in Near(b) : /\ k \in Bands /\ Inherited(r, b) = r[k]
                            /\ \A j \in Near(b) : r[j] <= r[k]
<1>1. \A k \in Near(b) : k \in Bands /\ r[k] \in Int
  BY NearType
<1>2. QED
  BY <1>1, MaxNear DEF Inherited

LEMMA RisenType ==
  ASSUME FullInv, rise \in [Bands -> 0 .. Rise], NEW heard \in Ticks
  PROVE  Risen(heard) \in [Bands -> 0 .. Rise]
<1>1. ASSUME NEW b \in Bands
      PROVE  (IF b \in Growing(heard) THEN Capped(Inherited(rise, b) + SlopeOf(heard, b)) ELSE 0) \in 0 .. Rise
  <2>1. CASE b \in Growing(heard)
    <3>1. SlopeOf(heard, b) \in Nat
      BY <2>1, GrowthType
    <3>2. Inherited(rise, b) \in Nat
      BY InheritedType
    <3> DEFINE x == Inherited(rise, b) + SlopeOf(heard, b)
    <3>3. x \in Nat
      BY <3>1, <3>2
    <3> HIDE DEF x
    <3>4. Capped(x) \in 0 .. Rise
      BY <3>3, DetectorGrowthAssumption DEF Capped
    <3>5. QED
      BY <2>1, <3>4 DEF x
  <2>2. CASE b \notin Growing(heard)
    BY <2>2, DetectorGrowthAssumption
  <2>3. QED
    BY <2>1, <2>2
<1>2. QED
  BY <1>1 DEF Risen

\* A tracker of powers gives a power.
TracksPowers == \A p \in Nat \ {0}, pw \in Powers : Track(p, pw) \in Nat \ {0}

TypeInv == FullInv /\ DetectorTypeOK /\ rise \in [Bands -> 0 .. Rise]

\* What decide() changes besides its verdict.
LEMMA DecideParts ==
  ASSUME NEW heard, NEW pw, Decide(heard, pw)
  PROVE  /\ ring' = NextRing(heard.line) /\ ringPos' = NextPos /\ ringCount' = NextCount
         /\ rise' = Risen(heard)
         /\ program' = Tracked(Growing(heard) # {}, pw)
  BY DEF Decide, NextRing, NextPos, NextCount, Risen, Growing, SlopeOf

LEMMA DecideTyped ==
  ASSUME TracksPowers, TypeInv, NEW heard \in Ticks, NEW pw \in Powers, Decide(heard, pw)
  PROVE  TypeInv'
<1>1. /\ ring' = NextRing(heard.line) /\ ringPos' = NextPos /\ ringCount' = NextCount
      /\ rise' = Risen(heard) /\ program' = Tracked(Growing(heard) # {}, pw)
  BY DecideParts
<1>2. FullInv'
  <2>1. heard.line \in Lines /\ FullInv
    BY HeardType DEF TypeInv
  <2>2. /\ NextRing(heard.line) \in [0 .. Slots - 1 -> Lines \cup {Silent}]
        /\ NextPos \in 0 .. Slots - 1 /\ NextCount \in 0 .. Slots
        /\ \A j \in 1 .. NextCount : NextRing(heard.line)[Slot(NextPos, Slots - j, Slots)] \in Lines
    BY <2>1, FullTick
  <2>3. QED
    BY <1>1, <2>2 DEF FullInv
<1>3. rise' \in [Bands -> 0 .. Rise]
  BY <1>1, RisenType DEF TypeInv
<1>4. program' \in Nat
  <2> DEFINE p == IF program = 0 THEN pw ELSE program
  <2>1. pw \in Nat \ {0} /\ program \in Nat
    BY DetectorInputsAssumption DEF TypeInv, DetectorTypeOK
  <2>2. p \in Nat \ {0}
    BY <2>1
  <2>3. program' = p \/ program' = Track(p, pw)
    BY <1>1 DEF Tracked
  <2> HIDE DEF p
  <2>4. QED
    BY <2>2, <2>3 DEF TracksPowers
<1>5. PICK verdict : /\ verdict \in Paths /\ trigger' = verdict
                     /\ holdLeft' = Held(verdict # "none")
                     /\ tripped' = (verdict # "none" \/ holdLeft > 0)
  <2>1. \A top : Verdict(top, heard.loud, pw) \in Paths
    BY DEF Verdict, Paths
  <2> HIDE DEF Paths
  <2>2. \E top : /\ trigger' = Verdict(top, heard.loud, pw)
                 /\ holdLeft' = Held(Verdict(top, heard.loud, pw) # "none")
                 /\ tripped' = (Verdict(top, heard.loud, pw) # "none" \/ holdLeft > 0)
    BY DEF Decide
  <2>3. QED
    BY <2>1, <2>2
<1>6. holdLeft' \in 0 .. HoldTicks
  <2>1. holdLeft \in 0 .. HoldTicks /\ HoldTicks \in Nat
    BY DetectorSizesAssumption DEF TypeInv, DetectorTypeOK
  <2>2. CASE verdict # "none"
    BY <1>5, <2>1, <2>2 DEF Held
  <2>3. CASE verdict = "none"
    <3>1. holdLeft' = IF holdLeft > 0 THEN holdLeft - 1 ELSE 0
      BY <1>5, <2>3 DEF Held
    <3>2. QED
      BY <2>1, <3>1
  <2>4. QED
    BY <2>2, <2>3
<1>7. tripped' \in BOOLEAN
  BY <1>5
<1>8. ring' \in [0 .. Slots - 1 -> [Bands -> Nat]]
  <2>1. Lines \subseteq [Bands -> Nat] /\ Silent \in [Bands -> Nat]
    BY LinesType DEF Silent
  <2>2. QED
    BY <1>2, <2>1 DEF FullInv
<1>9. rise' \in [Bands -> Nat]
  BY <1>3, DetectorGrowthAssumption
<1>10. QED
  BY <1>2, <1>3, <1>4, <1>5, <1>6, <1>7, <1>8, <1>9 DEF TypeInv, DetectorTypeOK, FullInv

\* A detector as constructed, or reset.
LEMMA ClearedTyped ==
  ASSUME NEW r, r = [k \in 0 .. Slots - 1 |-> Silent]
  PROVE  /\ r \in [0 .. Slots - 1 -> Lines \cup {Silent}] /\ r \in [0 .. Slots - 1 -> [Bands -> Nat]]
         /\ 0 \in 0 .. Slots - 1 /\ 0 \in 0 .. Slots /\ 0 \in 0 .. HoldTicks
         /\ Silent \in [Bands -> 0 .. Rise] /\ Silent \in [Bands -> Nat]
<1>1. 0 \in 0 .. Slots - 1 /\ 0 \in 0 .. Slots /\ 0 \in 0 .. HoldTicks /\ 0 \in 0 .. Rise
  BY DetectorSizesAssumption, DetectorGrowthAssumption
<1>2. Silent \in [Bands -> 0 .. Rise] /\ Silent \in [Bands -> Nat]
  BY <1>1 DEF Silent
<1>3. QED
  BY <1>1, <1>2

\* The ring, its position and count, the integrals and the hold stay in range
\* through fills, wraps and resets, for any bank, window and thresholds and any
\* tracker of powers; the integrals up to the cap (decide(), reset()).
THEOREM DetectorTypeCorrect == ASSUME TracksPowers PROVE DetectorSpec => []DetectorTypeOK
<1>1. DetectorInit => TypeInv
  <2> SUFFICES ASSUME DetectorInit PROVE TypeInv
    OBVIOUS
  <2>1. /\ ring = [k \in 0 .. Slots - 1 |-> Silent] /\ ringPos = 0 /\ ringCount = 0
        /\ rise = Silent /\ program = 0 /\ holdLeft = 0 /\ trigger = "none" /\ tripped = FALSE
    BY DEF DetectorInit
  <2>2. 1 .. 0 = {}
    OBVIOUS
  <2>3. FullInv
    BY <2>1, <2>2, ClearedTyped DEF FullInv
  <2>4. DetectorTypeOK
    BY <2>1, ClearedTyped DEF DetectorTypeOK, Paths
  <2>5. QED
    BY <2>1, <2>3, <2>4, ClearedTyped DEF TypeInv
<1>2. TypeInv /\ [DetectorNext]_detectorVars => TypeInv'
  <2> SUFFICES ASSUME TypeInv, [DetectorNext]_detectorVars PROVE TypeInv'
    OBVIOUS
  <2>1. CASE \E heard \in Ticks, pw \in Powers : Decide(heard, pw)
    BY <2>1, DecideTyped
  <2>2. CASE Cleared
    <3>1. /\ ring' = [k \in 0 .. Slots - 1 |-> Silent] /\ ringPos' = 0 /\ ringCount' = 0
          /\ rise' = Silent /\ program' = 0 /\ holdLeft' = 0 /\ trigger' = "none" /\ tripped' = FALSE
      BY <2>2 DEF Cleared
    <3>2. 1 .. 0 = {}
      OBVIOUS
    <3>3. FullInv'
      BY <3>1, <3>2, ClearedTyped DEF FullInv
    <3>4. DetectorTypeOK'
      BY <3>1, ClearedTyped DEF DetectorTypeOK, Paths
    <3>5. QED
      BY <3>1, <3>3, <3>4, ClearedTyped DEF TypeInv
  <2>3. CASE UNCHANGED detectorVars
    BY <2>3 DEF detectorVars, TypeInv, FullInv, DetectorTypeOK
  <2>4. QED
    BY <2>1, <2>2, <2>3 DEF DetectorNext
<1>3. TypeInv => DetectorTypeOK
  BY DEF TypeInv
<1>4. QED
  BY <1>1, <1>2, <1>3, PTL DEF DetectorSpec

-------------------------------------------------------------------------------
(* The rise is of one line.  A walk of the ticks after one more tick is a walk of
   the ticks before it, extended to a neighbour: what a band inherits.  A walk
   whose first tick the history drops has RiseTicks ticks left, and so has
   reached Rise with or without it. *)

\* What a tick adds to a band: nothing, or at least GrowthTick.
Slopes == {x \in Nat : x = 0 \/ x >= GrowthTick}

Slow == [Bands -> Slopes]

\* The walks of the ticks g from tick t on that end at band b, and their climb.
WalksFrom(g, t, b) ==
  {w \in [t .. Len(g) -> Bands] :
     /\ w[Len(g)] = b
     /\ \A i \in t .. Len(g) : g[i][w[i]] > 0
     /\ \A i \in t+1 .. Len(g) : w[i] - w[i - 1] \in -1 .. 1}

ClimbFrom(g, t, w) == SumFunctionOnSet([i \in t .. Len(g) |-> g[i][w[i]]], t .. Len(g))

Followed(g, r) ==
  \A b \in Bands :
    /\ \A t \in 1 .. Len(g) : \A w \in WalksFrom(g, t, b) : Capped(ClimbFrom(g, t, w)) <= r[b]
    /\ r[b] # 0 => \E t \in 1 .. Len(g) : \E w \in WalksFrom(g, t, b) :
                     Capped(ClimbFrom(g, t, w)) = r[b]

LEMMA FollowedIsOneLine == Followed(grown, rise) => RiseIsOfOneLine
<1> SUFFICES ASSUME Followed(grown, rise), NEW b \in Bands
             PROVE  /\ \A w \in Walks(b) : Capped(Climb(w)) <= rise[b]
                    /\ rise[b] # 0 => \E w \in Walks(b) : Capped(Climb(w)) = rise[b]
  BY DEF RiseIsOfOneLine
<1>1. \A w : w \in Walks(b) <=> \E t \in 1 .. Len(grown) : w \in WalksFrom(grown, t, b)
  BY DEF Walks, WalksFrom
<1>2. ASSUME NEW t \in 1 .. Len(grown), NEW w \in WalksFrom(grown, t, b)
      PROVE  Climb(w) = ClimbFrom(grown, t, w)
  <2>1. DOMAIN w = t .. Len(grown)
    BY <1>2 DEF WalksFrom
  <2>2. QED
    BY <2>1 DEF Climb, ClimbFrom, SumFunction
<1>3. \A w \in Walks(b) : Capped(Climb(w)) <= rise[b]
  <2> TAKE w \in Walks(b)
  <2>1. PICK t \in 1 .. Len(grown) : w \in WalksFrom(grown, t, b)
    BY <1>1
  <2>2. Capped(ClimbFrom(grown, t, w)) <= rise[b]
    BY <2>1 DEF Followed
  <2>3. QED
    BY <1>2, <2>1, <2>2
<1>4. ASSUME rise[b] # 0 PROVE \E w \in Walks(b) : Capped(Climb(w)) = rise[b]
  <2>1. PICK t \in 1 .. Len(grown) :
               \E w \in WalksFrom(grown, t, b) : Capped(ClimbFrom(grown, t, w)) = rise[b]
    BY <1>4 DEF Followed
  <2>2. PICK w \in WalksFrom(grown, t, b) : Capped(ClimbFrom(grown, t, w)) = rise[b]
    BY <2>1
  <2>3. QED
    BY <1>1, <1>2, <2>2
<1>5. QED
  BY <1>3, <1>4

LEMMA RiseTicksType ==
  RiseTicks \in Nat /\ RiseTicks >= 1 /\ RiseTicks * GrowthTick >= Rise
<1>1. GrowthTick \in Nat /\ GrowthTick >= 1 /\ Rise \in Nat /\ Rise >= 1
  BY DetectorGrowthAssumption
<1> DEFINE a == Rise + GrowthTick - 1
           d == a \div GrowthTick
<1>2. d \in Nat /\ GrowthTick * d <= a /\ a < GrowthTick * d + GrowthTick
  <2>1. a \in Nat
    BY <1>1
  <2> HIDE DEF a
  <2>2. d \in Nat /\ a = GrowthTick * d + (a % GrowthTick) /\ a % GrowthTick \in 0 .. (GrowthTick - 1)
    BY <1>1, <2>1, Z3
  <2> HIDE DEF d
  <2>3. QED
    BY <1>1, <2>1, <2>2
<1> HIDE DEF d
<1>3. GrowthTick * d >= Rise /\ GrowthTick * d = d * GrowthTick
  BY <1>1, <1>2
<1>4. d # 0
  BY <1>1, <1>3
<1>5. QED
  BY <1>2, <1>3, <1>4 DEF RiseTicks, d

\* The ticks q are the last ones of g followed by s: all of them (o = 0), or all
\* but the first (o = 1).
Follows(g, s, q, o) ==
  /\ g \in Seq(Slow) /\ s \in Slow /\ q \in Seq(Slow)
  /\ o \in 0 .. 1 /\ Len(q) = Len(g) + 1 - o /\ Len(q) >= 1
  /\ q[Len(q)] = s
  /\ \A i \in 1 .. Len(q) - 1 : q[i] = g[i + o]
  /\ o = 1 => Len(q) = RiseTicks

LEMMA LastFollows ==
  ASSUME NEW g \in Seq(Slow), Len(g) <= RiseTicks, NEW s \in Slow
  PROVE  \E o : Follows(g, s, Last(Append(g, s), RiseTicks), o)
<1> DEFINE a == Append(g, s)
           q == Last(a, RiseTicks)
           o == Len(g) + 1 - Len(q)
<1>0. RiseTicks \in Nat /\ RiseTicks >= 1
  BY RiseTicksType
<1>1. a \in Seq(Slow) /\ Len(a) = Len(g) + 1 /\ a[Len(a)] = s /\ \A i \in 1 .. Len(g) : a[i] = g[i]
  OBVIOUS
<1>2. /\ q \in Seq(Slow) /\ Len(q) = IF Len(a) <= RiseTicks THEN Len(a) ELSE RiseTicks
      /\ \A j \in 1 .. RiseTicks : j <= Len(a) => j <= Len(q) /\ q[Len(q) + 1 - j] = a[Len(a) + 1 - j]
  <2> HIDE DEF a
  <2>1. QED
    BY <1>0, <1>1, LastKeeps
<1> HIDE DEF a, q
<1>3. Len(g) \in Nat /\ o \in 0 .. 1 /\ Len(q) \in 1 .. RiseTicks /\ (o = 1 => Len(q) = RiseTicks)
  BY <1>0, <1>1, <1>2
<1>4. q[Len(q)] = s
  <2>1. 1 \in 1 .. RiseTicks /\ 1 <= Len(a) /\ Len(a) + 1 - 1 = Len(a) /\ Len(q) + 1 - 1 = Len(q)
    BY <1>0, <1>1, <1>3
  <2>2. QED
    BY <1>1, <1>2, <2>1
<1>5. ASSUME NEW i \in 1 .. Len(q) - 1 PROVE q[i] = g[i + o]
  <2> DEFINE j == Len(q) + 1 - i
  <2>1. j \in 1 .. RiseTicks /\ j <= Len(a) /\ Len(a) + 1 - j = i + o /\ Len(q) + 1 - j = i
    BY <1>0, <1>1, <1>3
  <2>2. i + o \in 1 .. Len(g)
    BY <1>3
  <2> HIDE DEF j, o
  <2>3. q[i] = a[i + o]
    BY <1>2, <2>1
  <2>4. QED
    BY <1>1, <2>2, <2>3
<1>6. Len(q) = Len(g) + 1 - o /\ Len(q) >= 1
  BY <1>3
<1> HIDE DEF o
<1>7. Follows(g, s, q, o)
  BY <1>2, <1>3, <1>4, <1>5, <1>6 DEF Follows
<1>8. QED
  BY <1>7 DEF a, q

\* The terms of a climb.
LEMMA ClimbType ==
  ASSUME NEW g \in Seq(Slow), NEW b, NEW t \in 1 .. Len(g), NEW w \in WalksFrom(g, t, b)
  PROVE  /\ \A i \in t .. Len(g) : w[i] \in Bands /\ g[i][w[i]] \in Nat /\ g[i][w[i]] >= GrowthTick
         /\ b \in Bands /\ w[Len(g)] = b
         /\ ClimbFrom(g, t, w) \in Nat /\ ClimbFrom(g, t, w) >= (Len(g) - t + 1) * GrowthTick
<1> DEFINE f == [i \in t .. Len(g) |-> g[i][w[i]]]
<1>1. ASSUME NEW i \in t .. Len(g)
      PROVE  w[i] \in Bands /\ g[i][w[i]] \in Nat /\ g[i][w[i]] >= GrowthTick
  <2>1. w[i] \in Bands /\ g[i][w[i]] > 0
    BY DEF WalksFrom
  <2>2. i \in 1 .. Len(g) /\ g[i] \in Slow
    OBVIOUS
  <2>3. g[i][w[i]] \in Slopes
    BY <2>1, <2>2 DEF Slow
  <2>4. QED
    BY <2>1, <2>3 DEF Slopes
<1>2. Len(g) \in t .. Len(g) /\ w[Len(g)] = b
  BY DEF WalksFrom
<1>3. \A i \in t .. Len(g) : f[i] \in Int /\ f[i] >= GrowthTick
  BY <1>1
<1> HIDE DEF f
<1>4. /\ SumFunctionOnSet(f, t .. Len(g)) \in Int
      /\ SumFunctionOnSet(f, t .. Len(g)) >= (Len(g) - t + 1) * GrowthTick
  <2>1. t \in Int /\ Len(g) \in Int /\ t <= Len(g) + 1 /\ GrowthTick \in Nat
    BY DetectorGrowthAssumption
  <2>2. QED
    BY <1>3, <2>1, SumAtLeast
<1>5. (Len(g) - t + 1) * GrowthTick \in Nat
  <2>1. Len(g) - t + 1 \in Nat /\ GrowthTick \in Nat
    BY DetectorGrowthAssumption
  <2>2. QED
    BY <2>1
<1>6. QED
  BY <1>1, <1>2, <1>4, <1>5 DEF ClimbFrom, f

\* A walk of the later ticks is one of the earlier ticks and a step.
Shorter(g, o, t, w) == [i \in t + o .. Len(g) |-> w[i - o]]

LEMMA WalkShorter ==
  ASSUME NEW g, NEW s, NEW q, NEW o, Follows(g, s, q, o),
         NEW b, NEW t \in 1 .. Len(q) - 1, NEW w \in WalksFrom(q, t, b)
  PROVE  /\ w[Len(q) - 1] \in Near(b) /\ t + o \in 1 .. Len(g)
         /\ Shorter(g, o, t, w) \in WalksFrom(g, t + o, w[Len(q) - 1])
         /\ ClimbFrom(q, t, w) = ClimbFrom(g, t + o, Shorter(g, o, t, w)) + s[b]
<1> DEFINE m == Len(q)
           n == Len(g)
           k == w[m - 1]
           v == [i \in t + o .. n |-> w[i - o]]
<1>1. /\ g \in Seq(Slow) /\ q \in Seq(Slow) /\ m \in Nat /\ n \in Nat /\ o \in 0 .. 1
      /\ m = n + 1 - o /\ t \in 1 .. m - 1 /\ t \in Int /\ o \in Int /\ q[m] = s
      /\ \A i \in 1 .. m - 1 : q[i] = g[i + o]
  BY DEF Follows
<1>2. /\ w \in [t .. m -> Bands] /\ w[m] = b
      /\ \A i \in t .. m : q[i][w[i]] > 0
      /\ \A i \in t+1 .. m : w[i] - w[i - 1] \in -1 .. 1
  BY DEF WalksFrom
<1> HIDE DEF m, n
<1>3. t + o \in 1 .. n /\ m - 1 \in t .. m /\ m \in t+1 .. m /\ m - 1 = n - o
  BY <1>1
<1>4. k \in Near(b)
  <2>1. k \in Bands /\ b \in Bands /\ b - k \in -1 .. 1
    BY <1>2, <1>3
  <2>2. k \in Int /\ b \in Int
    BY <2>1, DetectorSizesAssumption DEF Bands
  <2> HIDE DEF k
  <2>3. QED
    BY <2>1, <2>2 DEF Near
<1>5. ASSUME NEW i \in t + o .. n
      PROVE  i - o \in t .. m - 1 /\ i - o \in t .. m /\ v[i] = w[i - o] /\ q[i - o] = g[i] /\ g[i][v[i]] > 0
  <2>1. i - o \in t .. m - 1 /\ i - o \in t .. m /\ i - o \in 1 .. m - 1 /\ (i - o) + o = i
    BY <1>1
  <2>2. v[i] = w[i - o]
    OBVIOUS
  <2> HIDE DEF v
  <2>3. q[i - o] = g[i]
    BY <1>1, <2>1
  <2>4. q[i - o][w[i - o]] > 0
    BY <1>2, <2>1
  <2>5. QED
    BY <2>1, <2>2, <2>3, <2>4
<1>6. v \in WalksFrom(g, t + o, k)
  <2>1. v \in [t + o .. n -> Bands]
    BY <1>2, <1>5
  <2>2. v[n] = k
    BY <1>1, <1>3
  <2>3. ASSUME NEW i \in (t + o) + 1 .. n PROVE v[i] - v[i - 1] \in -1 .. 1
    <3>1. i \in t + o .. n /\ i - 1 \in t + o .. n /\ i - o \in t+1 .. m /\ (i - 1) - o = (i - o) - 1
      BY <1>1
    <3>2. v[i] = w[i - o] /\ v[i - 1] = w[(i - o) - 1]
      BY <1>5, <3>1
    <3>3. w[i - o] - w[(i - o) - 1] \in -1 .. 1
      BY <1>2, <3>1
    <3>4. QED
      BY <3>2, <3>3
  <2> HIDE DEF v, k
  <2>4. QED
    BY <1>5, <2>1, <2>2, <2>3 DEF WalksFrom, n
<1> DEFINE e == [i \in t .. m |-> q[i][w[i]]]
           f == [i \in t + o .. n |-> g[i][v[i]]]
<1>7. \A i \in t .. m : e[i] \in Int
  <2>1. t \in 1 .. Len(q)
    BY <1>1 DEF m
  <2>2. \A i \in t .. m : q[i][w[i]] \in Nat
    BY <1>1, <2>1, ClimbType DEF m
  <2>3. QED
    BY <2>2
<1>8. SumFunctionOnSet(e, t .. m) = SumFunctionOnSet(e, t .. (m - 1)) + s[b]
  <2>1. e[m] = s[b]
    BY <1>1, <1>2, <1>3
  <2>2. t <= m /\ m \in Int
    BY <1>1
  <2> HIDE DEF e
  <2>3. SumFunctionOnSet(e, t .. m) = SumFunctionOnSet(e, t .. (m - 1)) + e[m]
    BY <1>1, <1>7, <2>2, SumLast
  <2>4. QED
    BY <2>1, <2>3
<1>9. SumFunctionOnSet(e, t .. (m - 1)) = SumFunctionOnSet(f, t + o .. n)
  <2> DEFINE u == t + o
  <2>1. Renumbered(f, u, n, e, o)
    <3> SUFFICES ASSUME NEW i \in u .. n PROVE f[i] \in Int /\ e[i - o] = f[i]
      BY DEF Renumbered
    <3>1. i - o \in t .. m /\ v[i] = w[i - o] /\ q[i - o] = g[i]
      BY <1>5
    <3>2. f[i] = g[i][v[i]] /\ e[i - o] = q[i - o][w[i - o]]
      BY <3>1
    <3> HIDE DEF e, f, v
    <3>3. e[i - o] = f[i] /\ e[i - o] \in Int
      BY <1>7, <3>1, <3>2
    <3>4. QED
      BY <3>3
  <2>2. u \in Int /\ n \in Int /\ u <= n + 1 /\ u - o = t /\ n - o = m - 1
    BY <1>1
  <2>3. o \in Int
    BY <1>1
  <2> HIDE DEF u, e, f
  <2>4. SumFunctionOnSet(e, (u - o) .. (n - o)) = SumFunctionOnSet(f, u .. n)
    BY <2>1, <2>2, <2>3, SumShifted
  <2>5. QED
    BY <2>2, <2>4 DEF u
<1>10. ClimbFrom(q, t, w) = SumFunctionOnSet(e, t .. m) /\ ClimbFrom(g, t + o, v) = SumFunctionOnSet(f, t + o .. n)
  BY DEF ClimbFrom, m, n
<1> HIDE DEF e, f
<1>11. ClimbFrom(q, t, w) = ClimbFrom(g, t + o, v) + s[b]
  BY <1>8, <1>9, <1>10
<1>12. v = Shorter(g, o, t, w)
  BY DEF Shorter, n
<1> HIDE DEF v
<1>13. QED
  BY <1>3, <1>4, <1>6, <1>11, <1>12 DEF m, n

\* A walk of the earlier ticks, or of the last of them, goes on to any neighbour
\* that grows.
LEMMA WalkLonger ==
  ASSUME NEW g, NEW s, NEW q, NEW o, Follows(g, s, q, o),
         NEW b \in Bands, s[b] > 0, NEW k \in Near(b),
         NEW u \in 1 .. Len(g), NEW v \in WalksFrom(g, u, k),
         NEW t \in 1 .. Len(q) - 1, t + o >= u
  PROVE  \E w \in WalksFrom(q, t, b) :
           t + o = u => ClimbFrom(q, t, w) = ClimbFrom(g, u, v) + s[b]
<1> DEFINE m == Len(q)
           n == Len(g)
           w == [i \in t .. m |-> IF i = m THEN b ELSE v[i + o]]
<1>1. /\ g \in Seq(Slow) /\ q \in Seq(Slow) /\ m \in Nat /\ n \in Nat /\ o \in 0 .. 1
      /\ m = n + 1 - o /\ t \in 1 .. m - 1 /\ u \in 1 .. n /\ t + o >= u /\ q[m] = s
      /\ \A i \in 1 .. m - 1 : q[i] = g[i + o]
  BY DEF Follows
<1>2. /\ v \in [u .. n -> Bands] /\ v[n] = k
      /\ \A i \in u .. n : g[i][v[i]] > 0
      /\ \A i \in u+1 .. n : v[i] - v[i - 1] \in -1 .. 1
  BY DEF WalksFrom
<1> HIDE DEF m, n
<1>3. w[m] = b /\ m \in t .. m
  BY <1>1
<1>4. ASSUME NEW i \in t .. m - 1
      PROVE  i \in t .. m /\ i \in 1 .. m - 1 /\ i + o \in u .. n /\ w[i] = v[i + o] /\ w[i] \in Bands
  <2>1. i \in t .. m /\ i \in 1 .. m - 1 /\ i + o \in u .. n /\ i # m
    BY <1>1
  <2>2. w[i] = v[i + o]
    BY <2>1
  <2>3. QED
    BY <1>2, <2>1, <2>2
<1>5. w \in WalksFrom(q, t, b)
  <2>1. \A i \in t .. m : i = m \/ i \in t .. m - 1
    BY <1>1
  <2>2. w \in [t .. m -> Bands]
    <3>1. \A i \in t .. m : w[i] \in Bands
      BY <1>3, <1>4, <2>1
    <3>2. QED
      BY <3>1
  <2> HIDE DEF w
  <2>3. ASSUME NEW i \in t .. m PROVE q[i][w[i]] > 0
    <3>1. CASE i = m
      BY <1>1, <1>3, <3>1
    <3>2. CASE i \in t .. m - 1
      <4>1. q[i] = g[i + o] /\ w[i] = v[i + o] /\ i + o \in u .. n
        BY <1>1, <1>4, <3>2
      <4>2. QED
        BY <1>2, <4>1
    <3>3. QED
      BY <2>1, <3>1, <3>2
  <2>4. ASSUME NEW i \in t+1 .. m PROVE w[i] - w[i - 1] \in -1 .. 1
    <3>1. CASE i = m
      <4>1. m - 1 \in t .. m - 1 /\ (m - 1) + o = n
        BY <1>1
      <4>2. w[i - 1] = k /\ w[i] = b
        BY <1>2, <1>3, <1>4, <3>1, <4>1
      <4>3. k \in Bands /\ k - b \in -1 .. 1
        BY DEF Near
      <4>4. k \in Int /\ b \in Int
        BY <4>3, DetectorSizesAssumption DEF Bands
      <4>5. QED
        BY <4>2, <4>3, <4>4
    <3>2. CASE i \in t .. m - 1
      <4>1. i - 1 \in t .. m - 1 /\ i + o \in u+1 .. n /\ (i - 1) + o = (i + o) - 1
        BY <1>1, <3>2
      <4>2. w[i] = v[i + o] /\ w[i - 1] = v[(i + o) - 1]
        BY <1>4, <3>2, <4>1
      <4>3. v[i + o] - v[(i + o) - 1] \in -1 .. 1
        BY <1>2, <4>1
      <4>4. QED
        BY <4>2, <4>3
    <3>3. i \in t .. m
      BY <1>1
    <3>4. QED
      BY <2>1, <3>1, <3>2, <3>3
  <2>5. QED
    BY <1>3, <2>2, <2>3, <2>4 DEF WalksFrom, m
<1>6. ASSUME t + o = u PROVE ClimbFrom(q, t, w) = ClimbFrom(g, u, v) + s[b]
  <2> DEFINE x == Shorter(g, o, t, w)
  <2>1. ASSUME NEW i \in u .. n PROVE w[i - o] = v[i]
    <3>1. i - o \in t .. m - 1 /\ (i - o) + o = i
      BY <1>1, <1>6
    <3> HIDE DEF w
    <3>2. w[i - o] = v[(i - o) + o]
      BY <1>4, <3>1
    <3>3. QED
      BY <3>1, <3>2
  <2> HIDE DEF w
  <2>2. x = v
    BY <1>2, <1>6, <2>1 DEF Shorter, n
  <2>3. ClimbFrom(q, t, w) = ClimbFrom(g, t + o, x) + s[b]
    <3>1. t \in 1 .. Len(q) - 1 /\ w \in WalksFrom(q, t, b)
      BY <1>5
    <3>2. QED
      BY <3>1, WalkShorter
  <2> HIDE DEF x
  <2>4. QED
    BY <1>6, <2>2, <2>3
<1> HIDE DEF w
<1>7. QED
  BY <1>5, <1>6

\* What the code makes of one more tick follows the lines of the ticks kept.
LEMMA FollowedOn ==
  ASSUME NEW g, NEW s, NEW q, NEW o, Follows(g, s, q, o),
         NEW r \in [Bands -> 0 .. Rise], Followed(g, r),
         NEW z, z = [b \in Bands |-> IF s[b] > 0 THEN Capped(Inherited(r, b) + s[b]) ELSE 0]
  PROVE  Followed(q, z)
<1> DEFINE m == Len(q)
           n == Len(g)
<1>1. /\ g \in Seq(Slow) /\ q \in Seq(Slow) /\ m \in Nat /\ n \in Nat /\ o \in 0 .. 1
      /\ m = n + 1 - o /\ m >= 1 /\ s \in Slow /\ q[m] = s /\ (o = 1 => m = RiseTicks)
  BY DEF Follows
<1>2. Rise \in Nat /\ Rise >= 1 /\ GrowthTick \in Nat /\ GrowthTick >= 1
  BY DetectorGrowthAssumption
<1> HIDE DEF m, n
<1>3. \A b \in Bands : s[b] \in Nat
  BY <1>1 DEF Slow, Slopes
<1>4. ASSUME NEW b \in Bands, NEW t \in 1 .. m, NEW w \in WalksFrom(q, t, b)
      PROVE  Capped(ClimbFrom(q, t, w)) <= z[b]
  <2>1. q[m][b] > 0 /\ m \in t .. m
    BY <1>1 DEF WalksFrom, m
  <2>2. z[b] = Capped(Inherited(r, b) + s[b]) /\ s[b] \in Nat /\ s[b] > 0
    BY <1>1, <1>3, <2>1
  <2>3. PICK p \in Near(b) : /\ p \in Bands /\ Inherited(r, b) = r[p]
                             /\ \A j \in Near(b) : r[j] <= r[p]
    BY InheritedType
  <2>4. r[p] \in 0 .. Rise
    BY <2>3
  <2>5. CASE t = m
    <3> DEFINE e == [i \in t .. m |-> q[i][w[i]]]
    <3>1. w[m] = b
      BY DEF WalksFrom, m
    <3>2. e[m] = s[b] /\ e[m] \in Int /\ t .. m = m .. m /\ m \in Int
      BY <1>1, <2>2, <2>5, <3>1
    <3>3. ClimbFrom(q, t, w) = SumFunctionOnSet(e, t .. m)
      BY DEF ClimbFrom, m
    <3> HIDE DEF e
    <3>4. SumFunctionOnSet(e, m .. m) = e[m]
      BY <3>2, SumOne
    <3>5. ClimbFrom(q, t, w) = s[b]
      BY <3>2, <3>3, <3>4
    <3>6. QED
      BY <1>2, <2>2, <2>3, <2>4, <3>5 DEF Capped
  <2>6. CASE t \in 1 .. m - 1
    <3> DEFINE k == w[Len(q) - 1]
               v == Shorter(g, o, t, w)
    <3>1. /\ k \in Near(b) /\ t + o \in 1 .. n /\ v \in WalksFrom(g, t + o, k)
          /\ ClimbFrom(q, t, w) = ClimbFrom(g, t + o, v) + s[b]
      <4>1. t \in 1 .. Len(q) - 1
        BY <2>6 DEF m
      <4>2. QED
        BY <4>1, WalkShorter DEF n
    <3> HIDE DEF k, v
    <3> DEFINE c == ClimbFrom(g, t + o, v)
    <3>2. c \in Nat
      BY <1>1, <3>1, ClimbType DEF n
    <3>3. k \in Bands
      BY <3>1 DEF Near
    <3>4. Capped(c) <= r[k]
      BY <3>1, <3>3 DEF Followed, n
    <3>5. r[k] <= r[p] /\ r[k] \in 0 .. Rise
      BY <2>3, <3>1, <3>3
    <3>6. ClimbFrom(q, t, w) = c + s[b]
      BY <3>1
    <3> HIDE DEF c
    <3>7. Capped(c + s[b]) <= Capped(r[p] + s[b])
      BY <1>2, <2>2, <2>4, <3>2, <3>4, <3>5 DEF Capped
    <3>8. QED
      BY <2>2, <2>3, <3>6, <3>7
  <2>7. QED
    BY <1>1, <2>5, <2>6
<1>5. ASSUME NEW b \in Bands, z[b] # 0
      PROVE  \E t \in 1 .. m : \E w \in WalksFrom(q, t, b) : Capped(ClimbFrom(q, t, w)) = z[b]
  <2>1. s[b] > 0 /\ s[b] \in Nat /\ z[b] = Capped(Inherited(r, b) + s[b])
    BY <1>3, <1>5
  <2>2. PICK p \in Near(b) : p \in Bands /\ Inherited(r, b) = r[p]
    BY InheritedType
  <2>3. r[p] \in 0 .. Rise
    BY <2>2
  <2>4. CASE r[p] = 0
    <3> DEFINE w == [i \in m .. m |-> b]
               e == [i \in m .. m |-> q[i][w[i]]]
    <3>1. m .. m = {m} /\ m + 1 .. m = {} /\ m \in 1 .. m
      BY <1>1
    <3>2. w \in WalksFrom(q, m, b)
      <4>1. w \in [m .. m -> Bands] /\ w[m] = b
        BY <3>1
      <4>2. \A i \in m .. m : q[i][w[i]] > 0
        BY <1>1, <2>1, <3>1
      <4> HIDE DEF w
      <4>3. QED
        BY <3>1, <4>1, <4>2 DEF WalksFrom, m
    <3>3. e[m] = s[b] /\ e[m] \in Int /\ m \in Int
      BY <1>1, <2>1, <3>1
    <3>4. ClimbFrom(q, m, w) = SumFunctionOnSet(e, m .. m)
      BY DEF ClimbFrom, m
    <3> HIDE DEF e, w
    <3>5. SumFunctionOnSet(e, m .. m) = e[m]
      BY <3>3, SumOne
    <3>6. ClimbFrom(q, m, w) = s[b]
      BY <3>3, <3>4, <3>5
    <3>7. Capped(ClimbFrom(q, m, w)) = z[b]
      BY <2>1, <2>2, <2>4, <3>6
    <3>8. QED
      BY <3>1, <3>2, <3>7
  <2>5. CASE r[p] # 0
    <3>0. PICK u \in 1 .. n : \E v \in WalksFrom(g, u, p) : Capped(ClimbFrom(g, u, v)) = r[p]
      BY <2>2, <2>5 DEF Followed, n
    <3>1. PICK v \in WalksFrom(g, u, p) : Capped(ClimbFrom(g, u, v)) = r[p]
      BY <3>0
    <3> DEFINE c == ClimbFrom(g, u, v)
    <3>2. c \in Nat /\ c >= (n - u + 1) * GrowthTick
      BY <1>1, <3>1, ClimbType DEF n
    <3>3. z[b] = Capped(r[p] + s[b])
      BY <2>1, <2>2
    <3>4. CASE u - o >= 1
      <4> DEFINE t == u - o
      <4>1. t \in 1 .. m - 1 /\ t \in 1 .. m /\ t + o = u
        BY <1>1, <3>4
      <4> HIDE DEF t
      <4>2. PICK w \in WalksFrom(q, t, b) : ClimbFrom(q, t, w) = c + s[b]
        BY <2>1, <2>2, <3>1, <4>1, WalkLonger DEF m, n
      <4> HIDE DEF c
      <4>3. Capped(c + s[b]) = Capped(r[p] + s[b])
        <5>1. Capped(c) = r[p]
          BY <3>1 DEF c
        <5>2. QED
          BY <1>2, <2>1, <2>3, <3>2, <5>1 DEF Capped
      <4>4. QED
        BY <3>3, <4>1, <4>2, <4>3
    <3>5. CASE ~ (u - o >= 1)
      <4>1. u = 1 /\ o = 1 /\ m = n /\ m = RiseTicks /\ m \in Nat
        BY <1>1, <3>5
      <4>2. RiseTicks * GrowthTick >= Rise /\ RiseTicks * GrowthTick \in Nat
        BY <1>2, RiseTicksType
      <4>3. n - u + 1 = RiseTicks /\ m - 1 + 1 = RiseTicks
        BY <4>1
      <4>4. c >= Rise
        BY <1>2, <3>2, <4>2, <4>3
      <4>5. r[p] = Rise
        BY <1>2, <3>1, <3>2, <4>4 DEF Capped
      <4>6. z[b] = Rise
        BY <1>2, <2>1, <3>3, <4>5 DEF Capped
      <4>7. \E w \in WalksFrom(q, 1, b) : TRUE
        <5>1. CASE m = 1
          <6> DEFINE w == [i \in 1 .. m |-> b]
          <6>1. w \in [1 .. m -> Bands] /\ w[m] = b /\ 1 .. m = {1} /\ 1 + 1 .. m = {}
            BY <5>1
          <6>2. \A i \in 1 .. m : q[i][w[i]] > 0
            BY <1>1, <2>1, <5>1, <6>1
          <6> HIDE DEF w
          <6>3. w \in WalksFrom(q, 1, b)
            BY <6>1, <6>2 DEF WalksFrom, m
          <6>4. QED
            BY <6>3
        <5>2. CASE m # 1
          <6>1. 1 \in 1 .. m - 1 /\ 1 + o >= u
            BY <1>1, <4>1, <5>2
          <6>2. \E w \in WalksFrom(q, 1, b) : 1 + o = u => ClimbFrom(q, 1, w) = ClimbFrom(g, u, v) + s[b]
            BY <2>1, <2>2, <3>1, <6>1, WalkLonger DEF m, n
          <6>3. QED
            BY <6>2
        <5>3. QED
          BY <5>1, <5>2
      <4>8. PICK w \in WalksFrom(q, 1, b) : TRUE
        BY <4>7
      <4>9. 1 \in 1 .. m
        BY <1>1
      <4>10. ClimbFrom(q, 1, w) \in Nat /\ ClimbFrom(q, 1, w) >= (m - 1 + 1) * GrowthTick
        BY <1>1, <4>8, <4>9, ClimbType DEF m
      <4>11. ClimbFrom(q, 1, w) >= Rise
        BY <1>2, <4>2, <4>3, <4>10
      <4>12. Capped(ClimbFrom(q, 1, w)) = Rise
        BY <1>2, <4>10, <4>11 DEF Capped
      <4>13. QED
        BY <4>6, <4>8, <4>9, <4>12
    <3>6. QED
      BY <3>4, <3>5
  <2>6. QED
    BY <2>4, <2>5
<1>6. QED
  BY <1>4, <1>5 DEF Followed, m

\* The window is full in the history as soon as the ring is.
Remembered == ringCount <= Len(lines) \/ Len(lines) >= Slots - 1

RiseInv ==
  /\ RingInv /\ FullInv /\ Remembered
  /\ rise \in [Bands -> 0 .. Rise]
  /\ grown \in Seq(Slow) /\ Len(grown) <= RiseTicks
  /\ Followed(grown, rise)

\* The slopes of the history are those of the code.
LEMMA SlopesAgree ==
  ASSUME RingInv, FullInv, Remembered, NEW heard \in Ticks, NEW b \in Bands
  PROVE  SlopeNow(Seen(heard.line), heard.gate, b) = IF b \in Growing(heard) THEN SlopeOf(heard, b) ELSE 0
<1> DEFINE line == heard.line
           window == [i \in 1 .. Slots |-> Seen(line)[Len(Seen(line)) - Slots + i][b]]
           col == Column(NextRing(line), NextPos, b)
<1>1. line \in Lines
  BY HeardType
<1>2. Len(Seen(line)) = Len(lines) + 1 /\ Len(lines) \in Nat /\ (Len(Seen(line)) >= Slots => NextCount = Slots)
  BY <1>1, SeenInRing DEF RingInv
<1>3. SlopeNow(Seen(line), heard.gate, b) =
        IF Len(Seen(line)) >= Slots /\ b \in heard.gate /\ Climbs(window) THEN Fit(window).slope ELSE 0
  BY DEF SlopeNow
<1>4. /\ b \in Growing(heard) <=> b \in heard.gate /\ NextCount = Slots /\ Climbs(col)
      /\ SlopeOf(heard, b) = Fit(col).slope
  BY DEF Growing, SlopeOf
<1>5. CASE Len(Seen(line)) >= Slots
  <2>1. window = col
    BY <1>1, <1>5, WindowIsColumn
  <2> HIDE DEF window, col, line
  <2>2. QED
    BY <1>2, <1>3, <1>4, <1>5, <2>1 DEF line
<1>6. CASE ~ (Len(Seen(line)) >= Slots)
  <2>1. NextCount # Slots
    BY <1>2, <1>6, DetectorSizesAssumption DEF Remembered, RingInv, NextCount
  <2> HIDE DEF window, col
  <2>2. QED
    BY <1>3, <1>4, <1>6, <2>1
<1>7. QED
  BY <1>5, <1>6

LEMMA RememberedTick ==
  ASSUME RingInv, Remembered, NEW line \in Lines, NEW m \in Nat, m >= Slots - 1,
         ringCount' = NextCount, lines' = Last(Seen(line), m)
  PROVE  Remembered'
<1>1. Seen(line) \in Seq(Lines) /\ Len(Seen(line)) = Len(lines) + 1 /\ Len(lines) \in Nat
  BY SeenInRing DEF RingInv
<1>2. Len(lines') = IF Len(Seen(line)) <= m THEN Len(Seen(line)) ELSE m
  BY <1>1, LastKeeps
<1>3. ringCount \in 0 .. Slots /\ (ringCount' = ringCount + 1 \/ (ringCount >= Slots /\ ringCount' = ringCount))
  BY DetectorSizesAssumption DEF RingInv, NextCount
<1>4. QED
  BY <1>1, <1>2, <1>3, DetectorSizesAssumption DEF Remembered

LEMMA NothingFollowed ==
  /\ <<>> \in Seq(Slow) /\ Len(<<>>) <= RiseTicks /\ Silent \in [Bands -> 0 .. Rise]
  /\ Followed(<<>>, Silent)
<1>1. 1 .. Len(<<>>) = {} /\ Len(<<>>) = 0
  OBVIOUS
<1>2. \A b \in Bands : Silent[b] = 0
  BY DEF Silent
<1>3. Followed(<<>>, Silent)
  BY <1>1, <1>2 DEF Followed
<1>4. Silent \in [Bands -> 0 .. Rise]
  BY DetectorGrowthAssumption DEF Silent
<1>5. QED
  BY <1>1, <1>3, <1>4, RiseTicksType

LEMMA RiseTick ==
  ASSUME RiseInv, NEW heard \in Ticks, NEW pw \in Powers,
         Decide(heard, pw), HistoryDecide(heard, pw)
  PROVE  RiseInv'
<1> DEFINE line == heard.line
           s == [b \in Bands |-> SlopeNow(Seen(line), heard.gate, b)]
           q == Last(Append(grown, s), RiseTicks)
<1>1. /\ ring' = NextRing(line) /\ ringPos' = NextPos /\ ringCount' = NextCount
      /\ rise' = Risen(heard)
  BY DecideParts
<1>2. line \in Lines /\ RingInv /\ FullInv /\ Remembered
  BY HeardType DEF RiseInv
<1>3. RingInv'
  BY <1>2, RingDecide
<1>4. FullInv'
  <2>1. /\ NextRing(line) \in [0 .. Slots - 1 -> Lines \cup {Silent}]
        /\ NextPos \in 0 .. Slots - 1 /\ NextCount \in 0 .. Slots
        /\ \A j \in 1 .. NextCount : NextRing(line)[Slot(NextPos, Slots - j, Slots)] \in Lines
    BY <1>2, FullTick
  <2> HIDE DEF line
  <2>2. QED
    BY <1>1, <2>1 DEF FullInv
<1>5. Remembered'
  <2>1. PICK m \in {Slots - 1 + RiseTicks, Slots - 1} : lines' = Last(Seen(line), m)
    BY DEF HistoryDecide, Seen
  <2>2. m \in Nat /\ m >= Slots - 1
    BY <2>1, RiseTicksType, DetectorSizesAssumption
  <2> HIDE DEF line
  <2>3. QED
    BY <1>1, <1>2, <2>1, <2>2, RememberedTick
<1>6. rise' \in [Bands -> 0 .. Rise]
  BY <1>1, <1>2, RisenType DEF RiseInv
<1>7. grown' = IF s # Silent THEN q ELSE <<>>
  BY DEF HistoryDecide, Seen
<1>8. ASSUME NEW b \in Bands
      PROVE  /\ s[b] = IF b \in Growing(heard) THEN SlopeOf(heard, b) ELSE 0
             /\ s[b] \in Slopes /\ (s[b] > 0 <=> b \in Growing(heard))
  <2>1. s[b] = IF b \in Growing(heard) THEN SlopeOf(heard, b) ELSE 0
    BY <1>2, SlopesAgree
  <2> HIDE DEF s
  <2>2. b \in Growing(heard) => SlopeOf(heard, b) \in Nat /\ SlopeOf(heard, b) >= GrowthTick
    BY <1>2, GrowthType
  <2>3. QED
    BY <2>1, <2>2, DetectorGrowthAssumption DEF Slopes
<1>9. s \in Slow /\ s = [b \in Bands |-> s[b]]
  BY <1>8 DEF Slow
<1> HIDE DEF s
<1>10. ASSUME NEW b \in Bands
       PROVE  Risen(heard)[b] = IF s[b] > 0 THEN Capped(Inherited(rise, b) + s[b]) ELSE 0
  BY <1>8 DEF Risen
<1>11. rise' = [b \in Bands |-> IF s[b] > 0 THEN Capped(Inherited(rise, b) + s[b]) ELSE 0]
  <2>1. Risen(heard) = [b \in Bands |-> Risen(heard)[b]]
    BY DEF Risen
  <2>2. QED
    BY <1>1, <1>10, <2>1
<1>12. CASE s = Silent
  <2>1. \A b \in Bands : ~ (s[b] > 0)
    BY <1>12 DEF Silent
  <2>2. rise' = Silent
    BY <1>11, <2>1 DEF Silent
  <2>3. grown' = <<>>
    BY <1>7, <1>12
  <2>4. grown' \in Seq(Slow) /\ Len(grown') <= RiseTicks /\ Followed(grown', rise')
    BY <2>2, <2>3, NothingFollowed
  <2>5. QED
    BY <1>3, <1>4, <1>5, <1>6, <2>4 DEF RiseInv
<1>13. CASE s # Silent
  <2>1. grown' = q
    BY <1>7, <1>13
  <2>2. /\ grown \in Seq(Slow) /\ Len(grown) <= RiseTicks /\ rise \in [Bands -> 0 .. Rise]
        /\ Followed(grown, rise)
    BY DEF RiseInv
  <2>3. PICK o : Follows(grown, s, q, o)
    BY <1>9, <2>2, LastFollows
  <2> HIDE DEF q
  <2>4. q \in Seq(Slow) /\ Followed(q, rise')
    <3> DEFINE z == [b \in Bands |-> IF s[b] > 0 THEN Capped(Inherited(rise, b) + s[b]) ELSE 0]
    <3>1. rise' = z
      BY <1>11
    <3> HIDE DEF z
    <3>2. Followed(q, z)
      BY <2>2, <2>3, FollowedOn DEF z
    <3>3. QED
      BY <2>3, <3>1, <3>2 DEF Follows
  <2>5. Len(q) <= RiseTicks
    <3> DEFINE a == Append(grown, s)
    <3>1. a \in Seq(Slow) /\ Len(a) \in Nat
      BY <1>9, <2>2
    <3> HIDE DEF a
    <3>2. Len(Last(a, RiseTicks)) = IF Len(a) <= RiseTicks THEN Len(a) ELSE RiseTicks
      BY <3>1, RiseTicksType, LastKeeps
    <3>3. QED
      BY <3>1, <3>2, RiseTicksType DEF q, a
  <2>6. QED
    BY <1>3, <1>4, <1>5, <1>6, <2>1, <2>4, <2>5 DEF RiseInv
<1>14. QED
  BY <1>12, <1>13

\* A detector as constructed, or reset, has risen nothing.
LEMMA RiseCleared ==
  ASSUME NEW r, r = [k \in 0 .. Slots - 1 |-> Silent], NEW l, l = <<>>
  PROVE  /\ l \in Seq(Lines) /\ Len(l) = 0
         /\ Aligned(r, 0, l, Slots - 1) /\ Filled(0, l)
         /\ r \in [0 .. Slots - 1 -> Lines \cup {Silent}]
         /\ 0 \in 0 .. Slots - 1 /\ 0 \in 0 .. Slots /\ 1 .. 0 = {}
<1>1. l \in Seq(Lines) /\ Len(l) = 0 /\ 1 .. 0 = {}
  OBVIOUS
<1>2. Aligned(r, 0, l, Slots - 1) /\ Filled(0, l)
  BY <1>1, DetectorSizesAssumption DEF Aligned, Filled
<1>3. QED
  BY <1>1, <1>2, ClearedTyped

LEMMA RiseInit == DetectorHistoryInit => RiseInv
<1> SUFFICES ASSUME DetectorHistoryInit PROVE RiseInv
  OBVIOUS
<1>1. /\ ring = [k \in 0 .. Slots - 1 |-> Silent] /\ ringPos = 0 /\ ringCount = 0
      /\ rise = Silent /\ lines = <<>> /\ grown = <<>>
  BY DEF DetectorHistoryInit, DetectorInit
<1>2. RingInv /\ FullInv /\ Remembered
  BY <1>1, RiseCleared DEF RingInv, FullInv, Remembered
<1>3. QED
  BY <1>1, <1>2, NothingFollowed DEF RiseInv

LEMMA RiseStep == RiseInv /\ [DetectorHistoryNext]_detectorHistoryVars => RiseInv'
<1> SUFFICES ASSUME RiseInv, [DetectorHistoryNext]_detectorHistoryVars PROVE RiseInv'
  OBVIOUS
<1>1. CASE \E heard \in Ticks, pw \in Powers : Decide(heard, pw) /\ HistoryDecide(heard, pw)
  BY <1>1, RiseTick
<1>2. CASE Cleared /\ lines' = <<>> /\ grown' = <<>>
  <2>1. /\ ring' = [k \in 0 .. Slots - 1 |-> Silent] /\ ringPos' = 0 /\ ringCount' = 0
        /\ rise' = Silent /\ lines' = <<>> /\ grown' = <<>>
    BY <1>2 DEF Cleared
  <2>2. RingInv' /\ FullInv' /\ Remembered'
    BY <2>1, RiseCleared DEF RingInv, FullInv, Remembered
  <2>3. QED
    BY <2>1, <2>2, NothingFollowed DEF RiseInv
<1>3. CASE UNCHANGED detectorHistoryVars
  BY <1>3 DEF detectorHistoryVars, detectorVars, RiseInv, RingInv, FullInv, Remembered
<1>4. QED
  BY <1>1, <1>2, <1>3 DEF DetectorHistoryNext

\* Each band's integrated rise is the climb of one line, followed from band to
\* neighbouring band over full windows of this detector's own ticks, for any bank,
\* window and thresholds; a rise past the cap counts as the cap (decide(), the
\* growth path and inherit).
THEOREM RiseAlwaysOfOneLine == DetectorHistorySpec => []RiseIsOfOneLine
<1>1. RiseInv => RiseIsOfOneLine
  BY FollowedIsOneLine DEF RiseInv
<1>2. QED
  BY <1>1, RiseInit, RiseStep, PTL DEF DetectorHistorySpec

-------------------------------------------------------------------------------
(* No onset trips the growth path.  Every tick of a walk has a window that climbs,
   a window that climbs has a rise in it (FallingNeverClimbs), and where the lines
   rose once all windows of the walk have that rise in them, each one tick further
   back than the one before: a walk of fewer than Slots ticks, and what it can
   climb is a matter of the fit alone (OnsetsFallShort). *)

\* The line through a window that never rises does not either.  Its partial sums,
\* by Abel's summation: the sum of the first k weights is k (k - Slots).
LEMMA FallingNeverClimbs ==
  ASSUME NEW y \in [1 .. Slots -> Int], \A i \in 2 .. Slots : y[i] <= y[i - 1]
  PROVE  Slope(y) <= 0
<1> DEFINE f == [i \in 1 .. Slots |-> (2 * i - 1 - Slots) * y[i]]
           F(k) == SumFunctionOnSet(f, 1 .. k)
           T == {k \in Nat : k >= 1 /\ k <= Slots /\ ~ (F(k) <= (k * (k - Slots)) * y[k])}
<1>0. Slots \in Nat /\ Slots >= 3
  BY DetectorSizesAssumption
<1>1. \A i \in 1 .. Slots : y[i] \in Int /\ f[i] = (2 * i - 1 - Slots) * y[i] /\ f[i] \in Int
  BY <1>0
<1>2. \A k \in 1 .. Slots : F(k) = F(k - 1) + f[k] /\ F(k - 1) \in Int
  <2> TAKE k \in 1 .. Slots
  <2>1. k \in Int /\ 1 \in Int /\ 1 <= k /\ \A i \in 1 .. k : f[i] \in Int
    BY <1>0, <1>1
  <2> HIDE DEF f
  <2>2. QED
    BY <2>1, SumLast
<1>3. F(0) = 0
  <2>1. 1 - 1 = 0 /\ 1 \in Int
    OBVIOUS
  <2>2. SumFunctionOnSet(f, 1 .. (1 - 1)) = 0
    BY <2>1, SumNone
  <2>3. QED
    BY <2>1, <2>2
<1>4. T = {}
  <2> SUFFICES ASSUME T # {} PROVE FALSE
    OBVIOUS
  <2>1. PICK k \in T : \A j \in T : k <= j
    <3> HIDE DEF T
    <3>1. T \subseteq Nat
      BY DEF T
    <3>2. QED
      BY <3>1, LeastExists
  <2>2. k \in 1 .. Slots /\ ~ (F(k) <= (k * (k - Slots)) * y[k])
    BY <1>0, <2>1
  <2>3. /\ F(k) = F(k - 1) + f[k] /\ F(k - 1) \in Int
        /\ f[k] = (2 * k - 1 - Slots) * y[k] /\ y[k] \in Int /\ f[k] \in Int
    BY <1>1, <1>2, <2>2
  <2> DEFINE v == k * (k - Slots)
             c == 2 * k - 1 - Slots
             p == (k - 1) * ((k - 1) - Slots)
  <2>4. v \in Int /\ c \in Int /\ p \in Int /\ v = p + c /\ p <= 0 /\ (k = 1 => p = 0)
    <3>1. k \in Int /\ k >= 1 /\ k <= Slots
      BY <1>0, <2>2
    <3>2. v = k * k - k * Slots /\ p = k * k - k * Slots - 2 * k + 1 + Slots
      BY <1>0, <3>1
    <3>3. k - 1 >= 0 /\ Slots - (k - 1) >= 0
      BY <1>0, <3>1
    <3>4. \A r, q \in Nat : r * (- q) <= 0
      BY Z3
    <3>5. k - 1 \in Nat /\ Slots - (k - 1) \in Nat /\ (k - 1) - Slots = - (Slots - (k - 1))
      BY <1>0, <3>1, <3>3
    <3>6. p <= 0
      BY <3>4, <3>5
    <3>7. k = 1 => p = 0
      BY <1>0
    <3>8. QED
      BY <1>0, <3>1, <3>2, <3>6, <3>7
  <2>5. F(k - 1) <= p * y[k]
    <3>1. CASE k = 1
      <4>1. F(k - 1) = 0 /\ p * y[k] = 0
        BY <1>3, <2>3, <2>4, <3>1
      <4>2. QED
        BY <4>1
    <3>2. CASE k # 1
      <4>1. k - 1 \in Nat /\ k - 1 >= 1 /\ k - 1 <= Slots /\ ~ (k <= k - 1) /\ k \in 2 .. Slots /\ k - 1 \in 1 .. Slots
        BY <1>0, <2>2, <3>2
      <4>2. k - 1 \notin T
        <5> HIDE DEF T
        <5>1. QED
          BY <2>1, <4>1
      <4>3. F(k - 1) <= p * y[k - 1]
        BY <4>1, <4>2
      <4>4. y[k] <= y[k - 1] /\ y[k - 1] \in Int
        BY <1>1, <4>1
      <4>5. p * y[k - 1] <= p * y[k] /\ p * y[k - 1] \in Int /\ p * y[k] \in Int
        <5> DEFINE a == y[k - 1]
                   b == y[k]
        <5>1. p \in Int /\ p <= 0 /\ a \in Int /\ b \in Int /\ b <= a
          BY <2>3, <2>4, <4>4
        <5> HIDE DEF p, a, b
        <5>2. \A r, q, z \in Int : r <= 0 /\ z <= q => r * q <= r * z
          BY Z3
        <5>3. p * a \in Int /\ p * b \in Int
          BY <5>1
        <5>4. p * a <= p * b
          BY <5>1, <5>2
        <5>5. QED
          BY <5>3, <5>4 DEF a, b
      <4> HIDE DEF p, F
      <4>6. QED
        BY <2>3, <4>3, <4>5
    <3>3. QED
      BY <3>1, <3>2
  <2> HIDE DEF p, v, c, F, f
  <2>6. p * y[k] + c * y[k] = v * y[k] /\ p * y[k] \in Int /\ c * y[k] \in Int /\ v * y[k] \in Int
    <3>1. (p + c) * y[k] = p * y[k] + c * y[k]
      BY <2>3, <2>4
    <3>2. QED
      BY <2>3, <2>4, <3>1
  <2>7. F(k) <= v * y[k]
    <3>1. F(k) = F(k - 1) + c * y[k]
      BY <2>3 DEF c
    <3>2. QED
      BY <2>3, <2>5, <2>6, <3>1
  <2>8. QED
    BY <2>2, <2>7 DEF v
<1>5. F(Slots) <= (Slots * (Slots - Slots)) * y[Slots]
  <2>1. Slots \notin T
    BY <1>4
  <2> HIDE DEF F
  <2>2. QED
    BY <1>0, <2>1
<1>6. (Slots * (Slots - Slots)) * y[Slots] = 0
  <2>1. Slots - Slots = 0 /\ Slots * 0 = 0 /\ y[Slots] \in Int
    BY <1>0, <1>1
  <2>2. QED
    BY <2>1
<1>7. Slope(y) = F(Slots)
  <2>1. DOMAIN f = 1 .. Slots
    OBVIOUS
  <2> HIDE DEF F
  <2>2. QED
    BY <2>1 DEF Slope, SumFunction, F
<1> HIDE DEF F
<1>8. QED
  BY <1>5, <1>6, <1>7

\* A window that climbs has a rise in it.
LEMMA ClimbHasRise ==
  ASSUME NEW y \in Windows, Climbs(y)
  PROVE  /\ \E p \in 2 .. Slots : y[p] > y[p - 1]
         /\ y \in [1 .. Slots -> Int]
<1>1. Fit(y).slope = Slope(y) /\ Slope(y) \in Int
  BY FitType
<1>2. Slope(y) >= GrowthTick
  BY <1>1 DEF Climbs
<1>3. y \in [1 .. Slots -> Int]
  <2>1. y \in [1 .. Slots -> Levels]
    BY DEF Windows, Levels, Bands
  <2>2. Levels \subseteq Int
    BY LinesType
  <2>3. QED
    BY <2>1, <2>2
<1>4. \A p \in 2 .. Slots : y[p] \in Int /\ y[p - 1] \in Int
  BY <1>3, DetectorSizesAssumption
<1>5. ASSUME ~ \E p \in 2 .. Slots : y[p] > y[p - 1] PROVE FALSE
  <2>1. \A p \in 2 .. Slots : y[p] <= y[p - 1]
    BY <1>4, <1>5
  <2>2. Slope(y) <= 0
    BY <1>3, <2>1, FallingNeverClimbs
  <2>3. QED
    BY <1>1, <1>2, <2>2, DetectorGrowthAssumption
<1>6. QED
  BY <1>3, <1>5

\* The ticks that grew are ticks of the lines kept, and their slopes those of their
\* windows, counted back from the last.
WindowBack(l, d, b) == [i \in 1 .. Slots |-> l[Len(l) - d - Slots + i][b]]

Fitted(x, y) == y \in Windows /\ Climbs(y) /\ x = Slope(y)

Traced(g, l) ==
  /\ Len(g) > 0 => Len(l) >= Len(g) + Slots - 1
  /\ \A d \in 0 .. Len(g) - 1 : \A b \in Bands :
       g[Len(g) - d][b] > 0 => Fitted(g[Len(g) - d][b], WindowBack(l, d, b))

LEMMA AppendTraced ==
  ASSUME NEW g \in Seq(Slow), NEW l \in Seq(Lines), Traced(g, l), NEW s \in Slow, NEW line \in Lines,
         Len(l) + 1 >= Slots,
         \A b \in Bands : s[b] > 0 => Fitted(s[b], WindowBack(Append(l, line), 0, b))
  PROVE  Traced(Append(g, s), Append(l, line))
<1> DEFINE a == Append(g, s)
           c == Append(l, line)
           n == Len(g)
           z == Len(l)
<1>1. /\ n \in Nat /\ Len(a) = n + 1 /\ a[n + 1] = s /\ \A i \in 1 .. n : a[i] = g[i]
      /\ z \in Nat /\ Len(c) = z + 1 /\ \A i \in 1 .. z : c[i] = l[i]
  OBVIOUS
<1>2. n > 0 => z >= n + Slots - 1
  BY DEF Traced
<1>3. Len(c) >= Len(a) + Slots - 1
  BY <1>1, <1>2, DetectorSizesAssumption
<1> HIDE DEF a, c
<1>4. ASSUME NEW d \in 0 .. Len(a) - 1, NEW b \in Bands, a[Len(a) - d][b] > 0
      PROVE  Fitted(a[Len(a) - d][b], WindowBack(c, d, b))
  <2>1. CASE d = 0
    <3>1. a[Len(a) - d] = s
      BY <1>1, <2>1
    <3>2. QED
      BY <1>4, <2>1, <3>1 DEF c
  <2>2. CASE d # 0
    <3>1. d - 1 \in 0 .. n - 1 /\ n - (d - 1) \in 1 .. n /\ Len(a) - d = n - (d - 1) /\ d \in 1 .. n
      BY <1>1, <2>2
    <3>2. a[Len(a) - d] = g[n - (d - 1)]
      BY <1>1, <3>1
    <3>3. ASSUME NEW i \in 1 .. Slots
          PROVE  c[Len(c) - d - Slots + i] = l[z - (d - 1) - Slots + i]
      <4>1. z - (d - 1) - Slots + i \in 1 .. z /\ Len(c) - d - Slots + i = z - (d - 1) - Slots + i
        BY <1>1, <1>2, <3>1, DetectorSizesAssumption
      <4>2. QED
        BY <1>1, <4>1
    <3>4. WindowBack(c, d, b) = WindowBack(l, d - 1, b)
      BY <3>3 DEF WindowBack
    <3>5. g[n - (d - 1)][b] > 0
      BY <1>4, <3>2
    <3>6. Fitted(g[n - (d - 1)][b], WindowBack(l, d - 1, b))
      BY <3>1, <3>5 DEF Traced
    <3>7. QED
      BY <3>2, <3>4, <3>6
  <2>3. QED
    BY <2>1, <2>2
<1>5. Traced(a, c)
  BY <1>3, <1>4 DEF Traced
<1>6. QED
  BY <1>5 DEF a, c

LEMMA LastTraced ==
  ASSUME NEW a \in Seq(Slow), NEW c \in Seq(Lines), Traced(a, c), Len(a) > 0
  PROVE  Traced(Last(a, RiseTicks), Last(c, Slots - 1 + RiseTicks))
<1> DEFINE m == Slots - 1 + RiseTicks
           q == Last(a, RiseTicks)
           x == Last(c, m)
<1>1. RiseTicks \in Nat /\ RiseTicks >= 1 /\ Slots \in Nat /\ Slots >= 3 /\ m \in Nat
  BY RiseTicksType, DetectorSizesAssumption
<1>2. /\ Len(a) \in Nat /\ Len(q) = IF Len(a) <= RiseTicks THEN Len(a) ELSE RiseTicks
      /\ \A j \in 1 .. RiseTicks : j <= Len(a) => q[Len(q) + 1 - j] = a[Len(a) + 1 - j]
  BY <1>1, LastKeeps
<1>3. /\ Len(c) \in Nat /\ Len(x) = IF Len(c) <= m THEN Len(c) ELSE m
      /\ \A j \in 1 .. m : j <= Len(c) => x[Len(x) + 1 - j] = c[Len(c) + 1 - j]
  <2> HIDE DEF m
  <2>1. QED
    BY <1>1, LastKeeps
<1>4. Len(c) >= Len(a) + Slots - 1
  BY DEF Traced
<1> HIDE DEF q, x
<1>5. /\ Len(x) >= Len(q) + Slots - 1
      /\ Len(q) \in Nat /\ Len(q) <= Len(a) /\ Len(q) <= RiseTicks /\ Len(a) \in Nat
      /\ Len(x) \in Nat /\ Len(c) \in Nat
  BY <1>1, <1>2, <1>3, <1>4
<1>6. ASSUME NEW d \in 0 .. Len(q) - 1, NEW b \in Bands, q[Len(q) - d][b] > 0
      PROVE  Fitted(q[Len(q) - d][b], WindowBack(x, d, b))
  <2>1. q[Len(q) - d] = a[Len(a) - d] /\ d \in 0 .. Len(a) - 1
    <3>1. /\ d + 1 \in 1 .. RiseTicks /\ d + 1 <= Len(a) /\ Len(q) + 1 - (d + 1) = Len(q) - d
          /\ Len(a) + 1 - (d + 1) = Len(a) - d /\ d \in 0 .. Len(a) - 1
      BY <1>1, <1>5
    <3>2. q[Len(q) + 1 - (d + 1)] = a[Len(a) + 1 - (d + 1)]
      BY <1>2, <3>1
    <3>3. QED
      BY <3>1, <3>2
  <2>2. ASSUME NEW i \in 1 .. Slots
        PROVE  x[Len(x) - d - Slots + i] = c[Len(c) - d - Slots + i]
    <3> DEFINE j == d + Slots - i + 1
    <3>1. /\ j \in 1 .. m /\ j <= Len(c) /\ Len(x) + 1 - j = Len(x) - d - Slots + i
          /\ Len(c) + 1 - j = Len(c) - d - Slots + i
      BY <1>1, <1>4, <1>5
    <3> HIDE DEF j
    <3>2. x[Len(x) + 1 - j] = c[Len(c) + 1 - j]
      BY <1>3, <3>1
    <3>3. QED
      BY <3>1, <3>2
  <2>3. WindowBack(x, d, b) = WindowBack(c, d, b)
    BY <2>2 DEF WindowBack
  <2>4. Fitted(a[Len(a) - d][b], WindowBack(c, d, b))
    BY <1>6, <2>1 DEF Traced
  <2>5. QED
    BY <2>1, <2>3, <2>4
<1>7. Traced(q, x)
  BY <1>5, <1>6 DEF Traced
<1>8. QED
  BY <1>7 DEF q, x, m

LEMMA MaxAttained ==
  ASSUME NEW f \in [Bands -> 0 .. Rise]
  PROVE  \E b \in Bands : Max({f[k] : k \in Bands}) = f[b]
<1> DEFINE T == {Rise - f[k] : k \in Bands}
           S == {f[k] : k \in Bands}
<1>1. \A k \in Bands : f[k] \in Int /\ Rise - f[k] \in Nat
  BY DetectorGrowthAssumption
<1>2. 1 \in Bands
  BY DetectorSizesAssumption DEF Bands
<1>3. T \subseteq Nat /\ T # {}
  BY <1>1, <1>2
<1>4. PICK i \in T : \A j \in T : i <= j
  <2> HIDE DEF T
  <2>1. QED
    BY <1>3, LeastExists
<1>5. PICK b \in Bands : i = Rise - f[b]
  OBVIOUS
<1>6. \A k \in Bands : f[b] >= f[k]
  <2> TAKE k \in Bands
  <2>1. Rise - f[b] <= Rise - f[k]
    BY <1>4, <1>5
  <2>2. QED
    BY <1>1, <2>1, DetectorGrowthAssumption
<1>7. \E x \in S : \A y \in S : x >= y
  BY <1>6
<1>8. Max(S) \in S
  BY <1>7 DEF Max
<1>9. QED
  BY <1>8

LEMMA AtMostOne ==
  ASSUME NEW C, IsFiniteSet(C), ~ (Cardinality(C) >= 2), NEW x \in C, NEW y \in C
  PROVE  x = y
<1> SUFFICES ASSUME x # y PROVE FALSE
  OBVIOUS
<1>1. IsFiniteSet(C \ {x}) /\ Cardinality(C \ {x}) = Cardinality(C) - 1 /\ Cardinality(C) \in Nat
  BY FS_RemoveElement, FS_CardinalityType
<1>2. y \in C \ {x}
  OBVIOUS
<1>3. /\ IsFiniteSet((C \ {x}) \ {y})
      /\ Cardinality((C \ {x}) \ {y}) = Cardinality(C \ {x}) - 1
  BY <1>1, <1>2, FS_RemoveElement
<1>4. Cardinality((C \ {x}) \ {y}) \in Nat
  BY <1>3, FS_CardinalityType
<1>5. QED
  BY <1>1, <1>3, <1>4

\* A walk over ticks whose windows rise at one step of the lines and at no other
\* climbs less than Rise.
LEMMA OneRiseFallsShort ==
  ASSUME OnsetsFallShort,
         NEW g \in Seq(Slow), NEW l \in Seq(Lines), Traced(g, l),
         NEW p \in Int, \A j \in 2 .. Len(l) : \A b \in Bands : l[j][b] > l[j - 1][b] => j = p,
         NEW b, NEW t \in 1 .. Len(g), NEW w \in WalksFrom(g, t, b)
  PROVE  ClimbFrom(g, t, w) < Rise
<1> DEFINE n == Len(g)
           z == Len(l)
           o == n - z + p
           f == [i \in t .. n |-> g[i][w[i]]]
<1>1. PICK cap \in [0 .. Slots - 2 -> 0 .. Rise - 1] :
        /\ SumFunction(cap) < Rise
        /\ \A k \in 0 .. Slots - 2 : \A y \in Windows :
             RisesOnly(y, k) /\ Climbs(y) => Fit(y).slope <= cap[k]
  BY DEF OnsetsFallShort, Climbs
<1>2. /\ n \in Nat /\ z \in Nat /\ n > 0 /\ z >= n + Slots - 1 /\ Slots \in Nat /\ Slots >= 3
      /\ t \in Int /\ t >= 1 /\ t <= n
  BY DetectorSizesAssumption DEF Traced
<1>3. ASSUME NEW i \in t .. n
      PROVE  i - o \in 0 .. Slots - 2 /\ f[i] \in Nat /\ f[i] <= cap[i - o]
  <2> DEFINE d == n - i
             y == WindowBack(l, d, w[i])
  <2>1. w[i] \in Bands /\ g[i][w[i]] \in Nat /\ g[i][w[i]] >= GrowthTick
    BY ClimbType
  <2>0. d \in 0 .. n - 1 /\ n - d = i /\ i \in Int /\ d \in Int /\ d >= 0 /\ d <= n - 1 /\ d = n - i
    <3> HIDE DEF n
    <3>1. QED
      BY <1>2
  <2>2. d \in 0 .. n - 1 /\ n - d = i /\ g[n - d][w[i]] > 0
    <3>1. g[i][w[i]] > 0
      BY <2>1, DetectorGrowthAssumption
    <3>2. QED
      BY <2>0, <3>1
  <2>3. y \in Windows /\ Climbs(y) /\ g[i][w[i]] = Slope(y)
    BY <2>1, <2>2 DEF Traced, Fitted
  <2>4. ASSUME NEW r \in 2 .. Slots, y[r] > y[r - 1]
        PROVE  z - d - Slots + r = p
    <3> DEFINE j == z - d - Slots + r
    <3>1. j \in 2 .. z /\ j - 1 = z - d - Slots + (r - 1) /\ r \in 1 .. Slots /\ r - 1 \in 1 .. Slots
      <4> HIDE DEF z, d, n, y
      <4>1. QED
        BY <1>2, <2>0
    <3>2. y[r] = l[j][w[i]] /\ y[r - 1] = l[j - 1][w[i]]
      BY <3>1 DEF WindowBack
    <3> HIDE DEF j, y
    <3>3. j = p
      BY <2>1, <2>4, <3>1, <3>2
    <3>4. QED
      BY <3>3 DEF j
  <2> HIDE DEF y
  <2>5. PICK r \in 2 .. Slots : y[r] > y[r - 1]
    BY <2>3, ClimbHasRise
  <2>6. i - o = Slots - r /\ i - o \in 0 .. Slots - 2
    <3>1. z - d - Slots + r = p /\ r \in 2 .. Slots
      BY <2>4, <2>5
    <3> HIDE DEF z, d, n
    <3>2. QED
      BY <1>2, <2>0, <3>1
  <2>7. RisesOnly(y, i - o)
    <3>1. ASSUME NEW q \in 2 .. Slots, y[q] > y[q - 1] PROVE q = Slots - (i - o)
      <4>1. z - d - Slots + q = p
        BY <2>4, <3>1
      <4> HIDE DEF z, d, n
      <4>2. QED
        BY <1>2, <2>0, <4>1
    <3> HIDE DEF o
    <3>2. QED
      BY <3>1 DEF RisesOnly
  <2> HIDE DEF o, d
  <2>8. Slope(y) <= cap[i - o]
    <3>1. Fit(y).slope <= cap[i - o]
      BY <1>1, <2>3, <2>6, <2>7
    <3>2. QED
      BY <2>3, <3>1, FitType
  <2>9. f[i] = g[i][w[i]]
    OBVIOUS
  <2>10. QED
    BY <2>1, <2>3, <2>6, <2>8, <2>9
<1>4. o \in Int
  BY <1>2
<1> DEFINE all == 0 .. Slots - 2
           u == (t - o) .. (n - o)
<1> HIDE DEF f, o
<1>5. SumFunctionOnSet(f, t .. n) <= SumFunctionOnSet(cap, u)
  <2>1. Bounds(f, t, n, cap, o)
    <3> SUFFICES ASSUME NEW i \in t .. n
                 PROVE  f[i] \in Int /\ cap[i - o] \in Int /\ f[i] <= cap[i - o]
      BY DEF Bounds
    <3>1. i - o \in 0 .. Slots - 2 /\ f[i] \in Nat /\ f[i] <= cap[i - o]
      BY <1>3
    <3>2. QED
      BY <3>1
  <2>2. t <= n + 1 /\ n \in Int
    BY <1>2
  <2>3. QED
    BY <1>2, <1>4, <2>1, <2>2, SumAtMost
<1>6. SumFunctionOnSet(cap, u) <= SumFunctionOnSet(cap, all)
  <2>1. u \subseteq all
    <3> SUFFICES ASSUME NEW k \in u PROVE k \in all
      OBVIOUS
    <3>1. k + o \in t .. n /\ (k + o) - o = k
      BY <1>2, <1>4
    <3>2. QED
      BY <1>3, <3>1
  <2>2. IsFiniteSet(all) /\ \A k \in all : cap[k] \in Nat
    <3>1. 0 \in Int /\ Slots - 2 \in Int
      BY <1>2
    <3>2. IsFiniteSet(all)
      BY <3>1, FS_Interval
    <3>3. QED
      BY <3>2
  <2> HIDE DEF u, all
  <2>3. QED
    BY <2>1, <2>2, SumOfPart
<1>7. SumFunctionOnSet(cap, all) < Rise
  <2>1. DOMAIN cap = all
    OBVIOUS
  <2>2. QED
    BY <1>1, <2>1 DEF SumFunction
<1>8. /\ SumFunctionOnSet(f, t .. n) \in Int /\ SumFunctionOnSet(cap, u) \in Int
      /\ SumFunctionOnSet(cap, all) \in Int
  <2>1. IsFiniteSet(t .. n) /\ IsFiniteSet(u) /\ IsFiniteSet(all)
    <3>1. t \in Int /\ n \in Int /\ t - o \in Int /\ n - o \in Int /\ 0 \in Int /\ Slots - 2 \in Int
      BY <1>2, <1>4
    <3> HIDE DEF n
    <3>2. QED
      BY <3>1, FS_Interval
  <2>2. \A i \in t .. n : f[i] \in Int
    BY <1>3
  <2>3. \A k \in all : cap[k] \in Int
    OBVIOUS
  <2>4. \A k \in u : cap[k] \in Int
    <3> TAKE k \in u
    <3>1. k + o \in t .. n /\ (k + o) - o = k
      BY <1>2, <1>4
    <3>2. k \in all
      BY <1>3, <3>1
    <3>3. QED
      BY <3>2
  <2> HIDE DEF u, all
  <2>5. QED
    BY <2>1, <2>2, <2>3, <2>4, SumType
<1>9. ClimbFrom(g, t, w) = SumFunctionOnSet(f, t .. n)
  BY DEF ClimbFrom, f
<1>10. Rise \in Int
  BY DetectorGrowthAssumption
<1> HIDE DEF u, all, n
<1>11. QED
  BY <1>5, <1>6, <1>7, <1>8, <1>9, <1>10

\* A trip of the growth path is a line's that has reached Rise.
TripRisen == trigger = "growth" => \E b \in Bands : rise[b] >= Rise

OnsetInv == RiseInv /\ TripRisen /\ Traced(grown, lines)

LEMMA NothingTraced == Traced(<<>>, <<>>)
<1>1. Len(<<>>) = 0 /\ 0 .. Len(<<>>) - 1 = {}
  OBVIOUS
<1>2. QED
  BY <1>1 DEF Traced

LEMMA TripTick ==
  ASSUME RiseInv, NEW heard \in Ticks, NEW pw, Decide(heard, pw)
  PROVE  TripRisen'
<1>1. rise' = Risen(heard)
  BY DecideParts
<1>2. Risen(heard) \in [Bands -> 0 .. Rise]
  BY RisenType DEF RiseInv
<1>3. trigger' = Verdict(Max({Risen(heard)[b] : b \in Bands}), heard.loud, pw)
  <2>1. trigger' = LET risen == Risen(heard)
                   IN  Verdict(Max({risen[b] : b \in Bands}), heard.loud, pw)
    BY DEF Decide, NextRing, NextPos, NextCount, Risen, Growing, SlopeOf
  <2>2. QED
    BY <2>1
<1>4. PICK b \in Bands : Max({Risen(heard)[k] : k \in Bands}) = Risen(heard)[b]
  BY <1>2, MaxAttained
<1>5. trigger' = "growth" => Risen(heard)[b] >= Rise
  BY <1>3, <1>4 DEF Verdict
<1>6. QED
  BY <1>1, <1>5 DEF TripRisen

LEMMA TracedTick ==
  ASSUME OnsetInv, NEW heard \in Ticks, NEW pw, Decide(heard, pw), HistoryDecide(heard, pw)
  PROVE  Traced(grown', lines')
<1> DEFINE line == heard.line
           s == [b \in Bands |-> SlopeNow(Seen(line), heard.gate, b)]
           a == Append(grown, s)
           c == Seen(line)
<1>1. /\ line \in Lines /\ RingInv /\ FullInv /\ Remembered
      /\ grown \in Seq(Slow) /\ lines \in Seq(Lines) /\ Traced(grown, lines)
  BY HeardType DEF OnsetInv, RiseInv, RingInv
<1>2. /\ grown' = IF s # Silent THEN Last(a, RiseTicks) ELSE <<>>
      /\ lines' = Last(c, IF s # Silent THEN Slots - 1 + RiseTicks ELSE Slots - 1)
  BY DEF HistoryDecide, Seen
<1>3. c \in Seq(Lines) /\ Len(c) = Len(lines) + 1 /\ Len(lines) \in Nat /\ c = Append(lines, line)
  BY <1>1, SeenInRing DEF Seen
<1>4. CASE s = Silent
  <2>1. grown' = <<>>
    BY <1>2, <1>4
  <2>2. Len(<<>>) = 0 /\ 0 .. Len(<<>>) - 1 = {}
    OBVIOUS
  <2> HIDE DEF s, c
  <2>3. QED
    BY <2>1, <2>2 DEF Traced
<1>5. CASE s # Silent
  <2>1. ASSUME NEW b \in Bands, s[b] # 0
        PROVE  Len(c) >= Slots /\ b \in Growing(heard)
    <3>1. SlopeNow(Seen(line), heard.gate, b) # 0
      BY <2>1
    <3>2. Len(c) >= Slots
      BY <3>1 DEF SlopeNow
    <3>3. b \in heard.gate /\ NextCount = Slots /\ Climbs(Column(NextRing(line), NextPos, b))
      BY <1>1, <3>1, GrowsInBoth
    <3>4. QED
      BY <3>2, <3>3 DEF Growing
  <2>2. ASSUME NEW b \in Bands
        PROVE  /\ s[b] = IF b \in Growing(heard) THEN SlopeOf(heard, b) ELSE 0
               /\ s[b] \in Slopes
    <3>1. s[b] = IF b \in Growing(heard) THEN SlopeOf(heard, b) ELSE 0
      BY <1>1, SlopesAgree
    <3> HIDE DEF s
    <3>2. b \in Growing(heard) => SlopeOf(heard, b) \in Nat /\ SlopeOf(heard, b) >= GrowthTick
      BY <1>1, GrowthType
    <3>3. QED
      BY <3>1, <3>2, DetectorGrowthAssumption DEF Slopes
  <2>3. s \in Slow
    BY <2>2 DEF Slow
  <2>4. \E b \in Bands : s[b] # 0
    BY <1>5 DEF Silent
  <2>5. Len(c) >= Slots
    BY <2>1, <2>4
  <2>6. ASSUME NEW b \in Bands, s[b] > 0
        PROVE  Fitted(s[b], WindowBack(c, 0, b))
    <3> DEFINE y == Column(NextRing(line), NextPos, b)
    <3>1. b \in Growing(heard) /\ s[b] = Fit(y).slope
      BY <2>1, <2>2, <2>6 DEF SlopeOf
    <3>2. NextCount = Slots /\ Climbs(y)
      BY <3>1 DEF Growing
    <3>3. y \in Windows
      BY <1>1, <3>2, ColumnType
    <3>4. Fit(y).slope = Slope(y)
      BY <3>3, FitType
    <3>5. [i \in 1 .. Slots |-> c[Len(c) - Slots + i][b]] = y
      BY <1>1, <2>5, WindowIsColumn
    <3> HIDE DEF y, c, s
    <3>6. WindowBack(c, 0, b) = y
      <4>1. Len(c) \in Int
        BY <1>3
      <4>2. \A i \in 1 .. Slots : Len(c) - 0 - Slots + i = Len(c) - Slots + i
        BY <4>1, DetectorSizesAssumption
      <4>3. QED
        BY <3>5, <4>2 DEF WindowBack
    <3>7. QED
      BY <3>1, <3>2, <3>3, <3>4, <3>6 DEF Fitted
  <2> HIDE DEF s, line
  <2>7. Traced(a, c)
    <3>1. Len(lines) + 1 >= Slots
      BY <1>3, <2>5
    <3>2. \A b \in Bands : s[b] > 0 => Fitted(s[b], WindowBack(Append(lines, line), 0, b))
      BY <1>3, <2>6
    <3>3. Traced(Append(grown, s), Append(lines, line))
      BY <1>1, <2>3, <3>1, <3>2, AppendTraced
    <3>4. QED
      BY <1>3, <3>3
  <2>8. a \in Seq(Slow) /\ Len(a) > 0
    BY <1>1, <2>3
  <2>9. Traced(Last(a, RiseTicks), Last(c, Slots - 1 + RiseTicks))
    <3> HIDE DEF a, c
    <3>1. QED
      BY <1>3, <2>7, <2>8, LastTraced
  <2>10. grown' = Last(a, RiseTicks) /\ lines' = Last(c, Slots - 1 + RiseTicks)
    BY <1>2, <1>5
  <2>11. QED
    BY <2>9, <2>10
<1>6. QED
  BY <1>4, <1>5

\* A trip has risen along one line, which one rise of the lines cannot feed.
LEMMA OneOnsetNoTrip == OnsetInv /\ OnsetsFallShort => OnsetNeverTrips
<1> DEFINE C == {t \in 2 .. Len(lines) : \E b \in Bands : lines[t][b] > lines[t - 1][b]}
<1> SUFFICES ASSUME OnsetInv, OnsetsFallShort, trigger = "growth", ~ (Cardinality(C) >= 2)
             PROVE  FALSE
  BY DEF OnsetNeverTrips
<1>1. IsFiniteSet(C)
  <2>1. Len(lines) \in Int /\ 2 \in Int
    BY DEF OnsetInv, RiseInv, RingInv
  <2>2. IsFiniteSet(2 .. Len(lines))
    BY <2>1, FS_Interval
  <2>3. QED
    BY <2>2, FS_Subset
<1>2. \E p \in Int : \A j \in C : j = p
  <2>1. CASE C = {}
    BY <2>1
  <2>2. CASE C # {}
    <3>1. PICK p : p \in C
      BY <2>2
    <3>2. p \in Int
      BY <3>1
    <3> HIDE DEF C
    <3>3. \A j \in C : j = p
      BY <1>1, <3>1, AtMostOne
    <3>4. QED
      BY <3>2, <3>3
  <2>3. QED
    BY <2>1, <2>2
<1>3. PICK p \in Int : \A j \in C : j = p
  BY <1>2
<1>4. \A j \in 2 .. Len(lines) : \A b \in Bands : lines[j][b] > lines[j - 1][b] => j = p
  BY <1>3
<1> HIDE DEF C
<1>5. PICK b \in Bands : rise[b] >= Rise
  BY DEF OnsetInv, TripRisen
<1>6. /\ rise[b] \in 0 .. Rise /\ Followed(grown, rise) /\ Rise \in Int /\ Rise >= 1
      /\ grown \in Seq(Slow) /\ lines \in Seq(Lines) /\ Traced(grown, lines)
  BY DetectorGrowthAssumption DEF OnsetInv, RiseInv, RingInv
<1>7. rise[b] # 0 /\ rise[b] = Rise
  BY <1>5, <1>6
<1>8. PICK t \in 1 .. Len(grown) : \E w \in WalksFrom(grown, t, b) : Capped(ClimbFrom(grown, t, w)) = rise[b]
  BY <1>6, <1>7 DEF Followed
<1>9. PICK w \in WalksFrom(grown, t, b) : Capped(ClimbFrom(grown, t, w)) = rise[b]
  BY <1>8
<1>10. ClimbFrom(grown, t, w) < Rise
  BY <1>4, <1>6, OneRiseFallsShort
<1>11. ClimbFrom(grown, t, w) \in Int
  BY <1>6, ClimbType
<1>12. QED
  BY <1>6, <1>7, <1>9, <1>10, <1>11 DEF Capped

\* The growth path never trips on one onset, however high, for any bank, window and
\* thresholds with which the onsets that pass the gates fall short of the rise
\* (decide(), the growth path; "a step (onset) never passes the linearity gate long
\* enough", howl_detector.h:41).
THEOREM OnsetsNeverTrip ==
  ASSUME OnsetsFallShort
  PROVE  DetectorHistorySpec => []OnsetNeverTrips
<1>1. DetectorHistoryInit => OnsetInv
  <2>1. DetectorHistoryInit => trigger = "none" /\ lines = <<>> /\ grown = <<>>
    BY DEF DetectorHistoryInit, DetectorInit
  <2>2. QED
    BY <2>1, RiseInit, NothingTraced DEF OnsetInv, TripRisen
<1>2. OnsetInv /\ [DetectorHistoryNext]_detectorHistoryVars => OnsetInv'
  <2> SUFFICES ASSUME OnsetInv, [DetectorHistoryNext]_detectorHistoryVars PROVE OnsetInv'
    OBVIOUS
  <2>1. RiseInv'
    BY RiseStep DEF OnsetInv
  <2>2. CASE \E heard \in Ticks, pw \in Powers : Decide(heard, pw) /\ HistoryDecide(heard, pw)
    <3>1. PICK heard \in Ticks, pw \in Powers : Decide(heard, pw) /\ HistoryDecide(heard, pw)
      BY <2>2
    <3>2. TripRisen'
      BY <3>1, TripTick DEF OnsetInv
    <3>3. Traced(grown', lines')
      BY <3>1, TracedTick
    <3>4. QED
      BY <2>1, <3>2, <3>3 DEF OnsetInv
  <2>3. CASE Cleared /\ lines' = <<>> /\ grown' = <<>>
    <3>1. trigger' = "none"
      BY <2>3 DEF Cleared
    <3>2. QED
      BY <2>1, <2>3, <3>1, NothingTraced DEF OnsetInv, TripRisen
  <2>4. CASE UNCHANGED detectorHistoryVars
    BY <2>1, <2>4 DEF detectorHistoryVars, detectorVars, OnsetInv, TripRisen
  <2>5. QED
    BY <2>2, <2>3, <2>4 DEF DetectorHistoryNext
<1>3. QED
  BY <1>1, <1>2, OneOnsetNoTrip, PTL DEF DetectorHistorySpec

===============================================================================
