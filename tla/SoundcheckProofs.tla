---------------------------- MODULE SoundcheckProofs ----------------------------
(***************************************************************************)
(* What TLAPS proves of the soundcheck, for any mics, statistics,          *)
(* histograms and policies: the sampler keeps the window it was started    *)
(* with, every threshold lies within its clamp, each mic keeps the         *)
(* thresholds it was given, and a calibration's figures are those of the   *)
(* blocks its window heard.  The first invariant adds that a running       *)
(* sampler has blocks left to take, without which the last one could run   *)
(* past zero.                                                              *)
(*                                                                         *)
(* A quantile is the first bin whose cumulative count reaches the rank.    *)
(* That the count up to a bin is the number of blocks heard at or below it *)
(* (Tallies) is proved block by block; that the count is what its          *)
(* recursion says, by the least bin at which it is not.                    *)
(***************************************************************************)
EXTENDS SoundcheckHistory, FiniteSetTheorems, WellFoundedInduction, TLAPS

WindowInv ==
  /\ limits \in CheckPolicy
  /\ heard \in Seq([Mics -> [d : Int, a : Int]])
  /\ window \in Nat /\ left \in Nat
  /\ sampling \in BOOLEAN
  /\ sampling => left > 0
  /\ WindowKept

(* Nothing is heard yet, and nothing sampled. *)
LEMMA WindowInitially == ASSUME CheckHistoryInit PROVE WindowInv
<1>1. limits \in CheckPolicy
  BY SoundcheckAssumption DEF CheckHistoryInit, CheckInit
<1>2. heard = <<>> /\ window = 0 /\ left = 0 /\ sampling = FALSE
  BY DEF CheckHistoryInit, CheckInit
<1>3. heard \in Seq([Mics -> [d : Int, a : Int]])
  BY <1>2
<1>4. WindowKept
  BY <1>2 DEF WindowKept
<1>5. QED
  BY <1>1, <1>2, <1>3, <1>4 DEF WindowInv

(* A sampled block is one more heard and one less left, and the last one stops
   the sampler. *)
LEMMA SampleKeepsWindow ==
  ASSUME WindowInv, NEW in \in Blocks, HistorySample(in) PROVE WindowInv'
<1> DEFINE r == [m \in Mics |-> Read(in[m])]
<1>1. sampling /\ left' = left - 1 /\ sampling' = (left > 1) /\ limits' = limits
  BY DEF HistorySample, Sample
<1>2. heard' = Append(heard, r) /\ window' = window
  BY DEF HistorySample
<1>3. r \in [Mics -> [d : Int, a : Int]]
  BY SoundcheckAssumption DEF Blocks, Read
<1> HIDE DEF r
<1>4. heard' \in Seq([Mics -> [d : Int, a : Int]]) /\ Len(heard') = Len(heard) + 1
  BY <1>2, <1>3 DEF WindowInv
<1>5. left > 0 /\ Len(heard) + left = window /\ Len(heard) \in Nat
  BY <1>1 DEF WindowInv, WindowKept
<1>6. left \in Nat /\ window \in Nat
  BY DEF WindowInv
<1>7. sampling' \in BOOLEAN /\ (sampling' => left > 1)
  <2>1. sampling' = (left > 1)
    BY <1>1
  <2>2. (left > 1) \in BOOLEAN
    BY <1>6
  <2> DEFINE more == left > 1
  <2>3. more \in BOOLEAN /\ sampling' = more
    BY <2>1, <2>2
  <2> HIDE DEF more
  <2>4. sampling' \in BOOLEAN /\ (sampling' => more)
    BY <2>3
  <2>5. QED
    BY <2>4 DEF more
<1>8. left' \in Nat /\ window' \in Nat
  BY <1>1, <1>2, <1>5, <1>6
<1>9. sampling' => left' > 0
  BY <1>1, <1>6, <1>7
<1>10. Len(heard') <= window' /\ Len(heard') + left' = window'
  <2>1. left' = left - 1 /\ window' = window /\ Len(heard') = Len(heard) + 1
    BY <1>1, <1>2, <1>4
  <2>2. QED
    BY <2>1, <1>5, <1>6
<1>11. WindowKept'
  BY <1>10 DEF WindowKept
<1>12. limits' \in CheckPolicy
  BY <1>1 DEF WindowInv
<1>13. QED
  BY <1>4, <1>7, <1>8, <1>9, <1>11, <1>12 DEF WindowInv

(* A soundcheck begins with the window of the policy in force, all of it left. *)
LEMMA BeginKeepsWindow == ASSUME WindowInv, HistoryBegin PROVE WindowInv'
<1>1. left' = limits.window /\ window' = limits.window /\ heard' = <<>>
  BY DEF HistoryBegin, CalibrateBegin
<1>2. sampling' = TRUE /\ limits' = limits
  BY DEF HistoryBegin, CalibrateBegin
<1>3. limits.window \in Nat /\ limits.window > 0
  BY DEF WindowInv, CheckPolicy
<1>4. limits' \in CheckPolicy
  BY <1>2 DEF WindowInv
<1>5. WindowKept'
  BY <1>1, <1>2, <1>3 DEF WindowKept
<1>6. heard' \in Seq([Mics -> [d : Int, a : Int]])
  BY <1>1
<1>7. QED
  BY <1>1, <1>2, <1>3, <1>4, <1>5, <1>6 DEF WindowInv

(* Ending early keeps what was heard. *)
LEMMA EndKeepsWindow ==
  ASSUME WindowInv, NEW apply \in BOOLEAN, HistoryEnd(apply) PROVE WindowInv'
<1>1. sampling' = FALSE /\ left' = left /\ limits' = limits
  BY DEF HistoryEnd, CalibrateEnd
<1>2. heard' = heard /\ window' = window
  BY DEF HistoryEnd
<1>3. QED
  BY <1>1, <1>2 DEF WindowInv, WindowKept

(* The host's other calls leave the sampler alone, a new policy included. *)
LEMMA HostKeepsWindow == ASSUME WindowInv, HistoryHost PROVE WindowInv'
<1>1. sampling' = sampling /\ left' = left /\ heard' = heard /\ window' = window
  BY DEF HistoryHost, SetThresholds, ClearCalibration, SetPolicy
<1>2. limits' \in CheckPolicy
  <2>1. CASE \E p \in Policies : SetPolicy(p)
    BY <2>1, SoundcheckAssumption DEF SetPolicy
  <2>2. CASE limits' = limits
    BY <2>2 DEF WindowInv
  <2>3. QED
    BY <2>1, <2>2 DEF HistoryHost, SetThresholds, ClearCalibration
<1>3. QED
  BY <1>1, <1>2 DEF WindowInv, WindowKept

(* The sampler takes exactly the window it was started with, whatever the host
   does meanwhile (calibrate_begin(), sample()): never a block more, and it
   stops by itself only with the window full. *)
THEOREM WindowAlwaysKept == CheckHistorySpec => []WindowKept
<1>1. CheckHistoryInit => WindowInv
  BY WindowInitially
<1>2. WindowInv /\ [CheckHistoryNext]_checkHistoryVars => WindowInv'
  <2> SUFFICES ASSUME WindowInv, [CheckHistoryNext]_checkHistoryVars PROVE WindowInv'
    OBVIOUS
  <2>1. CASE \E in \in Blocks : HistorySample(in)
    BY <2>1, SampleKeepsWindow
  <2>2. CASE HistoryBegin
    BY <2>2, BeginKeepsWindow
  <2>3. CASE \E apply \in BOOLEAN : HistoryEnd(apply)
    BY <2>3, EndKeepsWindow
  <2>4. CASE HistoryHost
    BY <2>4, HostKeepsWindow
  <2>5. CASE UNCHANGED checkHistoryVars
    BY <2>5 DEF checkHistoryVars, checkVars, WindowInv, WindowKept
  <2>6. QED
    BY <2>1, <2>2, <2>3, <2>4, <2>5 DEF CheckHistoryNext
<1>3. WindowInv => WindowKept
  BY DEF WindowInv
<1>4. QED
  BY <1>1, <1>2, <1>3, PTL DEF CheckHistorySpec

-------------------------------------------------------------------------------
(* The types: a value always falls into a bin, and a threshold into its clamp. *)

(* A clamped value lies within its clamp. *)
LEMMA ClampRange ==
  ASSUME NEW x \in Int, NEW lo \in Int, NEW hi \in Int, lo <= hi
  PROVE  Clamp(x, lo, hi) \in lo..hi
  BY DEF Clamp

(* Whatever the value, its bin is one of the histogram's. *)
LEMMA BinRange ==
  ASSUME NEW x \in Int, NEW lo \in Int, NEW bins \in Nat \ {0}
  PROVE  Bin(x, lo, bins) \in 0..bins-1
<1> DEFINE k == (x - lo) \div 2
<1>1. k \in Int
  OBVIOUS
<1> HIDE DEF k
<1>2. Clamp(k, 0, bins - 1) \in 0..bins-1
  BY <1>1, ClampRange
<1>3. QED
  BY <1>2 DEF Bin, k

(* A set of naturals has a least one: their order is well founded. *)
LEMMA LeastExists ==
  ASSUME NEW T, T \subseteq Nat, T # {}
  PROVE  \E i \in T : \A j \in T : i <= j
<1> DEFINE R == OpToRel(<, Nat)
<1>1. \A i, j \in Nat : <<j, i>> \in R <=> j < i
  BY DEF OpToRel
<1>2. IsWellFoundedOn(R, Nat)
  BY NatLessThanWellFounded
<1> HIDE DEF R
<1>3. PICK i \in T : \A j \in T : ~ (<<j, i>> \in R)
  BY <1>2, WFMin
<1>4. \A j \in T : i <= j
  <2> TAKE j \in T
  <2>1. i \in Nat /\ j \in Nat
    OBVIOUS
  <2>2. ~ (j < i)
    BY <1>1, <1>3, <2>1
  <2>3. QED
    BY <2>1, <2>2
<1>5. QED
  BY <1>4

(* A quantile is a number, wherever the count reaches its rank. *)
LEMMA QuantileType ==
  ASSUME NEW h, NEW bins \in Nat \ {0}, NEW n, NEW q, NEW lo \in Int
  PROVE  Quantile(h, bins, n, q, lo) \in Int
<1> DEFINE reach == {i \in 0..bins-1 : CountTo(h, i) >= Rank(q, n)}
           first == CHOOSE i \in reach : \A j \in reach : i <= j
           at == IF reach = {} THEN bins ELSE first
<1>1. reach \subseteq Nat
  OBVIOUS
<1> HIDE DEF reach
<1>2. reach # {} => first \in Nat
  BY <1>1, LeastExists
<1>3. at \in Int
  BY <1>2
<1>4. Quantile(h, bins, n, q, lo) = Centre(at, lo)
  BY DEF Quantile, reach
<1> HIDE DEF at
<1>5. QED
  BY <1>3, <1>4 DEF Centre

(* A count stays within its limit. *)
LEMMA CountedType ==
  ASSUME NEW bins \in Nat \ {0}, NEW h \in [0..bins-1 -> 0..MaxCount], NEW i \in 0..bins-1
  PROVE  Counted(h, i) \in [0..bins-1 -> 0..MaxCount]
<1>1. (IF h[i] < MaxCount THEN h[i] + 1 ELSE h[i]) \in 0..MaxCount
  BY SoundcheckAssumption
<1>2. QED
  BY <1>1 DEF Counted

(* What the types rest on besides themselves: a running sampler's window, and
   the flag of a calibration, which an empty one clears in the last. *)
CheckInv ==
  /\ SoundcheckTypeOK
  /\ \A m \in Mics : "applied" \in DOMAIN cal[m]

Threshold == [d : DMin..ThrMax, a : AMin..ThrMax, own : BOOLEAN]

LEMMA PolicyTyped == ASSUME NEW p \in Policies PROVE p \in CheckPolicy
  BY SoundcheckAssumption

(* An empty histogram is one. *)
LEMMA CleanType == Clean \in [d : DHist, a : AHist]
<1>1. 0 \in 0..MaxCount
  BY SoundcheckAssumption
<1>2. QED
  BY <1>1 DEF Clean, DHist, AHist

(* A mic on its own thresholds or the policy's has them within the clamp. *)
LEMMA DerivedType ==
  ASSUME NEW t \in Threshold, NEW p \in Policies
  PROVE  Derived(t, p) \in Threshold
<1>1. p.d \in DMin..ThrMax /\ p.a \in AMin..ThrMax
  BY PolicyTyped DEF CheckPolicy
<1>2. QED
  BY <1>1 DEF Derived, Threshold

LEMMA CheckInitially == ASSUME CheckInit PROVE CheckInv
<1>1. limits.d \in DMin..ThrMax /\ limits.a \in AMin..ThrMax
  BY PolicyTyped DEF CheckInit, CheckPolicy
<1>2. thr \in [Mics -> Threshold]
  BY <1>1 DEF CheckInit, Threshold
<1>3. hist \in [Mics -> [d : DHist, a : AHist]]
  BY CleanType DEF CheckInit
<1>4. DOMAIN cal = Mics /\ \A m \in Mics : "applied" \in DOMAIN cal[m]
  BY DEF CheckInit, Nothing
<1>5. QED
  BY <1>2, <1>3, <1>4 DEF CheckInit, CheckInv, SoundcheckTypeOK, Threshold

(* A sampled block lands in a bin of every histogram of every mic. *)
LEMMA SampledType ==
  ASSUME NEW h \in [d : DHist, a : AHist], NEW s \in [d : Int, a : Int]
  PROVE  Sampled(h, s) \in [d : DHist, a : AHist]
<1>1. Bin(s.d, DLo, DBins) \in 0..DBins-1 /\ Bin(s.a, ALo, ABins) \in 0..ABins-1
  BY BinRange, SoundcheckAssumption
<1>2. Counted(h.d, Bin(s.d, DLo, DBins)) \in DHist
  BY <1>1, CountedType, SoundcheckAssumption DEF DHist
<1>3. Counted(h.a, Bin(s.a, ALo, ABins)) \in AHist
  BY <1>1, CountedType, SoundcheckAssumption DEF AHist
<1>4. QED
  BY <1>2, <1>3 DEF Sampled

LEMMA SampleTyped == ASSUME CheckInv, NEW in \in Blocks, Sample(in) PROVE CheckInv'
<1>1. \A m \in Mics : hist[m] \in [d : DHist, a : AHist]
  BY DEF CheckInv, SoundcheckTypeOK
<1>2. \A m \in Mics : Read(in[m]) \in [d : Int, a : Int]
  BY SoundcheckAssumption DEF Blocks, Read
<1>3. \A m \in Mics : Sampled(hist[m], Read(in[m])) \in [d : DHist, a : AHist]
  BY <1>1, <1>2, SampledType
<1>4. hist' \in [Mics -> [d : DHist, a : AHist]]
  BY <1>3 DEF Sample
<1>5. left \in Nat /\ left > 0
  BY DEF CheckInv, SoundcheckTypeOK, Sample
<1> DEFINE more == left > 1
<1>6. more \in BOOLEAN /\ sampling' = more /\ left' = left - 1
  BY DEF Sample
<1>7. left' \in Nat /\ (more => left' > 0)
  BY <1>5, <1>6
<1> HIDE DEF more
<1>8. sampling' \in BOOLEAN /\ (sampling' => left' > 0)
  BY <1>6, <1>7
<1>9. UNCHANGED <<limits, thr, cal>>
  BY DEF Sample
<1>10. QED
  BY <1>4, <1>7, <1>8, <1>9 DEF CheckInv, SoundcheckTypeOK

LEMMA BeginTyped == ASSUME CheckInv, CalibrateBegin PROVE CheckInv'
<1>1. limits.window \in Nat /\ limits.window > 0
  BY PolicyTyped DEF CheckInv, SoundcheckTypeOK, CheckPolicy
<1>2. hist' \in [Mics -> [d : DHist, a : AHist]]
  BY CleanType DEF CalibrateBegin
<1>3. DOMAIN cal' = Mics /\ \A m \in Mics : "applied" \in DOMAIN cal'[m]
  BY DEF CalibrateBegin, Nothing
<1>4. QED
  BY <1>1, <1>2, <1>3 DEF CalibrateBegin, CheckInv, SoundcheckTypeOK

(* What a calibration applies lies within the clamp; an empty one applies nothing. *)
LEMMA CalibrationType ==
  ASSUME CheckInv, NEW apply \in BOOLEAN, NEW m \in Mics, NEW c, c = Calibration(m, apply)
  PROVE  /\ "applied" \in DOMAIN c /\ c.applied \in BOOLEAN
         /\ c.applied => c.d \in DMin..ThrMax /\ c.a \in AMin..ThrMax
<1> DEFINE n   == CountTo(hist[m].d, DBins - 1)
           d_q == [q \in Quantiles |-> Quantile(hist[m].d, DBins, n, q, DLo)]
           a_q == [q \in Quantiles |-> Quantile(hist[m].a, ABins, n, q, ALo)]
           dAt == Clamp(d_q["median"] + limits.d_margin, DMin, ThrMax)
           aAt == Clamp(a_q["median"] + limits.a_margin, AMin, ThrMax)
<1>1. CASE n = 0
  <2>1. c = [cal[m] EXCEPT !.blocks = 0, !.applied = FALSE, !.d = thr[m].d, !.a = thr[m].a]
    BY <1>1 DEF Calibration
  <2>2. "applied" \in DOMAIN cal[m]
    BY DEF CheckInv
  <2>3. QED
    BY <2>1, <2>2
<1>2. CASE n # 0
  <2>1. c = [blocks |-> n, d_q |-> d_q, a_q |-> a_q, d |-> dAt, a |-> aAt, applied |-> apply]
    BY <1>2 DEF Calibration
  <2>2. limits \in CheckPolicy
    BY PolicyTyped DEF CheckInv, SoundcheckTypeOK
  <2>3. DMin <= ThrMax /\ AMin <= ThrMax /\ limits.d_margin \in Int /\ limits.a_margin \in Int
    BY <2>2, SoundcheckAssumption DEF CheckPolicy
  <2>4. "median" \in Quantiles
    BY DEF Quantiles
  <2>5. d_q["median"] \in Int
    BY <2>4, QuantileType, SoundcheckAssumption
  <2>6. a_q["median"] \in Int
    BY <2>4, QuantileType, SoundcheckAssumption
  <2> HIDE DEF n, d_q, a_q
  <2>7. dAt \in DMin..ThrMax /\ aAt \in AMin..ThrMax
    <3> DEFINE x == d_q["median"] + limits.d_margin
               y == a_q["median"] + limits.a_margin
    <3>1. x \in Int /\ y \in Int
      BY <2>3, <2>5, <2>6
    <3> HIDE DEF x, y
    <3>2. Clamp(x, DMin, ThrMax) \in DMin..ThrMax /\ Clamp(y, AMin, ThrMax) \in AMin..ThrMax
      BY <2>3, <3>1, ClampRange, SoundcheckAssumption
    <3>3. QED
      BY <3>2 DEF x, y
  <2> HIDE DEF dAt, aAt
  <2>8. QED
    BY <2>1, <2>7
<1>3. QED
  BY <1>1, <1>2

LEMMA EndTyped == ASSUME CheckInv, NEW apply \in BOOLEAN, CalibrateEnd(apply) PROVE CheckInv'
<1>1. DOMAIN cal' = Mics /\ \A m \in Mics : cal'[m] = Calibration(m, apply)
  BY DEF CalibrateEnd
<1>2. \A m \in Mics :
        /\ "applied" \in DOMAIN cal'[m] /\ cal'[m].applied \in BOOLEAN
        /\ cal'[m].applied => cal'[m].d \in DMin..ThrMax /\ cal'[m].a \in AMin..ThrMax
  BY <1>1, CalibrationType
<1>3. \A m \in Mics : thr[m] \in Threshold
  BY DEF CheckInv, SoundcheckTypeOK, Threshold
<1>4. thr' = [m \in Mics |-> IF cal'[m].applied
                             THEN [d |-> cal'[m].d, a |-> cal'[m].a, own |-> TRUE] ELSE thr[m]]
  BY DEF CalibrateEnd
<1>5. thr' \in [Mics -> Threshold]
  BY <1>2, <1>3, <1>4 DEF Threshold
<1>6. sampling' = FALSE /\ UNCHANGED <<limits, left, hist>>
  BY DEF CalibrateEnd
<1>7. QED
  BY <1>1, <1>2, <1>5, <1>6 DEF CheckInv, SoundcheckTypeOK, Threshold

LEMMA ThresholdsTyped ==
  ASSUME CheckInv, NEW m \in Mics, NEW s \in Stored, SetThresholds(m, s) PROVE CheckInv'
<1>1. limits.d \in DMin..ThrMax /\ limits.a \in AMin..ThrMax
  BY PolicyTyped DEF CheckInv, SoundcheckTypeOK, CheckPolicy
<1>2. DMin <= ThrMax /\ AMin <= ThrMax /\ s.d \in Int /\ s.a \in Int
  BY <1>1, SoundcheckAssumption
<1>3. Clamp(s.d, DMin, ThrMax) \in DMin..ThrMax /\ Clamp(s.a, AMin, ThrMax) \in AMin..ThrMax
  BY <1>2, ClampRange, SoundcheckAssumption
<1>4. thr' \in [Mics -> Threshold]
  BY <1>3 DEF SetThresholds, CheckInv, SoundcheckTypeOK, Threshold
<1>5. QED
  BY <1>4 DEF SetThresholds, CheckInv, SoundcheckTypeOK, Threshold

LEMMA ClearTyped == ASSUME CheckInv, ClearCalibration PROVE CheckInv'
<1>1. \A m \in Mics : [thr[m] EXCEPT !.own = FALSE] \in Threshold
  BY DEF CheckInv, SoundcheckTypeOK, Threshold
<1>2. limits \in Policies
  BY DEF CheckInv, SoundcheckTypeOK
<1>3. thr' \in [Mics -> Threshold]
  BY <1>1, <1>2, DerivedType DEF ClearCalibration
<1>4. QED
  BY <1>3 DEF ClearCalibration, CheckInv, SoundcheckTypeOK, Threshold

LEMMA PolicySetTyped == ASSUME CheckInv, NEW p \in Policies, SetPolicy(p) PROVE CheckInv'
<1>1. \A m \in Mics : thr[m] \in Threshold
  BY DEF CheckInv, SoundcheckTypeOK, Threshold
<1>2. thr' \in [Mics -> Threshold]
  BY <1>1, DerivedType DEF SetPolicy
<1>3. QED
  BY <1>2 DEF SetPolicy, CheckInv, SoundcheckTypeOK, Threshold

(* Every mic's thresholds stay within the clamp, whatever margins a policy or a
   store brings (clamped(), set_thresholds(), calibrate_end()); every statistic
   lands in a bin, and a running sampler has a block to take (sample()). *)
THEOREM SoundcheckTypeCorrect == CheckSpec => []SoundcheckTypeOK
<1>1. CheckInit => CheckInv
  BY CheckInitially
<1>2. CheckInv /\ [CheckNext]_checkVars => CheckInv'
  <2> SUFFICES ASSUME CheckInv, [CheckNext]_checkVars PROVE CheckInv'
    OBVIOUS
  <2>1. CASE \E in \in Blocks : Sample(in)
    BY <2>1, SampleTyped
  <2>2. CASE CalibrateBegin
    BY <2>2, BeginTyped
  <2>3. CASE \E apply \in BOOLEAN : CalibrateEnd(apply)
    BY <2>3, EndTyped
  <2>4. CASE \E m \in Mics, s \in Stored : SetThresholds(m, s)
    BY <2>4, ThresholdsTyped
  <2>5. CASE ClearCalibration
    BY <2>5, ClearTyped
  <2>6. CASE \E p \in Policies : SetPolicy(p)
    BY <2>6, PolicySetTyped
  <2>7. CASE UNCHANGED checkVars
    BY <2>7 DEF checkVars, CheckInv, SoundcheckTypeOK
  <2>8. QED
    BY <2>1, <2>2, <2>3, <2>4, <2>5, <2>6, <2>7 DEF CheckNext, Host
<1>3. CheckInv => SoundcheckTypeOK
  BY DEF CheckInv
<1>4. QED
  BY <1>1, <1>2, <1>3, PTL DEF CheckSpec

-------------------------------------------------------------------------------
(* The cumulative count.  CountTo is a recursive function: that one exists for
   every histogram, that two of them agree where both are defined, and what it
   counts all go by a least counterexample. *)

Sums(h, g, i) == g = [k \in 0..i |-> IF k = 0 THEN h[0] ELSE g[k - 1] + h[k]]

LEMMA SumsExist == ASSUME NEW h, NEW i \in Nat PROVE \E g : Sums(h, g, i)
<1> DEFINE T == {j \in Nat : ~ \E g : Sums(h, g, j)}
<1> SUFFICES T = {}
  OBVIOUS
<1> SUFFICES ASSUME T # {} PROVE FALSE
  OBVIOUS
<1>1. PICK j \in T : \A k \in T : j <= k
  <2> HIDE DEF T
  <2>1. T \subseteq Nat
    BY DEF T
  <2>2. QED
    BY <2>1, LeastExists
<1>2. j # 0
  <2> DEFINE g == [k \in 0..0 |-> h[0]]
  <2>1. Sums(h, g, 0)
    BY DEF Sums
  <2> HIDE DEF g
  <2>2. QED
    BY <2>1
<1>3. j - 1 \in Nat /\ j - 1 \notin T
  BY <1>1, <1>2
<1>4. PICK f : Sums(h, f, j - 1)
  BY <1>3
<1> DEFINE g == [k \in 0..j |-> IF k = j THEN f[j - 1] + h[j] ELSE f[k]]
<1>5. Sums(h, g, j)
  <2>1. ASSUME NEW k \in 0..j PROVE g[k] = IF k = 0 THEN h[0] ELSE g[k - 1] + h[k]
    <3>1. CASE k = j
      BY <1>2, <3>1
    <3>2. CASE k # j
      <4>1. k \in 0..(j - 1) /\ f[k] = IF k = 0 THEN h[0] ELSE f[k - 1] + h[k]
        BY <1>4, <3>2 DEF Sums
      <4>2. k # 0 => k - 1 \in 0..j /\ k - 1 # j
        BY <4>1
      <4>3. QED
        BY <3>2, <4>1, <4>2
    <3>3. QED
      BY <3>1, <3>2
  <2>2. g = [k \in 0..j |-> g[k]]
    OBVIOUS
  <2> HIDE DEF g
  <2>3. [k \in 0..j |-> g[k]] = [k \in 0..j |-> IF k = 0 THEN h[0] ELSE g[k - 1] + h[k]]
    BY <2>1
  <2>4. QED
    BY <2>2, <2>3 DEF Sums
<1> HIDE DEF g
<1>6. QED
  BY <1>5

LEMMA SumsAgree ==
  ASSUME NEW h, NEW i \in Nat, NEW j \in Nat, NEW f, NEW g, Sums(h, f, i), Sums(h, g, j),
         NEW k \in Nat, k <= i, k <= j
  PROVE  f[k] = g[k]
<1> DEFINE T == {l \in Nat : l <= i /\ l <= j /\ f[l] # g[l]}
<1> SUFFICES T = {}
  OBVIOUS
<1> SUFFICES ASSUME T # {} PROVE FALSE
  OBVIOUS
<1>1. PICK l \in T : \A n \in T : l <= n
  <2> HIDE DEF T
  <2>1. T \subseteq Nat
    BY DEF T
  <2>2. QED
    BY <2>1, LeastExists
<1>2. /\ f[l] = IF l = 0 THEN h[0] ELSE f[l - 1] + h[l]
      /\ g[l] = IF l = 0 THEN h[0] ELSE g[l - 1] + h[l]
  BY <1>1 DEF Sums
<1>3. l # 0
  BY <1>2
<1>4. f[l - 1] = g[l - 1]
  BY <1>1, <1>3
<1>5. QED
  BY <1>2, <1>3, <1>4

(* The equation of the count. *)
LEMMA CountStep ==
  ASSUME NEW h, NEW i \in Nat
  PROVE  CountTo(h, i) = IF i = 0 THEN h[0] ELSE CountTo(h, i - 1) + h[i]
<1> DEFINE Sum(j) == CHOOSE g : Sums(h, g, j)
<1>1. \A j \in Nat : Sums(h, Sum(j), j) /\ CountTo(h, j) = Sum(j)[j]
  <2> TAKE j \in Nat
  <2>1. Sums(h, Sum(j), j)
    BY SumsExist
  <2>2. CountTo(h, j) = Sum(j)[j]
    BY DEF CountTo, Sums
  <2>3. QED
    BY <2>1, <2>2
<1> HIDE DEF Sum
<1>2. Sum(i)[i] = IF i = 0 THEN h[0] ELSE Sum(i)[i - 1] + h[i]
  BY <1>1 DEF Sums
<1>3. i # 0 => Sum(i)[i - 1] = Sum(i - 1)[i - 1]
  <2> SUFFICES ASSUME i # 0 PROVE Sum(i)[i - 1] = Sum(i - 1)[i - 1]
    OBVIOUS
  <2>1. i - 1 \in Nat /\ i - 1 <= i
    OBVIOUS
  <2>2. QED
    BY <1>1, <2>1, SumsAgree
<1>4. i # 0 => CountTo(h, i - 1) = Sum(i - 1)[i - 1]
  BY <1>1
<1>5. QED
  BY <1>1, <1>2, <1>3, <1>4

(* A count is at least the bins it is made of. *)
LEMMA CountType ==
  ASSUME NEW b \in Nat, NEW h \in [0..b -> Nat], NEW i \in 0..b
  PROVE  CountTo(h, i) \in Nat /\ CountTo(h, i) >= h[i] /\ (i > 0 => CountTo(h, i) >= CountTo(h, i - 1))
<1> DEFINE T == {j \in Nat : j <= b /\ CountTo(h, j) \notin Nat}
<1>1. T = {}
  <2> SUFFICES ASSUME T # {} PROVE FALSE
    OBVIOUS
  <2>1. PICK j \in T : \A k \in T : j <= k
    <3> HIDE DEF T
    <3>1. T \subseteq Nat
      BY DEF T
    <3>2. QED
      BY <3>1, LeastExists
  <2>2. j \in 0..b /\ h[j] \in Nat /\ h[0] \in Nat
    BY <2>1
  <2>3. j # 0 => CountTo(h, j - 1) \in Nat
    BY <2>1
  <2>4. CountTo(h, j) = IF j = 0 THEN h[0] ELSE CountTo(h, j - 1) + h[j]
    BY <2>2, CountStep
  <2>5. QED
    BY <2>1, <2>2, <2>3, <2>4
<1>2. \A j \in 0..b : CountTo(h, j) \in Nat
  BY <1>1
<1>3. CountTo(h, i) = IF i = 0 THEN h[0] ELSE CountTo(h, i - 1) + h[i]
  BY CountStep
<1>4. i > 0 => i - 1 \in 0..b
  OBVIOUS
<1>5. h[i] \in Nat /\ h[0] \in Nat
  OBVIOUS
<1>6. QED
  BY <1>2, <1>3, <1>4, <1>5

LEMMA CountMonotone ==
  ASSUME NEW b \in Nat, NEW h \in [0..b -> Nat], NEW i \in 0..b, NEW j \in 0..i
  PROVE  CountTo(h, j) <= CountTo(h, i)
<1> DEFINE T == {k \in Nat : j <= k /\ k <= b /\ ~ (CountTo(h, j) <= CountTo(h, k))}
<1> SUFFICES T = {}
  OBVIOUS
<1> SUFFICES ASSUME T # {} PROVE FALSE
  OBVIOUS
<1>1. PICK k \in T : \A n \in T : k <= n
  <2> HIDE DEF T
  <2>1. T \subseteq Nat
    BY DEF T
  <2>2. QED
    BY <2>1, LeastExists
<1>2. k \in 0..b /\ j \in 0..b /\ CountTo(h, j) \in Nat /\ CountTo(h, k) \in Nat
  BY <1>1, CountType
<1>3. k # j
  BY <1>1, <1>2
<1>4. k > 0 /\ k - 1 \in 0..b /\ k - 1 \notin T
  BY <1>1, <1>2, <1>3
<1>5. CountTo(h, k) >= CountTo(h, k - 1) /\ CountTo(h, k - 1) \in Nat
  BY <1>2, <1>4, CountType
<1>6. CountTo(h, j) <= CountTo(h, k - 1)
  BY <1>3, <1>4, <1>2
<1>7. QED
  BY <1>1, <1>2, <1>5, <1>6

(* A bin that is not full counts one more, for every bin above it. *)
LEMMA CountAdded ==
  ASSUME NEW b \in Nat, NEW h \in [0..b -> 0..MaxCount], NEW v \in 0..b, h[v] < MaxCount, NEW i \in 0..b
  PROVE  CountTo(Counted(h, v), i) = CountTo(h, i) + (IF v <= i THEN 1 ELSE 0)
<1> DEFINE g == Counted(h, v)
           T == {k \in Nat : k <= b /\ CountTo(g, k) # CountTo(h, k) + (IF v <= k THEN 1 ELSE 0)}
<1>1. h \in [0..b -> Nat] /\ g \in [0..b -> Nat]
      /\ \A k \in 0..b : g[k] = IF k = v THEN h[k] + 1 ELSE h[k]
  BY SoundcheckAssumption DEF Counted
<1> HIDE DEF g
<1> SUFFICES T = {}
  BY DEF g
<1> SUFFICES ASSUME T # {} PROVE FALSE
  OBVIOUS
<1>2. PICK k \in T : \A n \in T : k <= n
  <2> HIDE DEF T
  <2>1. T \subseteq Nat
    BY DEF T
  <2>2. QED
    BY <2>1, LeastExists
<1>3. /\ CountTo(h, k) = IF k = 0 THEN h[0] ELSE CountTo(h, k - 1) + h[k]
      /\ CountTo(g, k) = IF k = 0 THEN g[0] ELSE CountTo(g, k - 1) + g[k]
  BY <1>2, CountStep
<1>4. k \in 0..b /\ h[k] \in Nat /\ g[k] = IF k = v THEN h[k] + 1 ELSE h[k]
  BY <1>1, <1>2
<1>5. CASE k = 0
  BY <1>2, <1>3, <1>4, <1>5
<1>6. CASE k # 0
  <2>1. k - 1 \in 0..b /\ k - 1 \notin T /\ CountTo(h, k - 1) \in Nat
    <3>1. k - 1 \in 0..b /\ k - 1 \notin T
      BY <1>2, <1>4, <1>6
    <3>2. CountTo(h, k - 1) \in Nat
      BY <1>1, <3>1, CountType
    <3>3. QED
      BY <3>1, <3>2
  <2>2. CountTo(g, k - 1) = CountTo(h, k - 1) + (IF v <= k - 1 THEN 1 ELSE 0)
    BY <1>4, <1>6, <2>1
  <2>3. CountTo(h, k) = CountTo(h, k - 1) + h[k] /\ CountTo(g, k) = CountTo(g, k - 1) + g[k]
    BY <1>3, <1>6
  <2>4. CASE v = k
    BY <1>2, <1>4, <2>1, <2>2, <2>3, <2>4
  <2>5. CASE v < k
    BY <1>2, <1>4, <2>1, <2>2, <2>3, <2>5
  <2>6. CASE v > k
    BY <1>2, <1>4, <2>1, <2>2, <2>3, <2>6
  <2>7. QED
    BY <1>4, <2>4, <2>5, <2>6
<1>7. QED
  BY <1>5, <1>6

(* An empty histogram counts nothing. *)
LEMMA CountEmpty ==
  ASSUME NEW b \in Nat, NEW i \in 0..b PROVE CountTo([k \in 0..b |-> 0], i) = 0
<1> DEFINE h == [k \in 0..b |-> 0]
           T == {k \in Nat : k <= b /\ CountTo(h, k) # 0}
<1>0. \A k \in 0..b : h[k] = 0
  OBVIOUS
<1> HIDE DEF h
<1> SUFFICES T = {}
  BY DEF h
<1> SUFFICES ASSUME T # {} PROVE FALSE
  OBVIOUS
<1>1. PICK k \in T : \A n \in T : k <= n
  <2> HIDE DEF T
  <2>1. T \subseteq Nat
    BY DEF T
  <2>2. QED
    BY <2>1, LeastExists
<1>2. CountTo(h, k) = IF k = 0 THEN h[0] ELSE CountTo(h, k - 1) + h[k]
  BY <1>1, CountStep
<1>3. k \in 0..b /\ h[k] = 0 /\ h[0] = 0 /\ (k # 0 => CountTo(h, k - 1) = 0)
  BY <1>0, <1>1
<1>4. QED
  BY <1>1, <1>2, <1>3

-------------------------------------------------------------------------------
(* A mic's own thresholds.  A calibration applies when the histogram of D holds
   something; that it does exactly when the soundcheck heard a block is the
   strengthening, for the sampler stores the histogram and not the blocks. *)

Total(h) == CountTo(h, DBins - 1)

Both(t) == [d |-> t.d, a |-> t.a]

(* A mic has thresholds of its own when it was given some, and those; else the
   policy's. *)
Assigned(t, g, p) == /\ t.own <=> g # None
                     /\ Both(t) = IF g = None THEN Both(p) ELSE g

OwnInv ==
  /\ WindowInv /\ CheckInv
  /\ given \in [Mics -> [d : Int, a : Int]]
  /\ \A m \in Mics : Total(hist[m].d) = 0 <=> heard = <<>>
  /\ \A m \in Mics : Assigned(thr[m], given[m], limits)

(* Thresholds within the clamp are not the mark of having been given none. *)
LEMMA GivenSome ==
  ASSUME NEW x \in DMin..ThrMax, NEW y
  PROVE  [d |-> x, a |-> y] # None
<1>1. x # DMin - 1
  BY SoundcheckAssumption
<1>2. QED
  BY <1>1 DEF None

(* A sampled block leaves no histogram empty: its bin counts it, or is full. *)
LEMMA SampledIsCounted ==
  ASSUME NEW h \in DHist, NEW v \in 0..DBins-1
  PROVE  Total(Counted(h, v)) \in Nat /\ Total(Counted(h, v)) # 0
<1> DEFINE b == DBins - 1
           g == Counted(h, v)
<1>1. b \in Nat /\ 0..DBins-1 = 0..b /\ v \in 0..b /\ b \in 0..b /\ v \in 0..b
  BY SoundcheckAssumption
<1>2. g \in [0..b -> Nat] /\ g[v] # 0
  <2>1. h \in [0..b -> 0..MaxCount] /\ h[v] \in 0..MaxCount
    BY <1>1 DEF DHist
  <2>2. g \in [0..b -> 0..MaxCount]
    BY <2>1, <1>1, CountedType, SoundcheckAssumption DEF DHist
  <2>3. g[v] = IF h[v] < MaxCount THEN h[v] + 1 ELSE h[v]
    BY <2>1, <1>1 DEF Counted
  <2>4. g[v] # 0
    BY <2>1, <2>3, SoundcheckAssumption
  <2>5. 0..MaxCount \subseteq Nat
    OBVIOUS
  <2> HIDE DEF g
  <2>6. QED
    BY <2>2, <2>4, <2>5
<1> HIDE DEF g
<1>3. CountTo(g, v) \in Nat /\ CountTo(g, v) >= g[v] /\ g[v] \in Nat
  BY <1>1, <1>2, CountType
<1>4. CountTo(g, b) \in Nat /\ CountTo(g, v) <= CountTo(g, b)
  <2>1. CountTo(g, b) \in Nat
    BY <1>1, <1>2, CountType
  <2>2. v \in 0..b
    BY <1>1
  <2>3. CountTo(g, v) <= CountTo(g, b)
    BY <1>1, <1>2, <2>2, CountMonotone
  <2>4. QED
    BY <2>1, <2>3
<1>5. CountTo(g, b) # 0
  BY <1>2, <1>3, <1>4
<1>6. QED
  BY <1>4, <1>5 DEF Total, g

LEMMA OwnInitially == ASSUME CheckHistoryInit PROVE OwnInv
<1>1. WindowInv /\ CheckInv
  BY WindowInitially, CheckInitially DEF CheckHistoryInit
<1>2. given \in [Mics -> [d : Int, a : Int]]
  BY SoundcheckAssumption DEF CheckHistoryInit, None
<1>3. \A m \in Mics : hist[m].d = [i \in 0..DBins-1 |-> 0] /\ heard = <<>>
  BY DEF CheckHistoryInit, CheckInit, Clean
<1>4. DBins - 1 \in Nat /\ DBins - 1 \in 0..DBins-1
  BY SoundcheckAssumption
<1>5. \A m \in Mics : Total(hist[m].d) = 0
  BY <1>3, <1>4, CountEmpty DEF Total
<1>6. \A m \in Mics : Assigned(thr[m], given[m], limits)
  BY DEF CheckHistoryInit, CheckInit, Assigned, Both
<1>7. QED
  BY <1>1, <1>2, <1>3, <1>5, <1>6 DEF OwnInv

LEMMA SampleKeepsOwn ==
  ASSUME OwnInv, NEW in \in Blocks, HistorySample(in) PROVE OwnInv'
<1>1. WindowInv' /\ CheckInv'
  BY SampleKeepsWindow, SampleTyped DEF OwnInv, HistorySample
<1>2. UNCHANGED <<limits, thr, given>>
  BY DEF HistorySample, Sample
<1>3. heard' # <<>>
  <2> DEFINE r == [m \in Mics |-> Read(in[m])]
  <2>1. heard' = Append(heard, r)
    BY DEF HistorySample
  <2>2. r \in [Mics -> [d : Int, a : Int]] /\ heard \in Seq([Mics -> [d : Int, a : Int]])
    BY SoundcheckAssumption DEF Blocks, Read, OwnInv, WindowInv
  <2> HIDE DEF r
  <2>3. Len(heard') = Len(heard) + 1 /\ Len(heard) \in Nat
    BY <2>1, <2>2
  <2>4. Len(heard') # 0
    BY <2>3
  <2>5. QED
    BY <2>4
<1>4. ASSUME NEW m \in Mics PROVE Total(hist'[m].d) # 0
  <2>1. hist[m].d \in DHist
    BY DEF OwnInv, CheckInv, SoundcheckTypeOK
  <2>2. Read(in[m]).d \in Int
    BY SoundcheckAssumption DEF Blocks, Read
  <2>3. Bin(Read(in[m]).d, DLo, DBins) \in 0..DBins-1
    BY <2>2, BinRange, SoundcheckAssumption
  <2>4. hist'[m].d = Counted(hist[m].d, Bin(Read(in[m]).d, DLo, DBins))
    BY DEF HistorySample, Sample, Sampled
  <2>5. QED
    BY <2>1, <2>3, <2>4, SampledIsCounted
<1>5. QED
  BY <1>1, <1>2, <1>3, <1>4 DEF OwnInv

LEMMA BeginKeepsOwn == ASSUME OwnInv, HistoryBegin PROVE OwnInv'
<1>1. WindowInv' /\ CheckInv'
  BY BeginKeepsWindow, BeginTyped DEF OwnInv, HistoryBegin
<1>2. UNCHANGED <<limits, thr, given>> /\ heard' = <<>>
  BY DEF HistoryBegin, CalibrateBegin
<1>3. \A m \in Mics : hist'[m].d = [i \in 0..DBins-1 |-> 0]
  BY DEF HistoryBegin, CalibrateBegin, Clean
<1>4. DBins - 1 \in Nat /\ DBins - 1 \in 0..DBins-1
  BY SoundcheckAssumption
<1>5. \A m \in Mics : Total(hist'[m].d) = 0
  BY <1>3, <1>4, CountEmpty DEF Total
<1>6. QED
  BY <1>1, <1>2, <1>5 DEF OwnInv

(* A calibration applies when it was asked to and something was heard. *)
LEMMA AppliedWhenHeard ==
  ASSUME OwnInv, NEW apply \in BOOLEAN, NEW m \in Mics
  PROVE  Calibration(m, apply).applied <=> (apply /\ heard # <<>>)
<1> DEFINE n == CountTo(hist[m].d, DBins - 1)
<1>1. n = 0 <=> heard = <<>>
  BY DEF OwnInv, Total
<1>2. "applied" \in DOMAIN cal[m]
  BY DEF OwnInv, CheckInv
<1>3. CASE n = 0
  <2>1. Calibration(m, apply).applied = FALSE
    BY <1>2, <1>3 DEF Calibration
  <2>2. QED
    BY <1>1, <1>3, <2>1
<1>4. CASE n # 0
  <2>1. Calibration(m, apply).applied = apply
    BY <1>4 DEF Calibration
  <2>2. QED
    BY <1>1, <1>4, <2>1
<1>5. QED
  BY <1>3, <1>4

LEMMA EndKeepsOwn ==
  ASSUME OwnInv, NEW apply \in BOOLEAN, HistoryEnd(apply) PROVE OwnInv'
<1>1. WindowInv' /\ CheckInv'
  BY EndKeepsWindow, EndTyped DEF OwnInv, HistoryEnd
<1>2. UNCHANGED <<limits, hist, heard>>
  BY DEF HistoryEnd, CalibrateEnd
<1>3. ASSUME NEW m \in Mics
      PROVE  given'[m] \in [d : Int, a : Int] /\ Assigned(thr'[m], given'[m], limits)
  <2> DEFINE c == Calibration(m, apply)
             given_now == [d |-> c.d, a |-> c.a]
  <2>1. cal'[m] = c
    BY DEF HistoryEnd, CalibrateEnd
  <2>2. c.applied <=> (apply /\ heard # <<>>)
    BY AppliedWhenHeard
  <2>3. c.applied => c.d \in DMin..ThrMax /\ c.a \in AMin..ThrMax
    BY CalibrationType DEF OwnInv
  <2>4. thr'[m] = IF c.applied THEN [d |-> c.d, a |-> c.a, own |-> TRUE] ELSE thr[m]
    BY <2>1 DEF HistoryEnd, CalibrateEnd
  <2>5. given'[m] = IF apply /\ heard # <<>> THEN given_now ELSE given[m]
    BY <2>1 DEF HistoryEnd
  <2> HIDE DEF c
  <2>6. CASE c.applied
    <3>1. given_now # None
      BY <2>3, <2>6, GivenSome
    <3>2. thr'[m] = [d |-> c.d, a |-> c.a, own |-> TRUE] /\ given'[m] = given_now
      BY <2>2, <2>4, <2>5, <2>6
    <3>3. given_now \in [d : Int, a : Int]
      BY <2>3, <2>6, SoundcheckAssumption
    <3>4. QED
      BY <3>1, <3>2, <3>3 DEF Assigned, Both
  <2>7. CASE ~ c.applied
    BY <2>2, <2>4, <2>5, <2>7 DEF OwnInv
  <2>8. QED
    BY <2>6, <2>7
<1>4. given' \in [Mics -> [d : Int, a : Int]]
  <2>1. given' = [m \in Mics |-> given'[m]]
    BY DEF HistoryEnd
  <2>2. QED
    BY <1>3, <2>1
<1>5. QED
  BY <1>1, <1>2, <1>3, <1>4 DEF OwnInv

LEMMA HostKeepsOwn == ASSUME OwnInv, HistoryHost PROVE OwnInv'
<1>1. WindowInv' /\ CheckInv'
  BY HostKeepsWindow, ThresholdsTyped, ClearTyped, PolicySetTyped DEF OwnInv, HistoryHost
<1>2. hist' = hist /\ heard' = heard
  BY DEF HistoryHost, SetThresholds, ClearCalibration, SetPolicy
<1>3. ASSUME NEW m \in Mics, NEW s \in Stored, SetThresholds(m, s),
             given' = [given EXCEPT ![m] = [d |-> Clamp(s.d, DMin, ThrMax),
                                            a |-> Clamp(s.a, AMin, ThrMax)]]
      PROVE  OwnInv'
  <2> DEFINE x == Clamp(s.d, DMin, ThrMax)
             y == Clamp(s.a, AMin, ThrMax)
  <2>1. x \in DMin..ThrMax /\ y \in AMin..ThrMax
    <3>1. limits.d \in DMin..ThrMax /\ limits.a \in AMin..ThrMax
      BY PolicyTyped DEF OwnInv, CheckInv, SoundcheckTypeOK, CheckPolicy
    <3>2. DMin <= ThrMax /\ AMin <= ThrMax /\ s.d \in Int /\ s.a \in Int
      BY <3>1, SoundcheckAssumption
    <3>3. QED
      BY <3>2, ClampRange, SoundcheckAssumption
  <2>2. limits' = limits /\ thr' = [thr EXCEPT ![m] = [d |-> x, a |-> y, own |-> TRUE]]
    BY <1>3 DEF SetThresholds
  <2>3. given' = [given EXCEPT ![m] = [d |-> x, a |-> y]]
    BY <1>3
  <2> HIDE DEF x, y
  <2>4. [d |-> x, a |-> y] # None /\ [d |-> x, a |-> y] \in [d : Int, a : Int]
    BY <2>1, GivenSome, SoundcheckAssumption
  <2>5. given' \in [Mics -> [d : Int, a : Int]]
    BY <2>3, <2>4 DEF OwnInv
  <2>6. DOMAIN thr = Mics
    BY DEF OwnInv, CheckInv, SoundcheckTypeOK
  <2>7. ASSUME NEW k \in Mics PROVE Assigned(thr'[k], given'[k], limits')
    <3>1. CASE k = m
      <4>1. thr'[k] = [d |-> x, a |-> y, own |-> TRUE] /\ given'[k] = [d |-> x, a |-> y]
        BY <2>2, <2>3, <2>6, <3>1 DEF OwnInv
      <4>2. QED
        BY <2>4, <4>1 DEF Assigned, Both
    <3>2. CASE k # m
      BY <2>2, <2>3, <2>6, <3>2 DEF OwnInv
    <3>3. QED
      BY <3>1, <3>2
  <2>8. QED
    BY <1>1, <1>2, <2>5, <2>7 DEF OwnInv
<1>4. ASSUME ClearCalibration, given' = [m \in Mics |-> None] PROVE OwnInv'
  <2>1. given' \in [Mics -> [d : Int, a : Int]]
    BY <1>4, SoundcheckAssumption DEF None
  <2>2. ASSUME NEW m \in Mics PROVE Assigned(thr'[m], given'[m], limits')
    <3>1. thr[m] \in Threshold
      BY DEF OwnInv, CheckInv, SoundcheckTypeOK, Threshold
    <3>2. thr'[m] = [thr[m] EXCEPT !.own = FALSE, !.d = limits.d, !.a = limits.a]
      BY <1>4, <3>1 DEF ClearCalibration, Derived, Threshold
    <3>3. ~ thr'[m].own /\ Both(thr'[m]) = Both(limits)
      BY <3>1, <3>2 DEF Both, Threshold
    <3>4. QED
      BY <1>4, <3>3 DEF Assigned, ClearCalibration
  <2>3. QED
    BY <1>1, <1>2, <2>1, <2>2 DEF OwnInv
<1>5. ASSUME NEW p \in Policies, SetPolicy(p), given' = given PROVE OwnInv'
  <2>1. ASSUME NEW m \in Mics PROVE Assigned(thr'[m], given'[m], limits')
    <3>1. thr[m] \in Threshold /\ Assigned(thr[m], given[m], limits)
      BY DEF OwnInv, CheckInv, SoundcheckTypeOK, Threshold
    <3>2. thr'[m] = Derived(thr[m], p) /\ limits' = p /\ given'[m] = given[m]
      BY <1>5 DEF SetPolicy
    <3>3. CASE thr[m].own
      BY <3>1, <3>2, <3>3 DEF Assigned, Both, Derived
    <3>4. CASE ~ thr[m].own
      <4>1. thr'[m] = [thr[m] EXCEPT !.d = p.d, !.a = p.a]
        BY <3>2, <3>4 DEF Derived
      <4>2. ~ thr'[m].own /\ Both(thr'[m]) = Both(p)
        BY <3>1, <3>4, <4>1 DEF Both, Threshold
      <4>3. QED
        BY <3>1, <3>2, <3>4, <4>2 DEF Assigned
    <3>5. QED
      BY <3>3, <3>4
  <2>2. QED
    BY <1>1, <1>2, <1>5, <2>1 DEF OwnInv
<1>6. QED
  BY <1>3, <1>4, <1>5 DEF HistoryHost

(* A mic keeps the thresholds it was last given, by the host or by a soundcheck
   that heard something, until the host clears them; every other mic runs on the
   policy's (set_policy(), set_thresholds(), clear_calibration(),
   calibrate_end()). *)
THEOREM ThresholdsAlwaysKept == CheckHistorySpec => []OwnThresholdsKept
<1>1. CheckHistoryInit => OwnInv
  BY OwnInitially
<1>2. OwnInv /\ [CheckHistoryNext]_checkHistoryVars => OwnInv'
  <2> SUFFICES ASSUME OwnInv, [CheckHistoryNext]_checkHistoryVars PROVE OwnInv'
    OBVIOUS
  <2>1. CASE \E in \in Blocks : HistorySample(in)
    BY <2>1, SampleKeepsOwn
  <2>2. CASE HistoryBegin
    BY <2>2, BeginKeepsOwn
  <2>3. CASE \E apply \in BOOLEAN : HistoryEnd(apply)
    BY <2>3, EndKeepsOwn
  <2>4. CASE HistoryHost
    BY <2>4, HostKeepsOwn
  <2>5. CASE UNCHANGED checkHistoryVars
    BY <2>5 DEF checkHistoryVars, checkVars, OwnInv, WindowInv, WindowKept, CheckInv,
       SoundcheckTypeOK
  <2>6. QED
    BY <2>1, <2>2, <2>3, <2>4, <2>5 DEF CheckHistoryNext
<1>3. OwnInv => OwnThresholdsKept
  BY DEF OwnInv, OwnThresholdsKept, Assigned, Both
<1>4. QED
  BY <1>1, <1>2, <1>3, PTL DEF CheckHistorySpec

-------------------------------------------------------------------------------
(* The figures of a calibration.  A histogram whose bins did not saturate tells,
   of every bin, how many of the blocks fell into it or below; from that on a
   quantile is found by counting. *)

(* The blocks that fall into bin i or below. *)
UpTo(v, lo, bins, i) == {k \in DOMAIN v : Bin(v[k], lo, bins) <= i}

Tallies(h, v, lo, bins) == \A i \in 0..bins-1 : CountTo(h, i) = Cardinality(UpTo(v, lo, bins, i))

(* What a mic read of a soundcheck, as QuantilesAreOfTheWindow takes it. *)
Ds(seq, m) == [k \in 1..Len(seq) |-> seq[k][m].d]
As(seq, m) == [k \in 1..Len(seq) |-> seq[k][m].a]

LEMMA UpToFinite ==
  ASSUME NEW n \in Nat, NEW v \in [1..n -> Int], NEW lo, NEW bins, NEW i
  PROVE  IsFiniteSet(UpTo(v, lo, bins, i)) /\ Cardinality(UpTo(v, lo, bins, i)) \in 0..n
<1>1. IsFiniteSet(1..n) /\ Cardinality(1..n) = n
  BY FS_Interval
<1>2. UpTo(v, lo, bins, i) \in SUBSET (1..n)
  BY DEF UpTo
<1> HIDE DEF UpTo
<1>3. IsFiniteSet(UpTo(v, lo, bins, i)) /\ Cardinality(UpTo(v, lo, bins, i)) <= n
  BY <1>1, <1>2, FS_Subset
<1>4. QED
  BY <1>3, FS_CardinalityType

(* Nothing heard, nothing counted. *)
LEMMA TallyEmpty ==
  ASSUME NEW lo, NEW bins \in Nat \ {0}, NEW v \in [1..0 -> Int]
  PROVE  Tallies([k \in 0..bins-1 |-> 0], v, lo, bins)
<1>1. ASSUME NEW i \in 0..bins-1
      PROVE  CountTo([k \in 0..bins-1 |-> 0], i) = Cardinality(UpTo(v, lo, bins, i))
  <2>1. CountTo([k \in 0..bins-1 |-> 0], i) = 0
    BY CountEmpty
  <2>2. UpTo(v, lo, bins, i) = {}
    BY DEF UpTo
  <2>3. QED
    BY <2>1, <2>2, FS_EmptySet
<1>2. QED
  BY <1>1 DEF Tallies

(* One block more, one more in its bin and above: no bin holds more than the
   blocks so far, so none of them is full. *)
LEMMA TallyAdded ==
  ASSUME NEW lo \in Int, NEW bins \in Nat \ {0}, NEW n \in Nat, n < MaxCount,
         NEW v \in [1..n -> Int], NEW w \in [1..(n + 1) -> Int], \A k \in 1..n : w[k] = v[k],
         NEW h \in [0..bins-1 -> 0..MaxCount], Tallies(h, v, lo, bins)
  PROVE  Tallies(Counted(h, Bin(w[n + 1], lo, bins)), w, lo, bins)
<1> DEFINE b == bins - 1
           x == Bin(w[n + 1], lo, bins)
<1>1. b \in Nat /\ x \in 0..b
  <2>1. n + 1 \in 1..(n + 1) /\ w[n + 1] \in Int
    OBVIOUS
  <2>2. x \in 0..bins-1
    BY <2>1, BinRange
  <2> HIDE DEF x
  <2>3. QED
    BY <2>2
<1>2. h \in [0..b -> 0..MaxCount] /\ h \in [0..b -> Nat]
  BY SoundcheckAssumption
<1>3. \A i \in 0..b : CountTo(h, i) = Cardinality(UpTo(v, lo, bins, i))
  BY DEF Tallies
<1>4. h[x] < MaxCount
  <2>1. CountTo(h, x) \in Nat /\ CountTo(h, x) >= h[x] /\ h[x] \in Nat
    BY <1>1, <1>2, CountType
  <2>2. CountTo(h, x) \in 0..n
    <3>1. Cardinality(UpTo(v, lo, bins, x)) \in 0..n
      BY UpToFinite
    <3> HIDE DEF x
    <3>2. QED
      BY <1>1, <1>3, <3>1
  <2>3. QED
    BY <2>1, <2>2, SoundcheckAssumption
<1>5. ASSUME NEW i \in 0..b
      PROVE  CountTo(Counted(h, x), i) = Cardinality(UpTo(w, lo, bins, i))
  <2>1. CountTo(Counted(h, x), i) = CountTo(h, i) + (IF x <= i THEN 1 ELSE 0)
    BY <1>1, <1>2, <1>4, CountAdded
  <2> DEFINE old == UpTo(v, lo, bins, i)
  <2>2. IsFiniteSet(old) /\ n + 1 \notin old /\ CountTo(h, i) = Cardinality(old) /\ Cardinality(old) \in Nat
    <3>1. IsFiniteSet(old) /\ Cardinality(old) \in Nat
      <4>1. IsFiniteSet(old) /\ Cardinality(old) \in 0..n
        BY UpToFinite
      <4> HIDE DEF old
      <4>2. QED
        BY <4>1
    <3>2. n + 1 \notin old
      <4>1. DOMAIN v = 1..n
        OBVIOUS
      <4>2. old \subseteq 1..n
        BY <4>1 DEF UpTo
      <4> HIDE DEF old
      <4>3. QED
        BY <4>2
    <3>3. QED
      BY <1>3, <3>1, <3>2
  <2>3. UpTo(w, lo, bins, i) = IF x <= i THEN old \cup {n + 1} ELSE old
    <3>1. DOMAIN v = 1..n /\ DOMAIN w = 1..(n + 1)
      OBVIOUS
    <3>2. ASSUME NEW k \in 1..(n + 1)
          PROVE  k \in UpTo(w, lo, bins, i) <=> k \in old \/ (k = n + 1 /\ x <= i)
      <4>1. CASE k = n + 1
        BY <2>2, <3>1, <4>1 DEF UpTo
      <4>2. CASE k # n + 1
        <5>1. k \in 1..n /\ w[k] = v[k]
          BY <4>2
        <5> HIDE DEF x
        <5>2. QED
          BY <3>1, <4>2, <5>1 DEF UpTo
      <4>3. QED
        BY <4>1, <4>2
    <3>3. UpTo(w, lo, bins, i) \subseteq 1..(n + 1) /\ old \subseteq 1..(n + 1)
      BY <3>1 DEF UpTo
    <3> DEFINE new == UpTo(w, lo, bins, i)
               last == n + 1
    <3>4. new \subseteq 1..last /\ old \subseteq 1..last /\ last \in 1..last
          /\ \A k \in 1..last : k \in new <=> k \in old \/ (k = last /\ x <= i)
      BY <3>2, <3>3
    <3> HIDE DEF x, old, new, last
    <3>5. x <= i => new = old \cup {last}
      BY <3>4
    <3>6. ~ (x <= i) => new = old
      BY <3>4
    <3>7. QED
      BY <3>5, <3>6 DEF new, last
  <2> HIDE DEF old, x
  <2>4. CASE x <= i
    <3>1. Cardinality(old \cup {n + 1}) = Cardinality(old) + 1
      BY <2>2, FS_AddElement
    <3>2. QED
      BY <2>1, <2>2, <2>3, <2>4, <3>1
  <2>5. CASE ~ (x <= i)
    BY <2>1, <2>2, <2>3, <2>5
  <2>6. QED
    BY <2>4, <2>5
<1>6. QED
  BY <1>5 DEF Tallies

LEMMA UpToGrows ==
  ASSUME NEW n \in Nat, NEW v \in [1..n -> Int], NEW lo \in Int, NEW bins \in Nat \ {0},
         NEW i \in Int, NEW j \in Int, i <= j
  PROVE  Cardinality(UpTo(v, lo, bins, i)) <= Cardinality(UpTo(v, lo, bins, j))
<1>1. \A k \in 1..n : Bin(v[k], lo, bins) \in Int
  <2> TAKE k \in 1..n
  <2>1. Bin(v[k], lo, bins) \in 0..bins-1
    BY BinRange
  <2>2. QED
    BY <2>1
<1>2. DOMAIN v = 1..n
  OBVIOUS
<1>3. UpTo(v, lo, bins, i) \in SUBSET UpTo(v, lo, bins, j)
  BY <1>1, <1>2 DEF UpTo
<1>4. QED
  BY <1>3, UpToFinite, FS_Subset

LEMMA RankRange == ASSUME NEW n \in Nat \ {0}, NEW q \in Quantiles PROVE Rank(q, n) \in 1..n
<1>1. (n + 1) \div 2 \in 1..n /\ (95 * n + 99) \div 100 \in 1..n
  OBVIOUS
<1>2. q \in {"median", "p95", "highest"}
  BY DEF Quantiles
<1>3. CASE q = "median"
  BY <1>1, <1>3 DEF Rank
<1>4. CASE q = "p95"
  BY <1>1, <1>4 DEF Rank
<1>5. CASE q = "highest"
  BY <1>5 DEF Rank
<1>6. QED
  BY <1>2, <1>3, <1>4, <1>5

(* The first bin whose count reaches the rank holds the value of that rank, and
   no other bin does. *)
LEMMA QuantileIsRanked ==
  ASSUME NEW lo \in Int, NEW bins \in Nat \ {0}, NEW n \in Nat \ {0},
         NEW v \in [1..n -> Int], NEW h, Tallies(h, v, lo, bins), NEW q \in Quantiles
  PROVE  Quantile(h, bins, n, q, lo) = Ranked(v, Rank(q, n), lo, bins)
<1> DEFINE r == Rank(q, n)
           B(k) == Bin(v[k], lo, bins)
           C(i) == Cardinality(UpTo(v, lo, bins, i))
           reach == {i \in 0..bins-1 : CountTo(h, i) >= r}
           first == CHOOSE i \in reach : \A j \in reach : i <= j
<1>1. r \in 1..n
  BY RankRange
<1>2. \A k \in 1..n : B(k) \in 0..bins-1
  BY BinRange
<1>3. \A i : C(i) \in 0..n
  BY UpToFinite
<1>4. \A i, j \in Int : i <= j => C(i) <= C(j)
  BY UpToGrows
<1>5. \A i \in 0..bins-1 : CountTo(h, i) = C(i)
  BY DEF Tallies
<1>6. DOMAIN v = 1..n
  OBVIOUS
<1>7. C(bins - 1) = n /\ C(-1) = 0
  <2>1. UpTo(v, lo, bins, bins - 1) = 1..n
    BY <1>2, <1>6 DEF UpTo
  <2>2. UpTo(v, lo, bins, -1) = {}
    BY <1>2, <1>6 DEF UpTo
  <2>3. Cardinality(1..n) = n
    BY FS_Interval
  <2>4. QED
    BY <2>1, <2>2, <2>3, FS_EmptySet
<1>8. reach \subseteq Nat /\ reach # {} /\ \A i : i \in reach <=> i \in 0..bins-1 /\ C(i) >= r
  <2>1. bins - 1 \in 0..bins-1
    OBVIOUS
  <2> HIDE DEF r, C
  <2>2. \A i : i \in reach <=> i \in 0..bins-1 /\ C(i) >= r
    BY <1>5
  <2>3. bins - 1 \in reach
    BY <1>1, <1>7, <2>1, <2>2
  <2>4. QED
    BY <2>2, <2>3
<1> HIDE DEF r, B, C, reach
<1>9. first \in reach /\ \A j \in reach : first <= j
  <2>1. \E i \in reach : \A j \in reach : i <= j
    BY <1>8, LeastExists
  <2>2. QED
    BY <2>1
<1>10. Quantile(h, bins, n, q, lo) = Centre(first, lo)
  BY <1>8 DEF Quantile, reach, r
<1> HIDE DEF first
<1>11. first \in 0..bins-1 /\ C(first) >= r /\ C(first - 1) < r
  <2>1. first \in 0..bins-1 /\ C(first) >= r
    BY <1>8, <1>9
  <2>2. CASE first = 0
    BY <1>1, <1>7, <2>1, <2>2
  <2>3. CASE first # 0
    <3>1. first - 1 \in 0..bins-1 /\ ~ (first <= first - 1)
      BY <2>1, <2>3
    <3>2. ~ (C(first - 1) >= r)
      BY <1>8, <1>9, <3>1
    <3>3. C(first - 1) \in Int
      BY <1>3
    <3>4. QED
      BY <1>1, <2>1, <3>2, <3>3
  <2>4. QED
    BY <2>2, <2>3
<1> DEFINE binned == [i \in DOMAIN v |-> Centre(Bin(v[i], lo, bins), lo)]
           Under(x) == {i \in DOMAIN binned : binned[i] < x}
           NotOver(x) == {i \in DOMAIN binned : binned[i] <= x}
           values == {binned[i] : i \in DOMAIN binned}
           IsRanked(x) == Cardinality(Under(x)) < r /\ Cardinality(NotOver(x)) >= r
<1>12. Ranked(v, r, lo, bins) = CHOOSE x \in values : IsRanked(x)
  BY DEF Ranked
<1>13. DOMAIN binned = 1..n /\ \A k \in 1..n : binned[k] = lo + 2 * B(k) + 1
  BY <1>6 DEF Centre, B
<1> HIDE DEF binned
<1>14. \A i : UpTo(v, lo, bins, i) = {k \in 1..n : B(k) <= i}
  BY <1>6 DEF UpTo, B
<1>15. ASSUME NEW c \in Int
       PROVE  Under(Centre(c, lo)) = UpTo(v, lo, bins, c - 1) /\ NotOver(Centre(c, lo)) = UpTo(v, lo, bins, c)
  <2> DEFINE x == Centre(c, lo)
  <2>1. x = lo + 2 * c + 1
    BY DEF Centre
  <2> HIDE DEF x
  <2>2. ASSUME NEW k \in 1..n
        PROVE  (binned[k] < x <=> B(k) <= c - 1) /\ (binned[k] <= x <=> B(k) <= c)
    <3>1. B(k) \in Int /\ binned[k] = lo + 2 * B(k) + 1
      BY <1>2, <1>13
    <3>2. QED
      BY <2>1, <3>1
  <2>3. Under(x) = {k \in 1..n : B(k) <= c - 1}
    BY <1>13, <2>2
  <2>4. NotOver(x) = {k \in 1..n : B(k) <= c}
    BY <1>13, <2>2
  <2>5. QED
    BY <1>14, <2>3, <2>4 DEF x
<1>16. \A c \in Int : IsRanked(Centre(c, lo)) <=> C(c - 1) < r /\ C(c) >= r
  BY <1>15 DEF C
<1> HIDE DEF IsRanked
<1>17. Centre(first, lo) \in values /\ IsRanked(Centre(first, lo))
  <2>1. first \in Int
    BY <1>11
  <2>2. IsRanked(Centre(first, lo))
    BY <1>11, <1>16, <2>1
  <2>3. PICK k \in 1..n : B(k) = first
    <3> SUFFICES ASSUME \A k \in 1..n : B(k) # first PROVE FALSE
      OBVIOUS
    <3>1. \A k \in 1..n : B(k) <= first <=> B(k) <= first - 1
      <4> TAKE k \in 1..n
      <4>1. B(k) \in Int /\ B(k) # first
        BY <1>2
      <4>2. QED
        BY <2>1, <4>1
    <3>2. UpTo(v, lo, bins, first) = UpTo(v, lo, bins, first - 1)
      BY <1>14, <3>1
    <3>3. C(first) = C(first - 1)
      BY <3>2 DEF C
    <3>4. C(first) \in Int /\ r \in Int
      BY <1>1, <1>3
    <3>5. QED
      BY <1>11, <3>3, <3>4
  <2>4. binned[k] = Centre(first, lo)
    BY <1>13, <2>3 DEF Centre
  <2>5. QED
    BY <1>13, <2>2, <2>4
<1>18. ASSUME NEW y \in values, IsRanked(y) PROVE y = Centre(first, lo)
  <2>1. PICK k \in 1..n : y = binned[k]
    BY <1>13
  <2> DEFINE c == B(k)
  <2>2. c \in Int /\ first \in Int /\ y = Centre(c, lo)
    BY <1>2, <1>11, <1>13, <2>1 DEF Centre
  <2> HIDE DEF c
  <2>3. C(c - 1) < r /\ C(c) >= r
    BY <1>16, <1>18, <2>2
  <2>4. C(c) \in Int /\ C(c - 1) \in Int /\ C(first) \in Int /\ C(first - 1) \in Int /\ r \in Int
    BY <1>1, <1>3
  <2>5. ~ (c < first)
    <3>1. c < first => C(c) <= C(first - 1)
      BY <1>4, <2>2
    <3>2. QED
      BY <1>11, <2>3, <2>4, <3>1
  <2>6. ~ (first < c)
    <3>1. first < c => C(first) <= C(c - 1)
      BY <1>4, <2>2
    <3>2. QED
      BY <1>11, <2>3, <2>4, <3>1
  <2>7. c = first
    BY <2>2, <2>5, <2>6
  <2>8. QED
    BY <2>2, <2>7
<1> HIDE DEF values
<1>19. (CHOOSE x \in values : IsRanked(x)) = Centre(first, lo)
  <2> DEFINE z == CHOOSE x \in values : IsRanked(x)
  <2>1. z \in values /\ IsRanked(z)
    BY <1>17
  <2> HIDE DEF z
  <2>2. z = Centre(first, lo)
    BY <1>18, <2>1
  <2>3. QED
    BY <2>2 DEF z
<1>20. QED
  BY <1>10, <1>12, <1>19 DEF r

(* The last bin counts every block. *)
LEMMA TallyTotal ==
  ASSUME NEW lo \in Int, NEW bins \in Nat \ {0}, NEW n \in Nat, NEW v \in [1..n -> Int],
         NEW h, Tallies(h, v, lo, bins)
  PROVE  CountTo(h, bins - 1) = n
<1>1. \A k \in 1..n : Bin(v[k], lo, bins) \in 0..bins-1
  BY BinRange
<1>2. UpTo(v, lo, bins, bins - 1) = 1..n
  BY <1>1 DEF UpTo
<1>3. bins - 1 \in 0..bins-1
  OBVIOUS
<1>4. Cardinality(1..n) = n
  BY FS_Interval
<1>5. QED
  BY <1>2, <1>3, <1>4 DEF Tallies

(* QuantilesAreOfTheWindow, a mic at a time. *)
Figures(m) ==
  cal[m].blocks > 0 =>
    /\ cal[m].blocks = Len(heard)
    /\ \A q \in Quantiles :
         /\ cal[m].d_q[q] = Ranked(Ds(heard, m), Rank(q, Len(heard)), DLo, DBins)
         /\ cal[m].a_q[q] = Ranked(As(heard, m), Rank(q, Len(heard)), ALo, ABins)

(* Both histograms tally with what was heard, and while the sampler runs no
   calibration speaks yet of less than that. *)
FiguresInv ==
  /\ WindowInv /\ CheckInv
  /\ window <= MaxCount
  /\ \A m \in Mics : /\ Tallies(hist[m].d, Ds(heard, m), DLo, DBins)
                     /\ Tallies(hist[m].a, As(heard, m), ALo, ABins)
  /\ \A m \in Mics : "blocks" \in DOMAIN cal[m] /\ (sampling => cal[m].blocks = 0)
  /\ \A m \in Mics : Figures(m)

(* No soundcheck takes more blocks than a bin counts, 2^32 - 1: a calibrate_s of at
   most 1e6 s (clamped()) does not, in blocks of 12 samples or more at 48 kHz. *)
WindowsFit == \A p \in Policies : p.window <= MaxCount

LEMMA HeardTyped ==
  ASSUME NEW seq \in Seq([Mics -> [d : Int, a : Int]]), NEW m \in Mics
  PROVE  Len(seq) \in Nat /\ Ds(seq, m) \in [1..Len(seq) -> Int] /\ As(seq, m) \in [1..Len(seq) -> Int]
<1>1. Len(seq) \in Nat /\ \A k \in 1..Len(seq) : seq[k] \in [Mics -> [d : Int, a : Int]]
  OBVIOUS
<1>2. \A k \in 1..Len(seq) : seq[k][m].d \in Int /\ seq[k][m].a \in Int
  BY <1>1
<1>3. QED
  BY <1>1, <1>2 DEF Ds, As

(* With nothing heard the empty histograms tally. *)
LEMMA CleanTallies ==
  ASSUME NEW m \in Mics
  PROVE  Tallies(Clean.d, Ds(<<>>, m), DLo, DBins) /\ Tallies(Clean.a, As(<<>>, m), ALo, ABins)
<1>1. Ds(<<>>, m) \in [1..0 -> Int] /\ As(<<>>, m) \in [1..0 -> Int]
  BY DEF Ds, As
<1>2. Clean.d = [i \in 0..DBins-1 |-> 0] /\ Clean.a = [i \in 0..ABins-1 |-> 0]
  BY DEF Clean
<1>3. Tallies([i \in 0..DBins-1 |-> 0], Ds(<<>>, m), DLo, DBins)
  BY <1>1, TallyEmpty, SoundcheckAssumption
<1>4. Tallies([i \in 0..ABins-1 |-> 0], As(<<>>, m), ALo, ABins)
  BY <1>1, TallyEmpty, SoundcheckAssumption
<1>5. QED
  BY <1>2, <1>3, <1>4

LEMMA FiguresInitially == ASSUME CheckHistoryInit PROVE FiguresInv
<1>1. WindowInv /\ CheckInv
  BY WindowInitially, CheckInitially DEF CheckHistoryInit
<1>2. window = 0 /\ heard = <<>> /\ \A m \in Mics : hist[m] = Clean /\ cal[m] = Nothing
  BY DEF CheckHistoryInit, CheckInit
<1>3. \A m \in Mics : Tallies(hist[m].d, Ds(heard, m), DLo, DBins) /\ Tallies(hist[m].a, As(heard, m), ALo, ABins)
  BY <1>2, CleanTallies
<1>4. \A m \in Mics : "blocks" \in DOMAIN cal[m] /\ cal[m].blocks = 0
  BY <1>2 DEF Nothing
<1>5. \A m \in Mics : Figures(m)
  BY <1>4 DEF Figures
<1>6. window <= MaxCount
  BY <1>2, SoundcheckAssumption
<1>7. QED
  BY <1>1, <1>3, <1>4, <1>5, <1>6 DEF FiguresInv

(* A block joins what was heard and both histograms, none of whose bins is full;
   the calibrations are still the empty ones. *)
LEMMA SampleKeepsFigures ==
  ASSUME FiguresInv, NEW in \in Blocks, HistorySample(in) PROVE FiguresInv'
<1>1. WindowInv' /\ CheckInv'
  BY SampleKeepsWindow, SampleTyped DEF FiguresInv, HistorySample
<1>2. sampling /\ window' = window /\ cal' = cal
  BY DEF HistorySample, Sample
<1>3. Len(heard) \in Nat /\ Len(heard) < MaxCount
  <2>1. left \in Nat /\ left > 0 /\ Len(heard) + left = window /\ window \in Nat /\ window <= MaxCount
    BY <1>2 DEF FiguresInv, WindowInv, WindowKept
  <2>2. heard \in Seq([Mics -> [d : Int, a : Int]])
    BY DEF FiguresInv, WindowInv
  <2>3. Len(heard) \in Nat
    BY <2>2
  <2>4. QED
    BY <2>1, <2>3, SoundcheckAssumption
<1> DEFINE n == Len(heard)
           row == [m \in Mics |-> Read(in[m])]
<1>4. Len(heard') = n + 1 /\ heard'[n + 1] = row /\ \A k \in 1..n : heard'[k] = heard[k]
  <2>1. heard' = Append(heard, row)
    BY DEF HistorySample
  <2>2. row \in [Mics -> [d : Int, a : Int]] /\ heard \in Seq([Mics -> [d : Int, a : Int]])
    BY SoundcheckAssumption DEF Blocks, Read, FiguresInv, WindowInv
  <2> HIDE DEF row
  <2>3. QED
    BY <2>1, <2>2
<1>5. ASSUME NEW m \in Mics
      PROVE  Tallies(hist'[m].d, Ds(heard', m), DLo, DBins) /\ Tallies(hist'[m].a, As(heard', m), ALo, ABins)
  <2> DEFINE dNow == Ds(heard', m)
             aNow == As(heard', m)
  <2>1. Ds(heard, m) \in [1..n -> Int] /\ As(heard, m) \in [1..n -> Int]
    BY HeardTyped DEF FiguresInv, WindowInv
  <2>2. dNow \in [1..(n + 1) -> Int] /\ aNow \in [1..(n + 1) -> Int]
    <3>1. Ds(heard', m) \in [1..Len(heard') -> Int] /\ As(heard', m) \in [1..Len(heard') -> Int]
      BY <1>1, HeardTyped DEF WindowInv
    <3>2. QED
      BY <1>4, <3>1
  <2>3. /\ \A k \in 1..n : dNow[k] = Ds(heard, m)[k] /\ aNow[k] = As(heard, m)[k]
        /\ dNow[n + 1] = Read(in[m]).d /\ aNow[n + 1] = Read(in[m]).a
    BY <1>3, <1>4 DEF Ds, As
  <2>4. /\ hist[m].d \in [0..DBins-1 -> 0..MaxCount] /\ hist[m].a \in [0..ABins-1 -> 0..MaxCount]
        /\ Tallies(hist[m].d, Ds(heard, m), DLo, DBins) /\ Tallies(hist[m].a, As(heard, m), ALo, ABins)
    BY DEF FiguresInv, CheckInv, SoundcheckTypeOK, DHist, AHist
  <2> HIDE DEF dNow, aNow, n
  <2>5. Tallies(Counted(hist[m].d, Bin(dNow[n + 1], DLo, DBins)), dNow, DLo, DBins)
    BY <1>3, <2>1, <2>2, <2>3, <2>4, TallyAdded, SoundcheckAssumption DEF n
  <2>6. Tallies(Counted(hist[m].a, Bin(aNow[n + 1], ALo, ABins)), aNow, ALo, ABins)
    BY <1>3, <2>1, <2>2, <2>3, <2>4, TallyAdded, SoundcheckAssumption DEF n
  <2>7. /\ hist'[m].d = Counted(hist[m].d, Bin(dNow[n + 1], DLo, DBins))
        /\ hist'[m].a = Counted(hist[m].a, Bin(aNow[n + 1], ALo, ABins))
    BY <2>3 DEF HistorySample, Sample, Sampled
  <2>8. QED
    BY <2>5, <2>6, <2>7 DEF dNow, aNow
<1>6. \A m \in Mics : "blocks" \in DOMAIN cal'[m] /\ cal'[m].blocks = 0
  BY <1>2 DEF FiguresInv
<1>7. \A m \in Mics : Figures(m)'
  BY <1>6 DEF Figures
<1>8. window' <= MaxCount
  BY <1>2 DEF FiguresInv
<1>9. QED
  BY <1>1, <1>5, <1>6, <1>7, <1>8 DEF FiguresInv

LEMMA BeginKeepsFigures == ASSUME WindowsFit, FiguresInv, HistoryBegin PROVE FiguresInv'
<1>1. WindowInv' /\ CheckInv'
  BY BeginKeepsWindow, BeginTyped DEF FiguresInv, HistoryBegin
<1>2. heard' = <<>> /\ window' = limits.window
      /\ \A m \in Mics : hist'[m] = Clean /\ cal'[m] = Nothing
  BY DEF HistoryBegin, CalibrateBegin
<1>3. window' <= MaxCount
  BY <1>2 DEF WindowsFit, FiguresInv, CheckInv, SoundcheckTypeOK
<1>4. ASSUME NEW m \in Mics
      PROVE  Tallies(hist'[m].d, Ds(heard', m), DLo, DBins) /\ Tallies(hist'[m].a, As(heard', m), ALo, ABins)
  <2>1. heard' = <<>> /\ hist'[m] = Clean
    BY <1>2
  <2>2. QED
    BY <2>1, CleanTallies
<1>5. \A m \in Mics : "blocks" \in DOMAIN cal'[m] /\ cal'[m].blocks = 0
  BY <1>2 DEF Nothing
<1>6. \A m \in Mics : Figures(m)'
  BY <1>5 DEF Figures
<1>7. QED
  BY <1>1, <1>3, <1>4, <1>5, <1>6 DEF FiguresInv

(* The calibration is of the histograms, and they of what was heard. *)
LEMMA EndKeepsFigures ==
  ASSUME FiguresInv, NEW apply \in BOOLEAN, HistoryEnd(apply) PROVE FiguresInv'
<1>1. WindowInv' /\ CheckInv'
  BY EndKeepsWindow, EndTyped DEF FiguresInv, HistoryEnd
<1>2. heard' = heard /\ window' = window /\ hist' = hist /\ sampling' = FALSE
  BY DEF HistoryEnd, CalibrateEnd
<1>3. \A m \in Mics : Ds(heard', m) = Ds(heard, m) /\ As(heard', m) = As(heard, m)
  BY <1>2 DEF Ds, As
<1>4. ASSUME NEW m \in Mics PROVE "blocks" \in DOMAIN cal'[m] /\ Figures(m)'
  <2> DEFINE n   == CountTo(hist[m].d, DBins - 1)
             d_q == [q \in Quantiles |-> Quantile(hist[m].d, DBins, n, q, DLo)]
             a_q == [q \in Quantiles |-> Quantile(hist[m].a, ABins, n, q, ALo)]
             len == Len(heard)
  <2>1. cal'[m] = Calibration(m, apply)
    BY DEF HistoryEnd, CalibrateEnd
  <2>2. len \in Nat /\ Ds(heard, m) \in [1..len -> Int] /\ As(heard, m) \in [1..len -> Int]
    BY HeardTyped DEF FiguresInv, WindowInv
  <2>3. Tallies(hist[m].d, Ds(heard, m), DLo, DBins) /\ Tallies(hist[m].a, As(heard, m), ALo, ABins)
    BY DEF FiguresInv
  <2>4. n = len
    <3> HIDE DEF len
    <3>1. QED
      BY <2>2, <2>3, TallyTotal, SoundcheckAssumption
  <2>5. CASE n = 0
    <3>1. cal'[m] = [cal[m] EXCEPT !.blocks = 0, !.applied = FALSE, !.d = thr[m].d, !.a = thr[m].a]
      BY <2>1, <2>5 DEF Calibration
    <3>2. "blocks" \in DOMAIN cal[m]
      BY DEF FiguresInv
    <3>3. "blocks" \in DOMAIN cal'[m] /\ cal'[m].blocks = 0
      BY <3>1, <3>2
    <3>4. QED
      BY <3>3 DEF Figures
  <2>6. CASE n # 0
    <3>1. /\ "blocks" \in DOMAIN cal'[m] /\ cal'[m].blocks = n
          /\ cal'[m].d_q = d_q /\ cal'[m].a_q = a_q
      BY <2>1, <2>6 DEF Calibration
    <3> HIDE DEF n, len
    <3>2. \A q \in Quantiles : d_q[q] = Ranked(Ds(heard, m), Rank(q, len), DLo, DBins)
      <4> TAKE q \in Quantiles
      <4>1. len \in Nat \ {0}
        BY <2>2, <2>4, <2>6
      <4>2. Quantile(hist[m].d, DBins, len, q, DLo) = Ranked(Ds(heard, m), Rank(q, len), DLo, DBins)
        <5> DEFINE h == hist[m].d
                   v == Ds(heard, m)
        <5>1. DLo \in Int /\ DBins \in Nat \ {0} /\ v \in [1..len -> Int] /\ Tallies(h, v, DLo, DBins)
          BY <2>2, <2>3, SoundcheckAssumption
        <5> HIDE DEF h, v
        <5>2. Quantile(h, DBins, len, q, DLo) = Ranked(v, Rank(q, len), DLo, DBins)
          BY <4>1, <5>1, QuantileIsRanked
        <5>3. QED
          BY <5>2 DEF h, v
      <4>3. QED
        BY <2>4, <4>2
    <3>3. \A q \in Quantiles : a_q[q] = Ranked(As(heard, m), Rank(q, len), ALo, ABins)
      <4> TAKE q \in Quantiles
      <4>1. len \in Nat \ {0}
        BY <2>2, <2>4, <2>6
      <4>2. Quantile(hist[m].a, ABins, len, q, ALo) = Ranked(As(heard, m), Rank(q, len), ALo, ABins)
        <5> DEFINE h == hist[m].a
                   v == As(heard, m)
        <5>1. ALo \in Int /\ ABins \in Nat \ {0} /\ v \in [1..len -> Int] /\ Tallies(h, v, ALo, ABins)
          BY <2>2, <2>3, SoundcheckAssumption
        <5> HIDE DEF h, v
        <5>2. Quantile(h, ABins, len, q, ALo) = Ranked(v, Rank(q, len), ALo, ABins)
          BY <4>1, <5>1, QuantileIsRanked
        <5>3. QED
          BY <5>2 DEF h, v
      <4>3. QED
        BY <2>4, <4>2
    <3> HIDE DEF d_q, a_q
    <3>4. /\ cal'[m].blocks = Len(heard')
          /\ \A q \in Quantiles :
               /\ cal'[m].d_q[q] = Ranked(Ds(heard', m), Rank(q, Len(heard')), DLo, DBins)
               /\ cal'[m].a_q[q] = Ranked(As(heard', m), Rank(q, Len(heard')), ALo, ABins)
      BY <1>2, <1>3, <2>4, <3>1, <3>2, <3>3 DEF len
    <3>5. QED
      BY <3>1, <3>4 DEF Figures
  <2>7. QED
    BY <2>5, <2>6
<1>5. \A m \in Mics : /\ Tallies(hist'[m].d, Ds(heard', m), DLo, DBins)
                      /\ Tallies(hist'[m].a, As(heard', m), ALo, ABins)
  BY <1>2, <1>3 DEF FiguresInv
<1>6. window' <= MaxCount
  BY <1>2 DEF FiguresInv
<1>7. QED
  BY <1>1, <1>2, <1>4, <1>5, <1>6 DEF FiguresInv

(* The other calls touch neither the histograms nor the calibrations. *)
LEMMA FiguresUntouched ==
  ASSUME FiguresInv, WindowInv', CheckInv',
         hist' = hist, heard' = heard, cal' = cal, sampling' = sampling, window' = window
  PROVE  FiguresInv'
<1>1. \A m \in Mics : Ds(heard', m) = Ds(heard, m) /\ As(heard', m) = As(heard, m)
  OBVIOUS
<1>2. \A m \in Mics : Figures(m)'
  BY <1>1 DEF FiguresInv, Figures
<1>3. \A m \in Mics : /\ Tallies(hist'[m].d, Ds(heard', m), DLo, DBins)
                      /\ Tallies(hist'[m].a, As(heard', m), ALo, ABins)
  BY <1>1 DEF FiguresInv
<1>4. QED
  BY <1>2, <1>3 DEF FiguresInv

(* Whatever calibration a mic has, it speaks of exactly the blocks its soundcheck
   heard: the block count, and of both statistics the median, the 95th percentile
   and the maximum (calibrate_begin(), sample(), calibrate_end()). *)
THEOREM FiguresAlwaysOfTheWindow ==
  ASSUME WindowsFit
  PROVE  CheckHistorySpec => []QuantilesAreOfTheWindow
<1>1. CheckHistoryInit => FiguresInv
  BY FiguresInitially
<1>2. FiguresInv /\ [CheckHistoryNext]_checkHistoryVars => FiguresInv'
  <2> SUFFICES ASSUME FiguresInv, [CheckHistoryNext]_checkHistoryVars PROVE FiguresInv'
    OBVIOUS
  <2>1. CASE \E in \in Blocks : HistorySample(in)
    BY <2>1, SampleKeepsFigures
  <2>2. CASE HistoryBegin
    BY <2>2, BeginKeepsFigures
  <2>3. CASE \E apply \in BOOLEAN : HistoryEnd(apply)
    BY <2>3, EndKeepsFigures
  <2>4. CASE HistoryHost
    <3>1. WindowInv' /\ CheckInv'
      BY <2>4, HostKeepsWindow, ThresholdsTyped, ClearTyped, PolicySetTyped
         DEF FiguresInv, HistoryHost
    <3>2. UNCHANGED <<hist, heard, cal, sampling, window>>
      BY <2>4 DEF HistoryHost, SetThresholds, ClearCalibration, SetPolicy
    <3>3. QED
      BY <3>1, <3>2, FiguresUntouched
  <2>5. CASE UNCHANGED checkHistoryVars
    <3>1. WindowInv' /\ CheckInv'
      BY <2>5 DEF checkHistoryVars, checkVars, FiguresInv, WindowInv, WindowKept, CheckInv,
         SoundcheckTypeOK
    <3>2. QED
      BY <2>5, <3>1, FiguresUntouched DEF checkHistoryVars, checkVars
  <2>6. QED
    BY <2>1, <2>2, <2>3, <2>4, <2>5 DEF CheckHistoryNext
<1>3. FiguresInv => QuantilesAreOfTheWindow
  BY DEF FiguresInv, Figures, QuantilesAreOfTheWindow, Ds, As
<1>4. QED
  BY <1>1, <1>2, <1>3, PTL DEF CheckHistorySpec

===============================================================================
