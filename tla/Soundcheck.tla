------------------------------ MODULE Soundcheck ------------------------------
(***************************************************************************)
(* The soundcheck of the howl guard (include/mutap/howl_guard.h): a        *)
(* sampler that bins each mic's two verdict statistics, D and A', block by *)
(* block, the quantiles it ends in, and the verdict thresholds of a mic,   *)
(* its own or the policy's.                                                *)
(*                                                                         *)
(* Statistics, thresholds and margins are integers in units of half a bin; *)
(* a histogram starts at its lowest value Lo.  The rest of the guard is    *)
(* module HowlGuard; its reset() touches nothing of the soundcheck.        *)
(***************************************************************************)
EXTENDS Integers, Sequences, FiniteSets

CONSTANTS
  Mics,
  Stats,      \* a mic's statistics in a block: [finite, d, a]
  DLo, DBins, ALo, ABins,   \* the histograms
  MaxCount,   \* a bin saturates here
  DMin, AMin, ThrMax,          \* thresholds are clamped to DMin..ThrMax, AMin..ThrMax
  Policies,   \* policies: [d, a, d_margin, a_margin, window]
  Stored      \* soundchecks the host has stored: [d, a]

(* A policy's thresholds lie within the clamp: clamped() sees to it. *)
CheckPolicy == [ d : DMin..ThrMax, a : AMin..ThrMax, d_margin : Int, a_margin : Int,
                 window : Nat \ {0} ]

ASSUME SoundcheckAssumption ==
  /\ Stats \subseteq [finite : BOOLEAN, d : Int, a : Int] /\ Stored \subseteq [d : Int, a : Int]
  /\ DLo \in Int /\ ALo \in Int /\ DBins \in Nat \ {0} /\ ABins \in Nat \ {0}
  /\ MaxCount \in Nat \ {0} /\ DMin \in Int /\ AMin \in Int /\ ThrMax \in Int
  /\ Policies \subseteq CheckPolicy

VARIABLES
  limits,    \* the policy in force
  thr,       \* per mic, the thresholds it runs on: [d, a, own]
  sampling, left,  \* the sampler runs, for this many blocks more
  hist,      \* per mic, the counts of the D and the A' bins
  cal        \* per mic, the last calibrate_end()'s guard_calibration

checkVars == <<limits, thr, sampling, left, hist, cal>>

DHist == [0..DBins-1 -> 0..MaxCount]
AHist == [0..ABins-1 -> 0..MaxCount]
Clean == [d |-> [i \in 0..DBins-1 |-> 0], a |-> [i \in 0..ABins-1 |-> 0]]

Quantiles == {"median", "p95", "highest"}
Nothing == [blocks |-> 0, d_q |-> [q \in Quantiles |-> 0], a_q |-> [q \in Quantiles |-> 0],
            d |-> 0, a |-> 0, applied |-> FALSE]

(* A threshold lies within its clamp, a bin's count within its limit, and a
   running sampler still has a block to take. *)
SoundcheckTypeOK ==
  /\ limits \in Policies
  /\ thr \in [Mics -> [d : DMin..ThrMax, a : AMin..ThrMax, own : BOOLEAN]]
  /\ sampling \in BOOLEAN /\ left \in Nat
  /\ sampling => left > 0
  /\ hist \in [Mics -> [d : DHist, a : AHist]]
  /\ DOMAIN cal = Mics

(* Mutant: no upper end. *)
ClampBelow(x, lo, hi) == IF x < lo THEN lo ELSE x

Clamp(x, lo, hi) == IF x < lo THEN lo ELSE IF x > hi THEN hi ELSE x

(* The bin of a value, the end bins for values outside; two units to a bin. *)
Bin(x, lo, bins) == IF x < lo THEN 0 ELSE Clamp((x - lo) \div 2, 0, bins - 1)
Centre(i, lo) == lo + 2 * i + 1

Counted(h, i) == [h EXCEPT ![i] = IF @ < MaxCount THEN @ + 1 ELSE @]

CountTo(h, i) ==
  LET upTo[k \in 0..i] == IF k = 0 THEN h[0] ELSE upTo[k - 1] + h[k]
  IN upTo[i]

(* ceil(q n), and at least 1. *)
Rank(q, n) ==
  LET want == CASE q = "median" -> (n + 1) \div 2
                [] q = "p95" -> (95 * n + 99) \div 100
                [] q = "highest" -> n
  IN IF want < 1 THEN 1 ELSE want

(* Mutant: the count has to pass the rank. *)
QuantileAbove(h, bins, n, q, lo) ==
  LET reach == {i \in 0..bins-1 : CountTo(h, i) > Rank(q, n)}
  IN Centre(IF reach = {} THEN bins ELSE CHOOSE i \in reach : \A j \in reach : i <= j, lo)

(* The first bin at which the count reaches the rank. *)
Quantile(h, bins, n, q, lo) ==
  LET reach == {i \in 0..bins-1 : CountTo(h, i) >= Rank(q, n)}
  IN Centre(IF reach = {} THEN bins ELSE CHOOSE i \in reach : \A j \in reach : i <= j, lo)

(* A block that is not finite leaves the mic's statistics at 0 dB. *)
Read(in) == IF in.finite THEN [d |-> in.d, a |-> in.a] ELSE [d |-> 0, a |-> 0]

Sampled(h, s) ==
  [d |-> Counted(h.d, Bin(s.d, DLo, DBins)), a |-> Counted(h.a, Bin(s.a, ALo, ABins))]

(* The guard's block: every mic analysed, then update(). *)
Sample(in) ==
  /\ sampling
  /\ hist' = [m \in Mics |-> Sampled(hist[m], Read(in[m]))]
  /\ left' = left - 1
  /\ sampling' = (left > 1)
  /\ UNCHANGED <<limits, thr, cal>>

CalibrateBegin ==
  /\ hist' = [m \in Mics |-> Clean]
  /\ cal' = [m \in Mics |-> Nothing]
  /\ left' = limits.window
  /\ sampling' = TRUE
  /\ UNCHANGED <<limits, thr>>

(* The calibration of a mic from its histograms; the block count is D's. *)
Calibration(m, apply) ==
  LET n   == CountTo(hist[m].d, DBins - 1)
      d_q == [q \in Quantiles |-> Quantile(hist[m].d, DBins, n, q, DLo)]
      a_q == [q \in Quantiles |-> Quantile(hist[m].a, ABins, n, q, ALo)]
  IN IF n = 0
     THEN [cal[m] EXCEPT !.blocks = 0, !.applied = FALSE, !.d = thr[m].d, !.a = thr[m].a]
     ELSE [blocks |-> n, d_q |-> d_q, a_q |-> a_q,
           d |-> Clamp(d_q["median"] + limits.d_margin, DMin, ThrMax),
           a |-> Clamp(a_q["median"] + limits.a_margin, AMin, ThrMax),
           applied |-> apply]

CalibrateEnd(apply) ==
  /\ sampling' = FALSE
  /\ cal' = [m \in Mics |-> Calibration(m, apply)]
  /\ thr' = [m \in Mics |-> IF cal'[m].applied
                             THEN [d |-> cal'[m].d, a |-> cal'[m].a, own |-> TRUE]
                             ELSE thr[m]]
  /\ UNCHANGED <<limits, left, hist>>

SetThresholds(m, s) ==
  /\ thr' = [thr EXCEPT ![m] = [d |-> Clamp(s.d, DMin, ThrMax),
                                a |-> Clamp(s.a, AMin, ThrMax), own |-> TRUE]]
  /\ UNCHANGED <<limits, sampling, left, hist, cal>>

(* Mutant: a policy overrides every mic. *)
DerivedForAll(t, p) == [t EXCEPT !.d = p.d, !.a = p.a]

(* Mics without thresholds of their own follow the policy's. *)
Derived(t, p) == IF t.own THEN t ELSE [t EXCEPT !.d = p.d, !.a = p.a]

ClearCalibration ==
  /\ thr' = [m \in Mics |-> Derived([thr[m] EXCEPT !.own = FALSE], limits)]
  /\ UNCHANGED <<limits, sampling, left, hist, cal>>

(* Mutant: a new policy resizes the window of a soundcheck that runs. *)
SetPolicyResizes(p) ==
  /\ limits' = p
  /\ thr' = [m \in Mics |-> Derived(thr[m], p)]
  /\ left' = IF sampling THEN p.window ELSE left
  /\ UNCHANGED <<sampling, hist, cal>>

SetPolicy(p) ==
  /\ limits' = p
  /\ thr' = [m \in Mics |-> Derived(thr[m], p)]
  /\ UNCHANGED <<sampling, left, hist, cal>>

CheckInit ==
  /\ limits \in Policies
  /\ thr = [m \in Mics |-> [d |-> limits.d, a |-> limits.a, own |-> FALSE]]
  /\ sampling = FALSE /\ left = 0
  /\ hist = [m \in Mics |-> Clean]
  /\ cal = [m \in Mics |-> Nothing]

Host ==
  \/ CalibrateBegin
  \/ \E apply \in BOOLEAN : CalibrateEnd(apply)
  \/ \E m \in Mics, s \in Stored : SetThresholds(m, s)
  \/ ClearCalibration
  \/ \E p \in Policies : SetPolicy(p)

Blocks == [Mics -> Stats]

CheckNext == Host \/ \E in \in Blocks : Sample(in)

CheckSpec == CheckInit /\ [][CheckNext]_checkVars

===============================================================================
