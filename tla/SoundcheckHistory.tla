--------------------------- MODULE SoundcheckHistory ---------------------------
(***************************************************************************)
(* The soundcheck with what it was given: history variables, which no      *)
(* action of the sampler reads.                                            *)
(***************************************************************************)
EXTENDS Soundcheck

VARIABLES
  window,  \* the blocks a soundcheck was asked to sample when it began
  heard,   \* the blocks since, for the sampler to take: per mic, as it reads them
  broken,  \* per mic, how many of them were not finite
  given    \* per mic, the last thresholds it was given, if it still has them

checkHistoryVars == <<checkVars, window, heard, broken, given>>

None == [d |-> DMin - 1, a |-> AMin - 1]

CheckHistoryInit ==
  /\ CheckInit
  /\ window = 0 /\ heard = <<>>
  /\ broken = [m \in Mics |-> 0]
  /\ given = [m \in Mics |-> None]

HistorySample(in) ==
  /\ Sample(in)
  /\ heard' = Append(heard, [m \in Mics |-> Read(in[m])])
  /\ broken' = [m \in Mics |-> broken[m] + IF in[m].finite THEN 0 ELSE 1]
  /\ UNCHANGED <<window, given>>

HistoryBegin ==
  /\ CalibrateBegin
  /\ window' = limits.window /\ heard' = <<>>
  /\ broken' = [m \in Mics |-> 0]
  /\ UNCHANGED given

HistoryEnd(apply) ==
  /\ CalibrateEnd(apply)
  /\ given' = [m \in Mics |-> IF apply /\ heard # <<>>
                              THEN [d |-> cal'[m].d, a |-> cal'[m].a] ELSE given[m]]
  /\ UNCHANGED <<window, heard, broken>>

HistoryHost ==
  \/ \E m \in Mics, s \in Stored :
       /\ SetThresholds(m, s)
       /\ given' = [given EXCEPT ![m] = [d |-> Clamp(s.d, DMin, ThrMax), a |-> Clamp(s.a, AMin, ThrMax)]]
       /\ UNCHANGED <<window, heard, broken>>
  \/ ClearCalibration /\ given' = [m \in Mics |-> None] /\ UNCHANGED <<window, heard, broken>>
  \/ \E p \in Policies : SetPolicy(p) /\ UNCHANGED <<window, heard, broken, given>>

CheckHistoryNext ==
  \/ \E in \in Blocks : HistorySample(in)
  \/ HistoryBegin
  \/ \E apply \in BOOLEAN : HistoryEnd(apply)
  \/ HistoryHost

CheckHistorySpec == CheckHistoryInit /\ [][CheckHistoryNext]_checkHistoryVars

(* The value of the given rank among what a mic read, in bins: fewer of them lie
   below it, and as many do not lie above it. *)
Ranked(values, rank, lo, bins) ==
  LET binned == [i \in DOMAIN values |-> Centre(Bin(values[i], lo, bins), lo)]
  IN CHOOSE x \in {binned[i] : i \in DOMAIN binned} :
       /\ Cardinality({i \in DOMAIN binned : binned[i] < x}) < rank
       /\ Cardinality({i \in DOMAIN binned : binned[i] <= x}) >= rank

(* A calibration speaks of exactly the blocks its soundcheck heard: its figures
   are the median, the 95th percentile and the maximum of D and of A' over the
   same blocks, and the figures keep their order (guard_calibration). *)
QuantilesAreOfTheWindow ==
  \A m \in Mics :
    LET n == Len(heard)
        Reads(q, lo, bins, field(_)) ==
          Ranked([i \in 1..n |-> field(heard[i][m])], Rank(q, n), lo, bins)
    IN cal[m].blocks > 0 =>
         /\ cal[m].blocks = n
         /\ \A q \in Quantiles :
              /\ cal[m].d_q[q] = Reads(q, DLo, DBins, LAMBDA s : s.d)
              /\ cal[m].a_q[q] = Reads(q, ALo, ABins, LAMBDA s : s.a)

(* The sampler takes the window it was started with, whatever the host does to
   the policy meanwhile: it never takes a block more, and stops by itself only
   with the window full (calibrate_begin(), calibrating()). *)
WindowKept ==
  /\ Len(heard) <= window
  /\ sampling => Len(heard) + left = window

(* A calibrated mic keeps its thresholds: set_policy() leaves them alone, and
   every other mic runs on the policy's (set_thresholds(), clear_calibration(),
   calibrate_end(true)). *)
OwnThresholdsKept ==
  \A m \in Mics :
    [d |-> thr[m].d, a |-> thr[m].a] =
      IF given[m] = None THEN [d |-> limits.d, a |-> limits.a] ELSE given[m]

(* "Each mic's D and A' into its histograms (non-finite blocks skipped)": a
   calibration counts the finite blocks of its mic (sample()). *)
NonFiniteSkipped ==
  \A m \in Mics : cal[m].blocks > 0 => cal[m].blocks = Len(heard) - broken[m]

===============================================================================
