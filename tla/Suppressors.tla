---------------------------- MODULE Suppressors ----------------------------
(***************************************************************************)
(* The two post stages of aec_chain: residual_suppressor (postfilter.h),      *)
(* which checks itself, and nn_suppressor (nn_suppressor.h), which does not.   *)
(* Of the analysis windows only how many blocks ago each last took an         *)
(* overflowing block matters (eh, dh, yh for E, D and Yhat), a nonzero Yhat       *)
(* (yl), anything but digital silence (ql). D is the microphone: e + yhat. The    *)
(* gains are clamped numbers unless their check trips; they and the low-band    *)
(* certificate that bounds them are not kept. A chance k adds: certified (the   *)
(* coherence clears the gate) and explained (what echo_explained() says of       *)
(* ordinary powers).                                                        *)
(***************************************************************************)
EXTENDS Floats

ResidualConfig(analysis, floor_window, comfort) ==
    [post |-> "residual", analysis |-> analysis, floor_window |-> floor_window, comfort |-> comfort]

\* analysis_blocks is a power of two, at least 4.
ValidResidual(cfg) ==
    /\ cfg.post = "residual" /\ cfg.analysis \in {4, 8, 16, 32, 64, 128, 256, 512, 1024}
    /\ cfg.floor_window \in Nat \ {0} /\ cfg.comfort \in BOOLEAN

NnConfig(floor_window, comfort) == [post |-> "nn", floor_window |-> floor_window, comfort |-> comfort]

ValidNn(cfg) == cfg.post = "nn" /\ cfg.floor_window \in Nat \ {0} /\ cfg.comfort \in BOOLEAN

Residual(cfg) ==
    [cfg |-> cfg, eh |-> cfg.analysis, dh |-> cfg.analysis, yh |-> cfg.analysis,
     yl |-> cfg.analysis, ql |-> cfg.analysis,
     sdy |-> "zero", sdd |-> "zero", syy |-> "zero", see |-> "zero", leak |-> "fin",
     psm |-> "zero", min_cur |-> "inf", min_prev |-> "zero", min_count |-> 0, trips |-> 0]

ResetResidual(s) == [Residual(s.cfg) EXCEPT !.trips = s.trips]

\* One block more since, unless this block is one.
Since(age, now, never) == IF now THEN 0 ELSE IF age < never THEN age + 1 ELSE never

SlidWindows(s, e, yhat, mic) ==
    LET never == s.cfg.analysis
    IN  [s EXCEPT !.eh = Since(@, e = "huge", never), !.dh = Since(@, mic = "huge", never),
                  !.yh = Since(@, yhat = "huge", never),
                  !.yl = Since(@, yhat # "zero", never),
                  !.ql = Since(@, {yhat, mic} # {"zero"}, never)]

InWindow(s, age) == age < s.cfg.analysis

\* The power of a window whose values are finite.
PowerIn(s, age) == IF InWindow(s, age) THEN "inf" ELSE "fin"
PowerOfY(s) == IF InWindow(s, s.yh) THEN "inf" ELSE IF InWindow(s, s.yl) THEN "fin" ELSE "zero"

\* Two windows of digital silence: each power is the regularisation.
Silent(s) == ~InWindow(s, s.ql)

\* Pass 1: the estimators. A coherence that is not a number clears no gate.
Crossed(py, pd) == IF py = "zero" THEN "zero" ELSE Worst(py, pd)

Spectra(s, py, pd) ==
    [s EXCEPT !.sdy = Chase(@, Crossed(py, pd)), !.sdd = Chase(@, pd),
              !.syy = Chase(@, py), !.see = Chase(@, PowerIn(s, s.eh))]

Coherence(s) ==
    IF s.syy = "zero" THEN "zero" ELSE Over(Square(s.sdy), Worst("fin", Times(s.sdd, s.syy)))

Leaked(s, coh, k) ==
    IF coh = "inf" \/ (coh = "fin" /\ k.certified)
    THEN [s EXCEPT !.leak = Chase(@, Over(s.see, Worst("fin", s.syy)))]
    ELSE s

Relearned(s, k) == Leaked(s, Coherence(s), k)

Estimated(s, k) == Relearned(Spectra(s, PowerOfY(s), PowerIn(s, s.dh)), k)

\* The Wiener gain's ratio; the clamps leave a NaN, and only a NaN.
Wiener(s, pe) ==
    Over(Times(s.leak, s.syy), Worst("fin", IF s.see = "nan" THEN pe ELSE Worst(s.see, pe)))

GainIsNumber(s) == Wiener(s, PowerIn(s, s.eh)) # "nan"

\* The echo power over the microphone's: what it may be, "over" past the
\* rescue's threshold, "good" past the guard's.
Explained(py, pd) ==
    CASE py = "inf" /\ pd = "inf" -> {"nan"}
      [] py = "inf" /\ pd # "inf" -> {"over"}
      [] py # "inf" /\ (pd = "inf" \/ py = "zero") -> {"low"}
      [] OTHER -> {"low", "good", "over"}

\* echo_explained(), sum_syy / (sum_sdd + eps) of this block's windows: in
\* silence bins * eps / (bins * eps + eps), close to 1.
EchoExplained(s) ==
    IF Silent(s) THEN {"good"} ELSE Explained(PowerOfY(s), PowerIn(s, s.dh))

\* The smaller of two powers that are numbers.
Less(a, b) == IF Rank(a) < Rank(b) THEN a ELSE b

\* Pass 3: the two-window minimum of the smoothed power; nothing is less than
\* an infinity, and a NaN is not.
Tracked(s, psm) ==
    [s EXCEPT !.psm = psm, !.min_cur = IF psm = "nan" THEN @ ELSE Less(psm, @)]

\* fl - po: the fill is infinite only against a finite power.
FillOverflows(s) ==
    /\ s.cfg.comfort
    /\ Less(s.min_cur, s.min_prev) = "inf"
    /\ ~InWindow(s, s.eh)

Rotated(s) ==
    IF s.min_count + 1 >= s.cfg.floor_window
    THEN [s EXCEPT !.min_count = 0, !.min_prev = s.min_cur, !.min_cur = "inf"]
    ELSE [s EXCEPT !.min_count = @ + 1]

TripResidual(s) ==
    [post |-> ResetResidual([s EXCEPT !.trips = @ + 1]), out |-> "zero", explained |-> {"low"}]

(* Mutant: the output is not checked. *)
ResidualOutUnchecked(s, e) ==
    [post |-> Rotated(s), out |-> IF InWindow(s, s.eh) THEN "huge" ELSE e, explained |-> EchoExplained(s)]

\* Pass 3 and the output check.
ResidualOut(s, e) ==
    IF FillOverflows(s) THEN TripResidual(Rotated(s))
    ELSE [post |-> Rotated(s), out |-> IF InWindow(s, s.eh) THEN "huge" ELSE e, explained |-> EchoExplained(s)]

\* Pass 2: the gains, and the check on them.
ResidualGain(s, e) ==
    IF ~GainIsNumber(s) THEN TripResidual(s)
    ELSE ResidualOut(Tracked(s, Chase(s.psm, PowerIn(s, s.eh))), e)

ResidualBlock(s, e, yhat, mic, k) ==
    IF {e, yhat, mic} \subseteq {"zero", "fin", "huge"}
    THEN ResidualGain(Estimated(SlidWindows(s, e, yhat, mic), k), e)
    ELSE TripResidual(s)

\* nn_suppressor. min_cur starts at the largest number, and the floor is
\* infinite when the bias multiplies that.
Nn(cfg) ==
    [cfg |-> cfg, prev_e |-> "zero", prev_yhat |-> "zero", prev_mic |-> "zero", overlap |-> "zero",
     gru |-> "fin", floor |-> "zero", min_cur |-> "huge", min_prev |-> "zero", min_count |-> 0,
     syy |-> "zero", sdd |-> "zero", trips |-> 0]

\* Two analysis powers and their accumulators: these keep an infinity.
UpdateExplained(s, yhat, mic) ==
    [s EXCEPT !.syy = Worst(@, Square(Worst(s.prev_yhat, yhat))),
              !.sdd = Worst(@, Square(Worst(s.prev_mic, mic)))]

Minimum(floor, cur) == IF floor = "nan" THEN cur ELSE Less(floor, cur)

Lowered(s, floor, low) ==
    IF s.min_count + 1 >= s.cfg.floor_window
    THEN [s EXCEPT !.floor = floor, !.min_count = 0, !.min_prev = low, !.min_cur = "huge"]
    ELSE [s EXCEPT !.floor = floor, !.min_count = @ + 1, !.min_cur = low]

Floored(s, floor) == Lowered(s, floor, Minimum(floor, s.min_cur))

UpdateFloor(s, e) == Floored(s, Worst(s.floor, Square(Worst(s.prev_e, e))))

\* The log of an infinite band energy is an infinite feature; with weights of
\* both signs the hidden layer is NaN, and so is the GRU from then on.
Infer(s, e, yhat) ==
    LET feature == Square(WorstOf({s.prev_e, e, s.prev_yhat, yhat}))
    IN  [s EXCEPT !.gru = IF Finite(feature) THEN @ ELSE "nan"]

ComfortFill(s) == IF s.cfg.comfort /\ Less(s.min_prev, s.min_cur) = "huge" THEN "inf" ELSE "zero"

\* echo_explained(), of the smoothed powers.
NnExplained(s) == IF "nan" \in {s.syy, s.sdd} THEN {"nan"} ELSE Explained(s.syy, s.sdd)

\* The windowed frame, overlapped and added.
Synthesised(s, e, yhat, mic, frame) ==
    [post |-> [s EXCEPT !.overlap = frame, !.prev_e = e, !.prev_yhat = yhat, !.prev_mic = mic],
     out |-> Worst(s.overlap, frame), explained |-> NnExplained(s)]

NnFrame(s, e, yhat, mic) ==
    Synthesised(s, e, yhat, mic, WorstOf({Times(s.gru, Worst(s.prev_e, e)), ComfortFill(s)}))

NnBlock(s, e, yhat, mic) ==
    NnFrame(Infer(UpdateFloor(UpdateExplained(s, yhat, mic), e), e, yhat), e, yhat, mic)

ValidPost(cfg) == IF cfg.post = "residual" THEN ValidResidual(cfg) ELSE ValidNn(cfg)

Post(cfg) == IF cfg.post = "residual" THEN Residual(cfg) ELSE Nn(cfg)

ResetPost(s) == IF s.cfg.post = "residual" THEN ResetResidual(s) ELSE Nn(s.cfg)

PostBlock(s, e, yhat, mic, k) ==
    IF s.cfg.post = "residual" THEN ResidualBlock(s, e, yhat, mic, k) ELSE NnBlock(s, e, yhat, mic)
=============================================================================
