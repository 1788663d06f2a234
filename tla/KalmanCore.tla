----------------------------- MODULE KalmanCore -----------------------------
(***************************************************************************)
(* partitioned_fdkf (fd_kalman.h): the Kalman core as a value, with what     *)
(* process_block() makes of the classes of its block. A core is a record:    *)
(* win the last input block, u the partition ring (newest first), h the      *)
(* weights, p the uncertainty, psi the near-end power, num and den the        *)
(* novelty accumulators and nov their discount, nb the narrowband count. A     *)
(* block's chance (what the numbers decide) is a record k: loud (Floats), tone *)
(* (the block is spectrally concentrated).                                   *)
(***************************************************************************)
EXTENDS Floats

\* The configuration, as far as it changes which code runs: guard is
\* narrowband_hold_blocks, 0 when the guard is off. The process noise and
\* noise_smoothing are taken as positive.
KalmanConfig(partitions, novelty, floor, guard) ==
    [core |-> "kalman", partitions |-> partitions, novelty |-> novelty, floor |-> floor, guard |-> guard]

ValidKalman(cfg) ==
    /\ cfg = KalmanConfig(cfg.partitions, cfg.novelty, cfg.floor, cfg.guard)
    /\ cfg.partitions \in Nat \ {0} /\ cfg.guard \in Nat
    /\ {cfg.novelty, cfg.floor} \subseteq BOOLEAN

Kalman(cfg) ==
    [cfg |-> cfg, win |-> "zero", u |-> [i \in 1 .. cfg.partitions |-> "zero"],
     h |-> "zero", p |-> "fin", psi |-> "zero",
     num |-> "zero", den |-> "zero", nov |-> "fin", nb |-> 0, adapt |-> TRUE, trips |-> 0]

(* Mutant: the weights survive the reset. *)
ResetKalmanKeepsWeights(c) ==
    [Kalman(c.cfg) EXCEPT !.adapt = c.adapt, !.trips = c.trips, !.h = c.h]

ResetKalman(c) == [Kalman(c.cfg) EXCEPT !.adapt = c.adapt, !.trips = c.trips]

\* The window of two blocks slides, its spectrum enters the ring.
Slid(c, x) ==
    [c EXCEPT !.win = x,
              !.u = [i \in DOMAIN c.u |-> IF i = 1 THEN Worst(c.win, x) ELSE c.u[i - 1]]]

\* The excitation-novelty discount, before the filter and whether or not it
\* adapts: a NaN falls through both clamps.
Discounted(c, num, den) ==
    [c EXCEPT !.num = num, !.den = den,
              !.nov = IF Over(Square(num), Worst("fin", Square(den))) = "nan" THEN "nan" ELSE "fin"]

Novel(c) ==
    IF c.cfg.novelty /\ c.cfg.partitions >= 2
    THEN Discounted(c, Plus(c.num, Times(c.u[1], c.u[2])),
                       Worst(c.den, Times(Square(c.u[1]), Square(c.u[2]))))
    ELSE c

\* What the filter makes of the ring.
Filtered(u, h) == WorstOf({Times(u[i], h) : i \in DOMAIN u})

Concentrated(c, k) ==
    IF k.tone /\ c.u[1] = "fin"
    THEN (IF c.nb < c.cfg.guard THEN c.nb + 1 ELSE c.nb)
    ELSE c.nb \div 2

\* Predict: the uncertainty with its process noise, and the innovation power.
Prior(c) == Worst(c.p, Square(c.h))

Innovation(c, e, prior) ==
    WorstOf({"fin", c.psi, IF c.cfg.floor THEN Square(e) ELSE "zero"}
            \cup {Times(Square(c.u[i]), prior) : i \in DOMAIN c.u})

\* Correct with the gain g, and track the near end.
Corrected(c, e, prior, g, k) ==
    [c EXCEPT !.h = Settled(Plus(@, WorstOf({Times(g, Times(c.u[i], e)) : i \in DOMAIN c.u})), k.loud),
              !.p = WorstOf({Times(prior, Plus("fin", Times(Times(g, Square(c.u[i])), c.nov))) : i \in DOMAIN c.u}),
              !.psi = Worst(@, Square(e))]

Predicted(c, e, prior, k) == Corrected(c, e, prior, Over(prior, Innovation(c, e, prior)), k)

TripKalman(c) == [core |-> ResetKalman([c EXCEPT !.trips = c.trips + 1]), e |-> "zero", yhat |-> "zero"]

\* Frozen and held blocks run no transform: their check sums squares.
Held(c, e, yhat) ==
    IF FinitePower(e) THEN [core |-> c, e |-> e, yhat |-> yhat] ELSE TripKalman(c)

Counted(c, k) == [c EXCEPT !.nb = IF c.cfg.guard > 0 THEN Concentrated(c, k) ELSE 0]

(* Mutant: the adapting path trusts its error. *)
KalmanAdaptUnchecked(c, e, yhat, k) ==
    IF c.cfg.guard > 0 /\ c.nb >= c.cfg.guard THEN Held(c, e, yhat)
    ELSE [core |-> Predicted(c, e, Prior(c), k), e |-> e, yhat |-> yhat]

KalmanAdapt(c, e, yhat, k) ==
    IF c.cfg.guard > 0 /\ c.nb >= c.cfg.guard THEN Held(c, e, yhat)
    ELSE IF ~FiniteSum(e) THEN TripKalman(c)
    ELSE [core |-> Predicted(c, e, Prior(c), k), e |-> e, yhat |-> yhat]

KalmanError(c, e, yhat, k) ==
    IF c.adapt THEN KalmanAdapt(Counted(c, k), e, yhat, k) ELSE Held(c, e, yhat)

KalmanCancel(c, y, yhat, k) == KalmanError(c, Plus(y, yhat), yhat, k)

KalmanFilter(c, y, k) == KalmanCancel(c, y, Settled(Filtered(c.u, c.h), k.loud), k)

KalmanBlock(c, x, y, k) == KalmanFilter(Novel(Slid(c, x)), y, k)

\* reinflate_uncertainty(): x < p0 ? p0 : x lifts a number and leaves a NaN.
Reinflated(c) == [c EXCEPT !.p = IF @ = "zero" THEN "fin" ELSE @]
=============================================================================
