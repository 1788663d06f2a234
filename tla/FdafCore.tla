------------------------------ MODULE FdafCore ------------------------------
(***************************************************************************)
(* partitioned_fdaf (fdaf.h): the NLMS core as a value, with its IPC         *)
(* estimator and the two gates on the update. ipc is whether the coherence    *)
(* clears the threshold; held is m_transient. A chance k adds: coherent (the   *)
(* pair is), burst (this error is far above the average).                    *)
(***************************************************************************)
EXTENDS KalmanCore

\* smooth: the power is smoothed; gate: what a low ipc does to the update.
FdafConfig(partitions, smooth, gate, transient) ==
    [core |-> "fdaf", partitions |-> partitions, smooth |-> smooth, gate |-> gate, transient |-> transient]

ValidFdaf(cfg) ==
    /\ cfg.core = "fdaf" /\ cfg.partitions \in Nat \ {0}
    /\ {cfg.smooth, cfg.transient} \subseteq BOOLEAN /\ cfg.gate \in {"none", "freeze", "scale"}

Fdaf(cfg) ==
    [cfg |-> cfg, win |-> "zero", u |-> [i \in 1 .. cfg.partitions |-> "zero"], h |-> "zero",
     power |-> "zero", see |-> "zero", suu |-> "zero", cross |-> "zero",
     ipc |-> FALSE, held |-> FALSE, adapt |-> TRUE, trips |-> 0]

ResetFdaf(c) == [Fdaf(c.cfg) EXCEPT !.adapt = c.adapt, !.trips = c.trips]

TripFdaf(c) == [core |-> ResetFdaf([c EXCEPT !.trips = c.trips + 1]), e |-> "zero", yhat |-> "zero"]

\* inst_e2 against the average before this block; nothing exceeds an infinity.
Burst(c, e, k) ==
    /\ c.cfg.transient
    /\ c.see = "fin"
    /\ Square(e) = "inf" \/ (e = "fin" /\ k.burst)

\* The smoothers keep an infinity; the estimate then reads 0, as it does on
\* anything that is not a number.
Explains(suu, cross) == IF suu = "zero" THEN "zero" ELSE Over(Square(cross), suu)

Coherent(explained, see, k) ==
    /\ see = "fin"
    /\ \/ Over(explained, see) = "inf"
       \/ Over(explained, see) = "fin" /\ k.coherent

Smoothed(c, e, k) ==
    [c EXCEPT !.held = Burst(c, e, k),
              !.see = Worst(@, Square(e)),
              !.suu = WorstOf({@} \cup {Square(c.u[i]) : i \in DOMAIN c.u}),
              !.cross = WorstOf({Plus(@, Times(c.u[i], e)) : i \in DOMAIN c.u})]

Gated(c, k) == [c EXCEPT !.ipc = Coherent(Explains(c.suu, c.cross), c.see, k)]

UpdateIpc(c, e, k) == Gated(Smoothed(c, e, k), k)

Powered(c) ==
    [c EXCEPT !.power = WorstOf({Times(IF c.cfg.smooth THEN "fin" ELSE "zero", @)}
                                \cup {Square(c.u[i]) : i \in DOMAIN c.u})]

\* The normalised update.
Factor(c) ==
    Over(IF c.cfg.gate = "scale" /\ ~c.ipc THEN "zero" ELSE "fin", Worst("fin", c.power))

Moved(c, e, factor, k) ==
    [c EXCEPT !.h = Settled(Plus(@, WorstOf({Times(factor, Times(c.u[i], e)) : i \in DOMAIN c.u})), k.loud)]

Stepped(c, e, k) ==
    IF c.held \/ (c.cfg.gate = "freeze" /\ ~c.ipc) THEN c ELSE Moved(c, e, Factor(c), k)

\* The power keeps tracking while the update is held.
Adapted(c, e, k) == Stepped(Powered(UpdateIpc(c, e, k)), e, k)

FdafError(c, e, yhat, k) ==
    IF ~(IF c.adapt THEN FiniteSum(e) ELSE FinitePower(e)) THEN TripFdaf(c)
    ELSE [core |-> IF c.adapt THEN Adapted(c, e, k) ELSE c, e |-> e, yhat |-> yhat]

FdafCancel(c, y, yhat, k) == FdafError(c, Plus(y, yhat), yhat, k)

FdafFilter(c, y, k) == FdafCancel(c, y, Settled(Filtered(c.u, c.h), k.loud), k)

FdafBlock(c, x, y, k) == FdafFilter(Slid(c, x), y, k)

\* A core of either kind, as the canceller's Core parameter.
ValidCore(cfg) == IF cfg.core = "kalman" THEN ValidKalman(cfg) ELSE ValidFdaf(cfg)

Core(cfg) == IF cfg.core = "kalman" THEN Kalman(cfg) ELSE Fdaf(cfg)

ResetCore(c) == IF c.cfg.core = "kalman" THEN ResetKalman(c) ELSE ResetFdaf(c)

CoreBlock(c, x, y, k) == IF c.cfg.core = "kalman" THEN KalmanBlock(c, x, y, k) ELSE FdafBlock(c, x, y, k)

\* A weight or an uncertainty that is no longer a number of a working filter.
Poisoned(c) == ~Finite(c.h) \/ (c.cfg.core = "kalman" /\ ~Finite(c.p))

\* Any state a core carries from block to block that is not a number.
NonFinite(c) ==
    \E v \in {c.h} \cup (IF c.cfg.core = "kalman"
                         THEN {c.p, c.psi, c.num, c.den, c.nov}
                         ELSE {c.power, c.see, c.suu, c.cross}) : ~Finite(v)
=============================================================================
