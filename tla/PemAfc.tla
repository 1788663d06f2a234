------------------------------- MODULE PemAfc -------------------------------
(***************************************************************************)
(* pem_afc (pem_afc.h): cancels on the raw loudspeaker signal with its core's  *)
(* weights, adapts the core on the prewhitened pair. Its own state: raw (the   *)
(* window and ring of u), ewin (the analysis window of e, newest first), us    *)
(* and ys (the streams), the optional shadow and the two residual powers.      *)
(***************************************************************************)
EXTENDS FdafCore, Predictor

\* window and ring count blocks: the analysis window, and the residuals a
\* pitch tap reaches back to. shadow counts partitions, 0 when it is off.
PemConfig(core, model, window, ring, shadow) ==
    [core |-> core, model |-> model, window |-> window, ring |-> ring, shadow |-> shadow]

ValidPem(cfg) ==
    /\ ValidCore(cfg.core) /\ cfg.model \in {"speech", "warped"}
    /\ cfg.window \in Nat \ {0, 1} /\ cfg.ring \in Nat \ {0}
    /\ cfg.shadow \in 0 .. cfg.core.partitions

\* Every other field at its default; the record of a shadow that is off stays
\* as it is built.
ShadowConfig(cfg) ==
    KalmanConfig(IF cfg.shadow > 0 THEN cfg.shadow ELSE 1, FALSE, FALSE, 0)

Pem(cfg) ==
    [kind |-> "afc", cfg |-> cfg, core |-> Core(cfg.core), shadow |-> Kalman(ShadowConfig(cfg)),
     raw |-> [win |-> "zero", u |-> [i \in 1 .. cfg.core.partitions |-> "zero"]],
     ewin |-> [i \in 1 .. cfg.window |-> "zero"],
     us |-> Stream(cfg.ring), ys |-> Stream(cfg.ring),
     pm |-> "zero", ps |-> "zero", trips |-> 0]

ResetPem(c) ==
    [Pem(c.cfg) EXCEPT !.core = ResetCore(c.core), !.shadow = ResetKalman(c.shadow), !.trips = c.trips]

TripPem(c) == [unit |-> ResetPem([c EXCEPT !.trips = c.trips + 1]), out |-> "zero"]

\* The window after this e, which the near-end model is fitted to.
Windowed(c, e) == [i \in DOMAIN c.ewin |-> IF i = 1 THEN e ELSE c.ewin[i - 1]]

\* The shadow adapts on the pair the core just adapted on.
Compare(c, ep, s) ==
    [c EXCEPT !.shadow = s.core, !.pm = Chase(@, Square(ep)), !.ps = Chase(@, Square(s.e))]

UpdateShadow(c, up, yp, ep, k) ==
    IF c.cfg.shadow > 0 THEN Compare(c, ep, KalmanBlock(c.shadow, up, yp, k)) ELSE c

\* The core r of this block. It counts its own trip.
PemAfter(c, r, up, yp, e, k) ==
    IF r.core.trips # c.core.trips
    THEN TripPem([c EXCEPT !.core = r.core])
    ELSE [unit |-> UpdateShadow([c EXCEPT !.core = r.core], up, yp, r.e, k), out |-> e]

\* The core on the prewhitened pair.
PemCore(c, up, yp, e, k) ==
    PemAfter([c EXCEPT !.us = up.stream, !.ys = yp.stream],
             CoreBlock(c.core, up.out, yp.out, k), up.out, yp.out, e, k)

PemWhiten(c, x, y, e, fit, k) ==
    PemCore(c, Apply(c.cfg.model, c.us, x, fit), Apply(c.cfg.model, c.ys, y, fit), e, k)

\* The near-end model, fitted to the window that ends with this e.
PemFit(c, x, y, e, k) ==
    PemWhiten(c, x, y, e, Fitted(WorstOf({c.ewin[i] : i \in DOMAIN c.ewin}), c.cfg.model, k), k)

PemError(c, x, y, e, k) ==
    IF c.core.adapt THEN PemFit([c EXCEPT !.ewin = Windowed(c, e)], x, y, e, k)
    ELSE IF FinitePower(e) THEN [unit |-> c, out |-> e]
    ELSE TripPem(c)

\* The cancellation, with the core's weights on the raw ring.
PemCancel(c, x, y, k) ==
    PemError(c, x, y, Plus(y, Settled(Filtered(c.raw.u, c.core.h), k.loud)), k)

PemBlock(c, x, y, k) == PemCancel([c EXCEPT !.raw = Slid(@, x)], x, y, k)
=============================================================================
