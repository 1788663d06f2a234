------------------------------ MODULE AecChain ------------------------------
(***************************************************************************)
(* The stages of aec_chain (postfilter.h): the raw Kalman canceller, the post  *)
(* stage, and the shadow canceller of the comparator (a trip of the shadow is    *)
(* its own affair). The policy layer is EchoPolicy; EchoHost joins the two.      *)
(***************************************************************************)
EXTENDS FdafCore, Suppressors

\* guard is whether guard_attenuation_db > 0; shadow counts partitions. The
\* presets switch both lifts on.
AecConfig(core, post, guard, shadow) == [core |-> core, post |-> post, guard |-> guard, shadow |-> shadow]

ValidAec(cfg) ==
    /\ ValidKalman(cfg.core) /\ ValidPost(cfg.post)
    /\ cfg.guard \in BOOLEAN /\ cfg.shadow \in Nat \ {0}

\* The canceller's configuration with its own partitions and transition.
ChainShadow(cfg) == Kalman([cfg.core EXCEPT !.partitions = cfg.shadow])

Aec(cfg) ==
    [kind |-> "aec", cfg |-> cfg, core |-> Kalman(cfg.core), post |-> Post(cfg.post),
     shadow |-> ChainShadow(cfg), trips |-> 0]

ResetAec(c) ==
    [Aec(c.cfg) EXCEPT !.core = ResetKalman(c.core), !.post = ResetPost(c.post),
                       !.shadow = ResetKalman(c.shadow), !.trips = c.trips]

(* Mutant: the chain watches its canceller only. *)
CancellerTrips(c) == c.core.trips

StageTrips(c) == c.core.trips + c.post.trips

\* The result of a block on which a stage tripped.
TripAec(c) ==
    [tripped |-> TRUE, unit |-> ResetAec([c EXCEPT !.trips = @ + 1]), out |-> "zero",
     mid |-> "zero", yhat |-> "zero", shadow_e |-> "zero", explained |-> {"low"}]

\* The canceller's r, the post stage's q and the shadow's s of one block.
PassAec(c, r, q, s) ==
    [tripped |-> FALSE, unit |-> [c EXCEPT !.shadow = s.core], out |-> q.out,
     mid |-> r.e, yhat |-> r.yhat, shadow_e |-> s.e, explained |-> q.explained]

\* The stages joined: trips is their count before the block.
AecJoin(c, x, y, k, r, q, trips) ==
    IF StageTrips(c) # trips THEN TripAec(c)
    ELSE PassAec(c, r, q, KalmanBlock(c.shadow, x, y, k))

AecStages(c, x, y, k, r, q) ==
    AecJoin([c EXCEPT !.core = r.core, !.post = q.post], x, y, k, r, q, StageTrips(c))

\* A canceller that tripped hands the post stage zeros.
AecPost(c, x, y, k, r) ==
    AecStages(c, x, y, k, r,
              PostBlock(c.post, r.e, r.yhat, IF r.core.trips = c.core.trips THEN y ELSE "zero", k))

AecBlock(c, x, y, k) == AecPost(c, x, y, k, KalmanBlock(c.core, x, y, k))

\* The rescue's and the comparator's lift of the canceller.
LiftedAec(c) == [c EXCEPT !.core = Reinflated(@)]
=============================================================================
