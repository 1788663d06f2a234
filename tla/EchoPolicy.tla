----------------------------- MODULE EchoPolicy -----------------------------
(***************************************************************************)
(* The policy layer of aec_chain (postfilter.h): the receive guard and its     *)
(* certificate, the rescue on over-explanation and the shadow comparator, the   *)
(* two triggers of one lift of the canceller's uncertainty with one cooldown.   *)
(* A policy is a record; what the chain hands it per block is a record ev: x,    *)
(* mid and shadow_e (the classes of the far end and of the two residuals),       *)
(* explained, and the comparisons of ordinary numbers, active and ahead (the     *)
(* shadow out-cancels). "over" is past 1 / rescue_drop_ratio, and so past        *)
(* guard_converge_ratio. The guard's gain, a level, is not kept.               *)
(***************************************************************************)
EXTENDS Floats

CONSTANTS
    GuardHold,          \* guard_hold_blocks
    RescueHold,         \* rescue_hold_blocks
    Cooldown,           \* rescue_cooldown_blocks
    ShadowHold          \* shadow_hold_blocks

ASSUME HoldsAssumption ==
    /\ GuardHold \in Nat \ {0}
    /\ RescueHold \in Nat \ {0}
    /\ Cooldown \in Nat \ {0}
    /\ ShadowHold \in Nat \ {0}

PolicyFields == {"floor", "conv", "converged", "drop", "cooldown", "scount", "pm", "ps", "lifted"}

\* lifted: the trigger of this block's reinflate_uncertainty().
FreshPolicy ==
    [floor |-> "zero", conv |-> 0, converged |-> FALSE, drop |-> 0, cooldown |-> 0,
     scount |-> 0, pm |-> "zero", ps |-> "zero", lifted |-> "no"]

\* The asymmetric floor of the far end's power.
Tracking(p, ev) == [p EXCEPT !.floor = Chase(@, Square(ev.x)), !.lifted = "no"]

\* Nothing is above an infinite or undefined floor, and silence above none.
ReceiveActive(p, ev) == p.floor = "fin" /\ Square(ev.x) = "fin" /\ ev.active

\* guard is whether guard_attenuation_db > 0.
Converged(p, guard) == p.converged \/ ~guard

Certified(ev) == ev.explained \in {"good", "over"}

(* Mutant: a block that does not certify leaves the count. *)
ApplyGuardKeepsCount(p, ev, guard) ==
    IF ~guard \/ p.converged \/ ~Certified(ev) THEN p
    ELSE [p EXCEPT !.conv = @ + 1, !.converged = p.conv + 1 >= GuardHold]

ApplyGuard(p, ev, guard) ==
    IF ~guard \/ p.converged THEN p
    ELSE IF ~Certified(ev) THEN [p EXCEPT !.conv = 0]
    ELSE [p EXCEPT !.conv = @ + 1, !.converged = p.conv + 1 >= GuardHold]

\* x <= threshold is false of a NaN, which therefore votes.
OverExplained(ev) == ev.explained \in {"over", "nan"}

(* Mutant: the rescue fires one block late. *)
ApplyRescueLate(p, ev, guard) ==
    IF ~Converged(p, guard) THEN p
    ELSE IF p.cooldown > 0 THEN [p EXCEPT !.cooldown = @ - 1, !.drop = 0]
    ELSE IF ~ReceiveActive(p, ev) THEN p
    ELSE IF ~OverExplained(ev) THEN [p EXCEPT !.drop = @ \div 2]
    ELSE IF p.drop + 1 <= RescueHold THEN [p EXCEPT !.drop = @ + 1]
    ELSE [p EXCEPT !.drop = 0, !.cooldown = Cooldown, !.lifted = "rescue"]

ApplyRescue(p, ev, guard) ==
    IF ~Converged(p, guard) THEN p
    ELSE IF p.cooldown > 0 THEN [p EXCEPT !.cooldown = @ - 1, !.drop = 0]
    ELSE IF ~ReceiveActive(p, ev) THEN p
    ELSE IF ~OverExplained(ev) THEN [p EXCEPT !.drop = @ \div 2]
    ELSE IF p.drop + 1 < RescueHold THEN [p EXCEPT !.drop = @ + 1]
    ELSE [p EXCEPT !.drop = 0, !.cooldown = Cooldown, !.lifted = "rescue"]

\* The two smoothed residual powers.
Compared(p, ev) == [p EXCEPT !.pm = Chase(@, Square(ev.mid)), !.ps = Chase(@, Square(ev.shadow_e))]

ShadowAhead(p, ev) ==
    \/ "nan" \in {p.pm, p.ps}
    \/ p.pm = "inf" /\ p.ps # "inf"
    \/ Finite(p.pm) /\ Finite(p.ps) /\ p.pm # "zero" /\ ev.ahead

(* Mutants: the comparator ignores the cooldown; its lift keeps the votes. *)
ContestInCooldown(p, ev, guard) ==
    IF ~Converged(p, guard) \/ ~ReceiveActive(p, ev) THEN p
    ELSE IF ~ShadowAhead(p, ev) THEN [p EXCEPT !.scount = @ \div 2]
    ELSE IF p.scount + 1 < ShadowHold THEN [p EXCEPT !.scount = @ + 1]
    ELSE [p EXCEPT !.scount = 0, !.drop = 0, !.cooldown = Cooldown, !.lifted = "shadow"]

ContestKeepsVotes(p, ev, guard) ==
    IF ~Converged(p, guard) \/ p.cooldown > 0 \/ ~ReceiveActive(p, ev) THEN p
    ELSE IF ~ShadowAhead(p, ev) THEN [p EXCEPT !.scount = @ \div 2]
    ELSE IF p.scount + 1 < ShadowHold THEN [p EXCEPT !.scount = @ + 1]
    ELSE [p EXCEPT !.drop = 0, !.cooldown = Cooldown, !.lifted = "shadow"]

Contest(p, ev, guard) ==
    IF ~Converged(p, guard) \/ p.cooldown > 0 \/ ~ReceiveActive(p, ev) THEN p
    ELSE IF ~ShadowAhead(p, ev) THEN [p EXCEPT !.scount = @ \div 2]
    ELSE IF p.scount + 1 < ShadowHold THEN [p EXCEPT !.scount = @ + 1]
    ELSE [p EXCEPT !.scount = 0, !.drop = 0, !.cooldown = Cooldown, !.lifted = "shadow"]

ApplyShadow(p, ev, guard) == Contest(Compared(p, ev), ev, guard)

\* The policy's part of a block on which no stage tripped.
Policed(p, ev, guard) ==
    ApplyShadow(ApplyRescue(ApplyGuard(Tracking(p, ev), ev, guard), ev, guard), ev, guard)
=============================================================================
