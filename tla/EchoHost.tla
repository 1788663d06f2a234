------------------------------ MODULE EchoHost ------------------------------
(***************************************************************************)
(* A host driving one echo or feedback canceller through its block interface,  *)
(* as the C API (tools/capi/mutap_capi.cpp) exposes it: a bare core, a           *)
(* prewhitened canceller, or the AEC chain with either post stage. unit is the    *)
(* stages' state, pol the chain's policy layer, out the class of the last          *)
(* output block. Blocks of ordinary values come for ever; MaxFaults bounds the      *)
(* blocks with an overflowing or non-finite sample on either input.                *)
(***************************************************************************)
EXTENDS PemAfc, AecChain, EchoPolicy

CONSTANTS
    Units,              \* the units a host may create
    MaxFaults           \* faulty blocks, per kind of unit

\* A core on its own.
BareUnit(cfg) == [kind |-> "core", cfg |-> cfg, core |-> Core(cfg), trips |-> 0]

\* What the constructors accept.
Accepted(u) ==
    \/ u.kind = "core" /\ ValidCore(u.cfg) /\ u = BareUnit(u.cfg)
    \/ u.kind = "afc" /\ ValidPem(u.cfg) /\ u = Pem(u.cfg)
    \/ u.kind = "aec" /\ ValidAec(u.cfg) /\ u = Aec(u.cfg)

ASSUME UnitsAssumption == \A u \in Units : Accepted(u)

VARIABLES unit, pol, out, faults

vars == <<unit, pol, out, faults>>

Bad == {"huge", "inf", "nan"}

\* One input at most is silent.
Ordinary == {<<"fin", "zero">>, <<"zero", "fin">>, <<"fin", "fin">>}

Faulty == (Bad \X {"fin"}) \cup ({"fin"} \X Bad)

\* An input, a weight or a ring slot whose square overflows.
NearOverflow(c) == "huge" \in {c.h, c.win} \cup {c.u[i] : i \in DOMAIN c.u}

NearOverflowAfc(c) ==
    "huge" \in {c.raw.win, c.us.past, c.ys.past}
               \cup UNION {{s[i] : i \in DOMAIN s} : s \in {c.raw.u, c.us.ring, c.ys.ring, c.ewin}}

\* What the numbers may decide; a comparison nobody makes has one outcome.
Chances(x, y) ==
    LET kind     == unit.kind
        near     == \/ "huge" \in {x, y}
                    \/ NearOverflow(unit.core)
                    \/ kind # "core" /\ NearOverflow(unit.shadow)
                    \/ kind = "afc" /\ NearOverflowAfc(unit)
        fork(p)  == IF p THEN BOOLEAN ELSE {TRUE}
        nlms     == unit.core.cfg.core = "fdaf"
        residual == kind = "aec" /\ unit.cfg.post.post = "residual"
    IN  [loud : fork(near), tone : fork(~nlms /\ unit.core.cfg.guard > 0),
         burst : fork(nlms /\ unit.core.cfg.transient), coherent : fork(nlms /\ unit.core.cfg.gate # "none"),
         voiced : fork(kind = "afc" /\ near), certified : fork(residual /\ (near \/ ~Finite(unit.post.see)))]

CoreUnitBlock(u, x, y, k) ==
    LET r == CoreBlock(u.core, x, y, k)
    IN  [unit |-> [u EXCEPT !.core = r.core, !.trips = r.core.trips], out |-> r.e]

\* process_block() of the unit: what the stages can make of a block.
Results(x, y) ==
    CASE unit.kind = "core" -> {CoreUnitBlock(unit, x, y, k) : k \in Chances(x, y)}
      [] unit.kind = "afc" -> {PemBlock(unit, x, y, k) : k \in Chances(x, y)}
      [] unit.kind = "aec" -> {AecBlock(unit, x, y, k) : k \in Chances(x, y)}

\* What the comparisons of the policy layer say; the activity of the far end
\* and the shadow's lead decide nothing before the guard has certified.
Listening(x) ==
    x = "fin" /\ (Converged(pol, unit.cfg.guard) \/ pol.conv + 1 >= GuardHold)

Decisions(r, x) ==
    [explained : r.explained, active : {FALSE}, ahead : {FALSE}]
    \cup IF Listening(x) THEN [explained : r.explained, active : {TRUE}, ahead : BOOLEAN] ELSE {}

Evidence(r, x, d) ==
    [x |-> x, mid |-> r.mid, shadow_e |-> r.shadow_e, explained |-> d.explained,
     active |-> d.active, ahead |-> d.ahead]

Init == /\ unit \in Units
        /\ pol = FreshPolicy
        /\ out = "zero"
        /\ faults = 0

\* A unit without a policy layer: a core or a prewhitened canceller.
ProcessAlone(r) ==
    /\ unit.kind \in {"core", "afc"}
    /\ unit' = r.unit
    /\ out' = r.out
    /\ UNCHANGED pol

\* aec_chain::process_block(): the stages, then either the trip of the whole
\* chain or the policy layer and its lift.
ProcessAec(r, ev) ==
    /\ unit.kind = "aec"
    /\ pol' = IF r.tripped THEN FreshPolicy ELSE Policed(pol, ev, unit.cfg.guard)
    /\ unit' = IF pol'.lifted = "no" THEN r.unit ELSE LiftedAec(r.unit)
    /\ out' = r.out

ProcessBlock(x, r) ==
    \/ ProcessAlone(r)
    \/ unit.kind = "aec" /\ \E d \in Decisions(r, x) : ProcessAec(r, Evidence(r, x, d))

ProcessOrdinary ==
    /\ \E b \in Ordinary : \E r \in Results(b[1], b[2]) : ProcessBlock(b[1], r)
    /\ UNCHANGED faults

ProcessFaulty ==
    /\ faults < MaxFaults[unit.kind]
    /\ faults' = faults + 1
    /\ \E b \in Faulty : \E r \in Results(b[1], b[2]) : ProcessBlock(b[1], r)

\* set_adaptation() reaches the canceller's core; the shadows always adapt.
SetAdaptation(enabled) ==
    /\ unit.core.adapt # enabled
    /\ unit' = [unit EXCEPT !.core.adapt = enabled]
    /\ UNCHANGED <<pol, out, faults>>

ResetUnit(u) ==
    CASE u.kind = "core" -> [u EXCEPT !.core = ResetCore(@)]
      [] u.kind = "afc" -> ResetPem(u)
      [] u.kind = "aec" -> ResetAec(u)

Reset ==
    /\ unit' = ResetUnit(unit)
    /\ pol' = FreshPolicy
    /\ out' = "zero"
    /\ UNCHANGED faults

Process == ProcessOrdinary \/ ProcessFaulty

Next == Process \/ (\E enabled \in BOOLEAN : SetAdaptation(enabled)) \/ Reset

Spec == Init /\ [][Next]_vars

\* The fields of the policy layer hold what the code's types and clamps allow.
PolicyTypeOK ==
    /\ DOMAIN pol = PolicyFields
    /\ pol.floor \in Values /\ pol.pm \in Values /\ pol.ps \in Values
    /\ pol.conv \in 0 .. GuardHold
    /\ pol.converged \in BOOLEAN
    /\ pol.drop \in 0 .. RescueHold - 1
    /\ pol.cooldown \in 0 .. Cooldown
    /\ pol.scount \in 0 .. ShadowHold - 1
    /\ pol.lifted \in {"no", "rescue", "shadow"}
=============================================================================
