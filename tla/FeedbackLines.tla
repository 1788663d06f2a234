---------------------------- MODULE FeedbackLines ----------------------------
(***************************************************************************)
(* What the anti-howl chain promises of time, without rings or positions   *)
(* (the class comment of include/mutap/afc_chain.h):                       *)
(*   - the cancellers' reference is what the speaker played one block and  *)
(*     reference_delay_samples ago, u[n] = speaker[n - b - R];             *)
(*   - the speaker plays the voice bus, through the attached stages in     *)
(*     their fixed order, exactly output_delay_samples late, plus aux;     *)
(*   - before anything was played, and after a reset, both lines are       *)
(*     silent.                                                             *)
(* The bus and the aux of a block are visible, so what the speaker plays   *)
(* is checked against them and not against some block that would fit.      *)
(***************************************************************************)
EXTENDS Integers, Sequences

CONSTANTS
  Samples, Zero,  \* the sample values and silence
  Add(_, _),      \* the sum of two samples
  B,              \* block_size()
  R,              \* reference_delay_samples
  O,              \* output_delay_samples
  Stage           \* what each stage does to a sample

VARIABLES
  stages,   \* the attached stages
  block,    \* the voice bus and the aux of the last block
  u,        \* the reference of the last block
  spoken,   \* the last b + R samples the speaker was given, the oldest first
  pending   \* the O bus samples it has not been given yet, the oldest first

lineVars == <<stages, block, u, spoken, pending>>

Blocks == [1..B -> Samples]
Silence(n) == [i \in 1..n |-> Zero]
Quiet == [bus |-> Silence(B), aux |-> Silence(B)]

Stages == {"decorrelator", "reverb", "safety"}

(* A sample through the attached stages: the safety stage hears the reverb,
   the reverb the decorrelator. *)
Staged(x) ==
  LET Via(name, y) == IF name \in stages THEN Stage[name][y] ELSE y
  IN Via("safety", Via("reverb", Via("decorrelator", x)))

Play(bus, aux) ==
  LET line == pending \o [i \in 1..B |-> Staged(bus[i])]
      speaker == [i \in 1..B |-> Add(line[i], aux[i])]
  IN /\ block' = [bus |-> bus, aux |-> aux]
     /\ u' = SubSeq(spoken, 1, B)
     /\ spoken' = SubSeq(spoken \o speaker, B + 1, R + 2 * B)
     /\ pending' = SubSeq(line, B + 1, O + B)
     /\ UNCHANGED stages

Clear ==
  /\ block' = Quiet
  /\ u' = Silence(B)
  /\ spoken' = Silence(R + B)
  /\ pending' = Silence(O)
  /\ UNCHANGED stages

Attach == stages' \in SUBSET Stages /\ UNCHANGED <<block, u, spoken, pending>>

LinesInit ==
  /\ stages = {}
  /\ block = Quiet
  /\ u = Silence(B)
  /\ spoken = Silence(R + B)
  /\ pending = Silence(O)

LinesNext ==
  \/ \E bus, aux \in Blocks : Play(bus, aux)
  \/ Clear
  \/ Attach

LinesSpec == LinesInit /\ [][LinesNext]_lineVars

===============================================================================
