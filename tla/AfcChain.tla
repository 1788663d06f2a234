------------------------------- MODULE AfcChain -------------------------------
(***************************************************************************)
(* The anti-howl chain (include/mutap/afc_chain.h): M cancellers on one    *)
(* delayed speaker reference, summed into a voice bus (through the guard's *)
(* gains when one is attached), three optional stages, an output delay     *)
(* line and the backing track.  One action is one block, or one call of    *)
(* the host between blocks.                                                *)
(*                                                                         *)
(* A canceller is a component of its own: here its residual is any block.  *)
(* A stage does the same to every sample, and a guard's gain passes a      *)
(* block of a mic or shuts it; the guard itself is module HowlGuard.       *)
(***************************************************************************)
EXTENDS DelayLine, FiniteSets

CONSTANTS
  Samples, Zero, Add(_, _), B, R, O, Stage,  \* as in FeedbackLines
  M,        \* microphones
  Residuals,  \* the blocks a canceller may leave of its mic
  Tracks,   \* the blocks the host may give as aux (silence stands for nullptr)
  Shadow,   \* shadow_enabled(), per mic
  Guards    \* the guards the host may attach: [mics, block]

ASSUME ChainSamplesAssumption ==
  /\ Zero \in Samples
  /\ \A x, y \in Samples : Add(x, y) \in Samples
ASSUME ChainSizesAssumption ==
  B \in Nat \ {0} /\ R \in Nat /\ O \in Nat /\ M \in Nat \ {0}
ASSUME ChainStageAssumption ==
  Stage \in [{"decorrelator", "reverb", "safety"} -> [Samples -> Samples]]
ASSUME ChainBlocksAssumption ==
  Residuals \subseteq [1..B -> Samples] /\ Tracks \subseteq [1..B -> Samples]
ASSUME ChainGuardAssumption ==
  Shadow \in [1..M -> BOOLEAN] /\ Guards \subseteq [mics : Nat, block : Nat]

VARIABLES
  refRing, refPos,  \* the speaker history
  outRing, outPos,  \* the output delay line
  u,                \* the reference block the cancellers last saw
  block,            \* the voice bus and the aux of the last block
  stages,           \* the attached stages
  guarded           \* a guard is attached

chainVars == <<refRing, refPos, outRing, outPos, u, block, stages, guarded>>

Blocks == [1..B -> Samples]
Silence(n) == [i \in 1..n |-> Zero]
Quiet == [bus |-> Silence(B), aux |-> Silence(B)]
Stages == {"decorrelator", "reverb", "safety"}

RefSize == R + B
OutSize == O + B

(* Both write positions stay inside their rings, wherever a block falls at the
   wrap (m_ref_pos, m_out_pos). *)
ChainTypeOK ==
  /\ refRing \in [0..RefSize-1 -> Samples] /\ refPos \in 0..RefSize-1
  /\ outRing \in [0..OutSize-1 -> Samples] /\ outPos \in 0..OutSize-1
  /\ u \in Blocks
  /\ block \in [bus : Blocks, aux : Blocks]
  /\ stages \in SUBSET Stages
  /\ guarded \in BOOLEAN

Plus(a, b) == [i \in 1..B |-> Add(a[i], b[i])]

(* bus = the sum of the blocks, the first of them copied. *)
PlainSum(e) ==
  LET sum[k \in 1..M] == IF k = 1 THEN e[1] ELSE Plus(sum[k - 1], e[k])
  IN sum[M]

(* The same with each block through the guard's gain for its mic. *)
GuardedSum(e, passes) ==
  PlainSum([k \in 1..M |-> IF passes[k] THEN e[k] ELSE Silence(B)])

(* Mutant: a detached stage leaves the block the stage before it read. *)
RunStageUnswapped(name, bufs) ==
  [bus |-> bufs.alt,
   alt |-> IF name \in stages THEN [i \in 1..B |-> Stage[name][bufs.bus[i]]] ELSE bufs.bus]

(* A stage runs from one buffer into the other and the two swap. *)
RunStage(name, bufs) ==
  IF name \in stages
  THEN [bus |-> [i \in 1..B |-> Stage[name][bufs.bus[i]]], alt |-> bufs.bus]
  ELSE bufs

RunStages(bus) ==
  RunStage("safety", RunStage("reverb",
    RunStage("decorrelator", [bus |-> bus, alt |-> bus]))).bus

(* Mutant: the output line is read before the position moves past the block
   just written, so the speaker plays that block at once. *)
ProcessOneEarly(bus, aux) ==
  LET ring == RingWrite(outRing, outPos, RunStages(bus), OutSize)
      speaker == Plus(RingRead(ring, outPos, B, OutSize), aux)
  IN /\ block' = [bus |-> bus, aux |-> aux]
     /\ u' = RingRead(refRing, refPos, B, RefSize)
     /\ outRing' = ring
     /\ outPos' = Advance(outPos, B, OutSize)
     /\ refRing' = RingWrite(refRing, refPos, speaker, RefSize)
     /\ refPos' = Advance(refPos, B, RefSize)
     /\ UNCHANGED <<stages, guarded>>

(* One block, from the bus on: stages, output line, speaker; the reference was
   read first. *)
ProcessOne(bus, aux) ==
  LET ring == RingWrite(outRing, outPos, RunStages(bus), OutSize)
      pos  == Advance(outPos, B, OutSize)
      speaker == Plus(RingRead(ring, pos, B, OutSize), aux)
  IN /\ block' = [bus |-> bus, aux |-> aux]
     /\ u' = RingRead(refRing, refPos, B, RefSize)
     /\ outRing' = ring
     /\ outPos' = pos
     /\ refRing' = RingWrite(refRing, refPos, speaker, RefSize)
     /\ refPos' = Advance(refPos, B, RefSize)
     /\ UNCHANGED <<stages, guarded>>

(* A guard is refused when it does not fit the chain, or when a canceller has
   no shadow: its verdict could never declare.  A refusal returns before the
   assignment, so a guard attached before stays attached. *)
Accepts(g) == g.mics = M /\ g.block = B /\ \A k \in 1..M : Shadow[k]

SetGuard(g) ==
  /\ guarded' = (guarded \/ Accepts(g))
  /\ UNCHANGED <<refRing, refPos, outRing, outPos, u, block, stages>>

DetachGuard ==
  /\ guarded' = FALSE
  /\ UNCHANGED <<refRing, refPos, outRing, outPos, u, block, stages>>

SetStage(name, attached) ==
  /\ stages' = IF attached THEN stages \cup {name} ELSE stages \ {name}
  /\ UNCHANGED <<refRing, refPos, outRing, outPos, u, block, guarded>>

Reset ==
  /\ block' = Quiet
  /\ u' = Silence(B)
  /\ refRing' = [k \in 0..RefSize-1 |-> Zero] /\ refPos' = 0
  /\ outRing' = [k \in 0..OutSize-1 |-> Zero] /\ outPos' = 0
  /\ UNCHANGED <<stages, guarded>>

ChainInit ==
  /\ block = Quiet
  /\ u = Silence(B)
  /\ refRing = [k \in 0..RefSize-1 |-> Zero] /\ refPos = 0
  /\ outRing = [k \in 0..OutSize-1 |-> Zero] /\ outPos = 0
  /\ stages = {}
  /\ guarded = FALSE

(* The voice bus of a block: with a guard, through its gains. *)
Voice(bus, e) ==
  \/ ~ guarded /\ bus = PlainSum(e)
  \/ guarded /\ \E passes \in [1..M -> BOOLEAN] : bus = GuardedSum(e, passes)

Block ==
  \E e \in [1..M -> Residuals], bus \in Blocks, aux \in Tracks :
    Voice(bus, e) /\ ProcessOne(bus, aux)

ChainNext ==
  \/ Block
  \/ \E g \in Guards : SetGuard(g)
  \/ DetachGuard
  \/ \E name \in Stages, attached \in BOOLEAN : SetStage(name, attached)
  \/ Reset

ChainSpec == ChainInit /\ [][ChainNext]_chainVars

(* The rings keep the chain's promise: read from their positions on, they are
   the speaker's past and the delayed bus of FeedbackLines, through every
   wrap, stage change and reset.  The bus and the aux of each block are mapped
   to themselves. *)
Promise == INSTANCE FeedbackLines WITH
  spoken  <- Line(refRing, refPos, RefSize),
  pending <- SubSeq(Line(outRing, outPos, OutSize), B + 1, OutSize)

KeepsPromise == Promise!LinesSpec

===============================================================================
