---------------------------- MODULE AfcChainProofs ----------------------------
(***************************************************************************)
(* The chain keeps its promise of time, for every block size, both delays, *)
(* any number of mics and any sample values.  Everything rests on one fact *)
(* about a ring: writing a block and advancing drops the oldest block of   *)
(* the line the ring stands for and appends the new one.                   *)
(***************************************************************************)
EXTENDS AfcChain, SequenceTheorems, TLAPS

USE DEF Blocks, Silence, RefSize, OutSize, Stages

LEMMA SlotInRange ==
  ASSUME NEW size \in Nat, NEW pos \in 0..size-1, NEW i \in 0..size-1
  PROVE  Slot(pos, i, size) \in 0..size-1
  BY DEF Slot

LEMMA AdvanceInRange ==
  ASSUME NEW size \in Nat, NEW pos \in 0..size-1, NEW b \in 1..size
  PROVE  Advance(pos, b, size) \in 0..size-1
  BY DEF Advance

LEMMA ReadType ==
  ASSUME NEW size \in Nat, NEW pos \in 0..size-1, NEW b \in 1..size,
         NEW ring \in [0..size-1 -> Samples]
  PROVE  RingRead(ring, pos, b, size) \in [1..b -> Samples]
<1>1. ASSUME NEW i \in 1..b
      PROVE  ring[Slot(pos, i - 1, size)] \in Samples
  <2>1. i - 1 \in 0..size-1
    OBVIOUS
  <2>2. QED
    BY <2>1, SlotInRange
<1>2. QED
  BY <1>1 DEF RingRead

LEMMA WriteType ==
  ASSUME NEW size \in Nat, NEW pos \in 0..size-1, NEW b \in 1..size,
         NEW ring \in [0..size-1 -> Samples], NEW src \in [1..b -> Samples]
  PROVE  RingWrite(ring, pos, src, size) \in [0..size-1 -> Samples]
<1>1. Len(src) = b
  OBVIOUS
<1>2. QED
  BY <1>1 DEF RingWrite

(* Read from the advanced position, a written ring is the old line without
   its oldest block, then the block. *)
LEMMA KeptSlot ==
  ASSUME NEW size \in Nat, NEW pos \in 0..size-1, NEW b \in 1..size,
         NEW ring \in [0..size-1 -> Samples], NEW src \in [1..b -> Samples], NEW i \in 1..size,
         i <= size - b
  PROVE  Line(RingWrite(ring, pos, src, size), Advance(pos, b, size), size)[i]
           = Line(ring, pos, size)[b + i]
<1> DEFINE k == Slot(Advance(pos, b, size), i - 1, size)
<1>1. Len(src) = b
  OBVIOUS
<1>2. k \in 0..size-1
  <2>1. Advance(pos, b, size) \in 0..size-1
    BY AdvanceInRange
  <2>2. i - 1 \in 0..size-1
    OBVIOUS
  <2>3. QED
    BY <2>1, <2>2, SlotInRange
<1>3. k = Slot(pos, i + b - 1, size) /\ b + i \in 1..size /\ b + i - 1 = i + b - 1
  BY DEF Slot, Advance
<1>4. /\ ~ (k >= pos /\ k - pos < IF size - pos < b THEN size - pos ELSE b)
      /\ ~ (k < b - IF size - pos < b THEN size - pos ELSE b)
  BY DEF Slot, Advance
<1> HIDE DEF k
<1>5. RingWrite(ring, pos, src, size)[k] = ring[k]
  BY <1>1, <1>2, <1>4 DEF RingWrite
<1>6. Line(ring, pos, size)[b + i] = ring[k]
  BY <1>3 DEF Line, RingRead
<1>7. Line(RingWrite(ring, pos, src, size), Advance(pos, b, size), size)[i]
        = RingWrite(ring, pos, src, size)[k]
  BY DEF k, Line, RingRead
<1>8. QED
  BY <1>5, <1>6, <1>7

LEMMA WrittenSlot ==
  ASSUME NEW size \in Nat, NEW pos \in 0..size-1, NEW b \in 1..size,
         NEW ring \in [0..size-1 -> Samples], NEW src \in [1..b -> Samples], NEW i \in 1..size,
         ~ (i <= size - b)
  PROVE  Line(RingWrite(ring, pos, src, size), Advance(pos, b, size), size)[i]
           = src[b + i - size]
<1> DEFINE k == Slot(Advance(pos, b, size), i - 1, size)
           first == IF size - pos < b THEN size - pos ELSE b
           j == b + i - size
<1>1. Len(src) = b
  OBVIOUS
<1>2. k \in 0..size-1
  <2>1. Advance(pos, b, size) \in 0..size-1
    BY AdvanceInRange
  <2>2. i - 1 \in 0..size-1
    OBVIOUS
  <2>3. QED
    BY <2>1, <2>2, SlotInRange
<1>3. j \in 1..b /\ first \in 1..b
  OBVIOUS
<1>4. \/ k >= pos /\ k - pos < first /\ k - pos + 1 = j
      \/ ~ (k >= pos /\ k - pos < first) /\ k < b - first /\ first + k + 1 = j
  BY DEF Slot, Advance
<1> HIDE DEF k, j
<1>5. RingWrite(ring, pos, src, size)[k] = src[j]
  BY <1>1, <1>2, <1>3, <1>4 DEF RingWrite
<1>6. Line(RingWrite(ring, pos, src, size), Advance(pos, b, size), size)[i]
        = RingWrite(ring, pos, src, size)[k]
  BY DEF k, Line, RingRead
<1>7. QED
  BY <1>5, <1>6 DEF j

LEMMA BlockIsSeq ==
  ASSUME NEW n \in Nat, NEW s \in [1..n -> Samples]
  PROVE  s \in Seq(Samples) /\ Len(s) = n
  OBVIOUS

LEMMA SeqIsBlock ==
  ASSUME NEW s \in Seq(Samples)
  PROVE  s \in [1..Len(s) -> Samples] /\ Len(s) \in Nat
  OBVIOUS

LEMMA JoinType ==
  ASSUME NEW p \in Nat, NEW q \in Nat, NEW s \in [1..p -> Samples], NEW t \in [1..q -> Samples]
  PROVE  s \o t \in [1..p + q -> Samples]
<1>1. s \in Seq(Samples) /\ Len(s) = p /\ t \in Seq(Samples) /\ Len(t) = q
  BY BlockIsSeq
<1>2. s \o t \in Seq(Samples) /\ Len(s \o t) = p + q
  BY <1>1, ConcatProperties
<1>3. QED
  BY <1>2, SeqIsBlock

LEMMA JoinAt ==
  ASSUME NEW p \in Nat, NEW q \in Nat, NEW s \in [1..p -> Samples], NEW t \in [1..q -> Samples],
         NEW i \in 1..p + q
  PROVE  (s \o t)[i] = IF i <= p THEN s[i] ELSE t[i - p]
<1>1. s \in Seq(Samples) /\ Len(s) = p /\ t \in Seq(Samples) /\ Len(t) = q
  BY BlockIsSeq
<1>2. QED
  BY <1>1, ConcatProperties

LEMMA CutIsSeq ==
  ASSUME NEW p \in Nat, NEW s \in [1..p -> Samples], NEW m \in Nat, NEW n \in Nat, n + m <= p
  PROVE  /\ SubSeq(s, m + 1, m + n) \in Seq(Samples)
         /\ Len(SubSeq(s, m + 1, m + n)) = n
         /\ \A i \in 1..n : SubSeq(s, m + 1, m + n)[i] = s[m + i]
<1> DEFINE cut == SubSeq(s, m + 1, m + n)
<1>1. \A i \in m + 1 .. m + n : s[i] \in Samples
  OBVIOUS
<1>2. /\ m + 1 \in Int /\ m + n \in Int
      /\ (m + n) - (m + 1) + 1 = n
      /\ (m + 1 <= m + n) <=> n > 0
  OBVIOUS
<1>3. /\ cut \in Seq(Samples)
      /\ Len(cut) = IF m + 1 <= m + n THEN (m + n) - (m + 1) + 1 ELSE 0
      /\ \A i \in 1 .. (m + n) - (m + 1) + 1 : cut[i] = s[(m + 1) + i - 1]
  BY <1>1, <1>2, SubSeqProperties
<1> HIDE DEF cut
<1>4. \A i \in 1..n : (m + 1) + i - 1 = m + i
  OBVIOUS
<1>5. cut \in Seq(Samples) /\ Len(cut) = n /\ \A i \in 1..n : cut[i] = s[m + i]
  BY <1>2, <1>3, <1>4
<1>6. QED
  BY <1>5 DEF cut

LEMMA CutType ==
  ASSUME NEW p \in Nat, NEW s \in [1..p -> Samples], NEW m \in Nat, NEW n \in Nat, n + m <= p
  PROVE  SubSeq(s, m + 1, m + n) \in [1..n -> Samples]
<1> DEFINE cut == SubSeq(s, m + 1, m + n)
<1>1. cut \in Seq(Samples) /\ Len(cut) = n
  BY CutIsSeq
<1> HIDE DEF cut
<1>2. cut \in [1..n -> Samples]
  BY <1>1, SeqIsBlock
<1>3. QED
  BY <1>2 DEF cut

LEMMA CutAt ==
  ASSUME NEW p \in Nat, NEW s \in [1..p -> Samples], NEW m \in Nat, NEW n \in Nat, n + m <= p,
         NEW i \in 1..n
  PROVE  SubSeq(s, m + 1, m + n)[i] = s[m + i]
  BY CutIsSeq

LEMMA LineWritten ==
  ASSUME NEW size \in Nat, NEW pos \in 0..size-1, NEW b \in 1..size,
         NEW ring \in [0..size-1 -> Samples], NEW src \in [1..b -> Samples]
  PROVE  Line(RingWrite(ring, pos, src, size), Advance(pos, b, size), size)
           = SubSeq(Line(ring, pos, size) \o src, b + 1, b + size)
<1> DEFINE old == Line(ring, pos, size)
           new == Line(RingWrite(ring, pos, src, size), Advance(pos, b, size), size)
           cut == SubSeq(old \o src, b + 1, b + size)
<1>1. size \in 1..size /\ b \in Nat
  OBVIOUS
<1>2. old \in [1..size -> Samples]
  BY <1>1, ReadType DEF Line
<1>3. new \in [1..size -> Samples]
  BY <1>1, ReadType, WriteType, AdvanceInRange DEF Line
<1>4. old \o src \in [1..size + b -> Samples]
  BY <1>1, <1>2, JoinType
<1>5. size + b \in Nat /\ size + b <= size + b
  BY <1>1
<1>6. cut \in [1..size -> Samples]
  BY <1>1, <1>4, <1>5, CutType
<1>7. ASSUME NEW i \in 1..size
      PROVE  new[i] = cut[i]
  <2>1. cut[i] = IF b + i <= size THEN old[b + i] ELSE src[b + i - size]
    <3>1. cut[i] = (old \o src)[b + i]
      BY <1>1, <1>4, <1>5, CutAt
    <3>2. b + i \in 1..size + b
      BY <1>1
    <3>3. (old \o src)[b + i] = IF b + i <= size THEN old[b + i] ELSE src[b + i - size]
      <4> HIDE DEF old, new, cut
      <4>1. old \in Seq(Samples) /\ Len(old) = size /\ src \in Seq(Samples) /\ Len(src) = b
        BY <1>1, <1>2, BlockIsSeq
      <4>2. QED
        BY <3>2, <4>1, ConcatProperties
    <3>4. QED
      BY <3>1, <3>3
  <2>2. CASE i <= size - b
    <3>1. new[i] = old[b + i]
      BY <2>2, KeptSlot
    <3>2. b + i <= size
      BY <2>2
    <3> HIDE DEF old, new, cut
    <3>3. QED
      BY <2>1, <3>1, <3>2
  <2>3. CASE ~ (i <= size - b)
    <3>1. new[i] = src[b + i - size]
      BY <2>3, WrittenSlot
    <3>2. ~ (b + i <= size)
      BY <2>3
    <3> HIDE DEF old, new, cut
    <3>3. QED
      BY <2>1, <3>1, <3>2
  <2>4. QED
    BY <2>2, <2>3
<1> HIDE DEF old, new, cut
<1>8. new = cut
  BY <1>3, <1>6, <1>7
<1>9. QED
  BY <1>8 DEF old, new, cut

(* A read is the beginning of the line. *)
LEMMA ReadIsFront ==
  ASSUME NEW size \in Nat, NEW pos \in 0..size-1, NEW b \in 1..size,
         NEW ring \in [0..size-1 -> Samples]
  PROVE  RingRead(ring, pos, b, size) = SubSeq(Line(ring, pos, size), 1, b)
<1> DEFINE line == Line(ring, pos, size)
           read == RingRead(ring, pos, b, size)
<1>1. size \in 1..size /\ b \in Nat /\ b + 0 <= size /\ 0 + 1 = 1 /\ 0 + b = b
  OBVIOUS
<1>2. line \in [1..size -> Samples] /\ read \in [1..b -> Samples]
  BY <1>1, ReadType DEF Line
<1>3. SubSeq(line, 0 + 1, 0 + b) \in [1..b -> Samples]
  BY <1>1, <1>2, CutType
<1>4. ASSUME NEW i \in 1..b
      PROVE  read[i] = SubSeq(line, 0 + 1, 0 + b)[i]
  <2>1. SubSeq(line, 0 + 1, 0 + b)[i] = line[0 + i]
    BY <1>1, <1>2, CutAt
  <2>2. i \in 1..size /\ 0 + i = i
    OBVIOUS
  <2>3. line[i] = ring[Slot(pos, i - 1, size)] /\ read[i] = ring[Slot(pos, i - 1, size)]
    BY <2>2 DEF Line, RingRead
  <2> HIDE DEF line, read
  <2>4. QED
    BY <2>1, <2>2, <2>3
<1> HIDE DEF line, read
<1>5. read = SubSeq(line, 0 + 1, 0 + b)
  BY <1>2, <1>3, <1>4
<1>6. QED
  BY <1>1, <1>5 DEF line, read

(* Taking a block off the front of a line and joining another at its end, in
   either order. *)
LEMMA CutThenJoin ==
  ASSUME NEW b \in Nat, NEW o \in Nat, NEW n \in Nat, n = o + b,
         NEW s \in [1..n -> Samples], NEW t \in [1..b -> Samples]
  PROVE  SubSeq(s, b + 1, b + o) \o t = SubSeq(s \o t, b + 1, b + n)
<1> DEFINE left == SubSeq(s, b + 1, b + o)
           whole == s \o t
           right == SubSeq(whole, b + 1, b + n)
<1>1. n + b \in Nat /\ o + b <= n /\ n + b <= n + b
  OBVIOUS
<1>2. left \in [1..o -> Samples]
  BY <1>1, CutType
<1>3. left \o t \in [1..n -> Samples]
  <2> HIDE DEF left
  <2>1. left \o t \in [1..o + b -> Samples]
    BY <1>2, JoinType
  <2>2. QED
    BY <2>1
<1>4. whole \in [1..n + b -> Samples]
  BY <1>1, JoinType
<1>5. right \in [1..n -> Samples]
  <2> HIDE DEF whole
  <2>1. QED
    BY <1>1, <1>4, CutType
<1>6. ASSUME NEW i \in 1..n
      PROVE  (left \o t)[i] = right[i]
  <2>1. (left \o t)[i] = IF i <= o THEN left[i] ELSE t[i - o]
    <3> HIDE DEF left
    <3>1. i \in 1..o + b
      OBVIOUS
    <3>2. QED
      BY <1>2, <3>1, JoinAt
  <2>2. right[i] = whole[b + i]
    <3> HIDE DEF whole
    <3>1. QED
      BY <1>1, <1>4, CutAt
  <2>3. whole[b + i] = IF b + i <= n THEN s[b + i] ELSE t[b + i - n]
    <3>1. b + i \in 1..n + b
      OBVIOUS
    <3>2. QED
      BY <1>1, <3>1, JoinAt
  <2>4. CASE i <= o
    <3>1. i \in 1..o /\ b + i <= n
      BY <2>4
    <3>2. left[i] = s[b + i]
      BY <1>1, <3>1, CutAt
    <3> HIDE DEF left, right, whole
    <3>3. QED
      BY <2>1, <2>2, <2>3, <2>4, <3>1, <3>2
  <2>5. CASE ~ (i <= o)
    <3>1. ~ (b + i <= n) /\ b + i - n = i - o
      BY <2>5
    <3> HIDE DEF left, right, whole
    <3>2. QED
      BY <2>1, <2>2, <2>3, <2>5, <3>1
  <2>6. QED
    BY <2>4, <2>5
<1> DEFINE joined == left \o t
<1> HIDE DEF left, right, whole
<1>7. joined \in [1..n -> Samples] /\ \A i \in 1..n : joined[i] = right[i]
  BY <1>3, <1>6
<1> HIDE DEF joined
<1>8. joined = right
  BY <1>5, <1>7
<1>9. QED
  BY <1>8 DEF left, right, whole, joined

(* The line of a silent ring is silent. *)
LEMMA SilentLine ==
  ASSUME NEW size \in Nat \ {0}
  PROVE  Line([k \in 0..size-1 |-> Zero], 0, size) = Silence(size)
<1>1. ASSUME NEW i \in 1..size
      PROVE  [k \in 0..size-1 |-> Zero][Slot(0, i - 1, size)] = Zero
  BY DEF Slot
<1>2. QED
  BY <1>1 DEF Line, RingRead

-------------------------------------------------------------------------------
(* The stages *)

LEMMA OneStage ==
  ASSUME NEW name \in Stages, NEW bufs, bufs.bus \in Blocks
  PROVE  /\ RunStage(name, bufs).bus \in Blocks
         /\ \A i \in 1..B : RunStage(name, bufs).bus[i]
                             = IF name \in stages THEN Stage[name][bufs.bus[i]] ELSE bufs.bus[i]
<1>1. \A i \in 1..B : bufs.bus[i] \in Samples /\ Stage[name][bufs.bus[i]] \in Samples
  BY ChainStageAssumption
<1>2. CASE name \in stages
  <2>1. RunStage(name, bufs).bus = [i \in 1..B |-> Stage[name][bufs.bus[i]]]
    BY <1>2 DEF RunStage
  <2>2. QED
    BY <1>1, <1>2, <2>1
<1>3. CASE name \notin stages
  BY <1>3 DEF RunStage
<1>4. QED
  BY <1>2, <1>3

LEMMA StagesRun ==
  ASSUME NEW bus \in Blocks
  PROVE  /\ RunStages(bus) \in Blocks
         /\ RunStages(bus) = [i \in 1..B |-> Promise!Staged(bus[i])]
<1> DEFINE b0 == [bus |-> bus, alt |-> bus]
           b1 == RunStage("decorrelator", b0)
           b2 == RunStage("reverb", b1)
           b3 == RunStage("safety", b2)
<1>1. b0.bus = bus
  OBVIOUS
<1>2. /\ b1.bus \in Blocks
      /\ \A i \in 1..B : b1.bus[i] = IF "decorrelator" \in stages
                                      THEN Stage["decorrelator"][bus[i]] ELSE bus[i]
  <2> HIDE DEF b0
  <2>1. QED
    BY <1>1, OneStage
<1>3. /\ b2.bus \in Blocks
      /\ \A i \in 1..B : b2.bus[i] = IF "reverb" \in stages
                                      THEN Stage["reverb"][b1.bus[i]] ELSE b1.bus[i]
  <2> HIDE DEF b1
  <2>1. QED
    BY <1>2, OneStage
<1>4. /\ b3.bus \in Blocks
      /\ \A i \in 1..B : b3.bus[i] = IF "safety" \in stages
                                      THEN Stage["safety"][b2.bus[i]] ELSE b2.bus[i]
  <2> HIDE DEF b2
  <2>1. QED
    BY <1>3, OneStage
<1>5. RunStages(bus) = b3.bus
  BY DEF RunStages
<1> HIDE DEF b0, b1, b2, b3
<1>6. ASSUME NEW i \in 1..B
      PROVE  b3.bus[i] = Promise!Staged(bus[i])
  <2>1. b1.bus[i] = IF "decorrelator" \in stages THEN Stage["decorrelator"][bus[i]] ELSE bus[i]
    BY <1>2
  <2>2. b2.bus[i] = IF "reverb" \in stages THEN Stage["reverb"][b1.bus[i]] ELSE b1.bus[i]
    BY <1>3
  <2>3. b3.bus[i] = IF "safety" \in stages THEN Stage["safety"][b2.bus[i]] ELSE b2.bus[i]
    BY <1>4
  <2>4. Promise!Staged(bus[i]) = IF "safety" \in stages THEN Stage["safety"][b2.bus[i]] ELSE b2.bus[i]
    BY <2>1, <2>2 DEF Promise!Staged
  <2>5. QED
    BY <2>3, <2>4
<1>7. QED
  BY <1>4, <1>5, <1>6

-------------------------------------------------------------------------------
(* Type correctness *)

LEMMA BlockType ==
  ASSUME ChainTypeOK, NEW bus \in Blocks, NEW aux \in Blocks, ProcessOne(bus, aux)
  PROVE  ChainTypeOK'
<1> DEFINE staged == RunStages(bus)
           ring == RingWrite(outRing, outPos, staged, OutSize)
           pos == Advance(outPos, B, OutSize)
           read == RingRead(ring, pos, B, OutSize)
           speaker == Plus(read, aux)
<1>1. /\ B \in Nat /\ RefSize \in Nat /\ B \in 1..RefSize
      /\ OutSize \in Nat /\ B \in 1..OutSize
  BY ChainSizesAssumption
<1>2. /\ refRing \in [0..RefSize-1 -> Samples] /\ refPos \in 0..RefSize-1
      /\ outRing \in [0..OutSize-1 -> Samples] /\ outPos \in 0..OutSize-1
      /\ stages \in SUBSET Stages /\ guarded \in BOOLEAN
  BY DEF ChainTypeOK
<1>3. /\ u' = RingRead(refRing, refPos, B, RefSize)
      /\ block' = [bus |-> bus, aux |-> aux]
      /\ outRing' = ring /\ outPos' = pos
      /\ refRing' = RingWrite(refRing, refPos, speaker, RefSize)
      /\ refPos' = Advance(refPos, B, RefSize)
      /\ stages' = stages /\ guarded' = guarded
  BY DEF ProcessOne
<1>4. staged \in [1..B -> Samples]
  BY StagesRun
<1> HIDE DEF RefSize, OutSize, staged
<1>5. ring \in [0..OutSize-1 -> Samples]
  BY <1>1, <1>2, <1>4, WriteType
<1>6. pos \in 0..OutSize-1
  BY <1>1, <1>2, AdvanceInRange
<1> HIDE DEF ring, pos
<1>7. read \in [1..B -> Samples]
  BY <1>1, <1>5, <1>6, ReadType
<1> HIDE DEF read
<1>8. speaker \in [1..B -> Samples]
  BY <1>7, ChainSamplesAssumption DEF Plus
<1> HIDE DEF speaker
<1>9. u' \in [1..B -> Samples]
  BY <1>1, <1>2, <1>3, ReadType
<1>10. refRing' \in [0..RefSize-1 -> Samples]
  BY <1>1, <1>2, <1>3, <1>8, WriteType
<1>11. refPos' \in 0..RefSize-1
  BY <1>1, <1>2, <1>3, AdvanceInRange
<1>12. block' \in [bus : Blocks, aux : Blocks]
  BY <1>3
<1>13. QED
  BY <1>2, <1>3, <1>5, <1>6, <1>9, <1>10, <1>11, <1>12 DEF ChainTypeOK

LEMMA SilentType ==
  /\ Silence(B) \in Blocks /\ Quiet \in [bus : Blocks, aux : Blocks]
  /\ [k \in 0..RefSize-1 |-> Zero] \in [0..RefSize-1 -> Samples] /\ 0 \in 0..RefSize-1
  /\ [k \in 0..OutSize-1 |-> Zero] \in [0..OutSize-1 -> Samples] /\ 0 \in 0..OutSize-1
  BY ChainSamplesAssumption, ChainSizesAssumption DEF Quiet

LEMMA InitType == ChainInit => ChainTypeOK
<1> HIDE DEF Silence, Blocks, RefSize, OutSize
<1>1. QED
  BY SilentType DEF ChainInit, ChainTypeOK

LEMMA NextType == ChainTypeOK /\ [ChainNext]_chainVars => ChainTypeOK'
<1> SUFFICES ASSUME ChainTypeOK, [ChainNext]_chainVars
             PROVE  ChainTypeOK'
  OBVIOUS
<1>1. CASE Block
  <2>1. PICK bus \in Blocks, aux \in Tracks : ProcessOne(bus, aux)
    BY <1>1 DEF Block
  <2>2. aux \in Blocks
    BY ChainBlocksAssumption
  <2>3. QED
    BY <2>1, <2>2, BlockType
<1>2. CASE \E g \in Guards : SetGuard(g)
  BY <1>2 DEF SetGuard, ChainTypeOK, Accepts
<1>3. CASE DetachGuard
  BY <1>3 DEF DetachGuard, ChainTypeOK
<1>4. CASE \E name \in Stages, attached \in BOOLEAN : SetStage(name, attached)
  BY <1>4 DEF SetStage, ChainTypeOK
<1>5. CASE Reset
  <2> HIDE DEF Silence, Blocks, RefSize, OutSize
  <2>1. QED
    BY <1>5, SilentType DEF Reset, ChainTypeOK
<1>6. CASE UNCHANGED chainVars
  BY <1>6 DEF chainVars, ChainTypeOK
<1>7. QED
  BY <1>1, <1>2, <1>3, <1>4, <1>5, <1>6 DEF ChainNext

(* Rings, positions, the reference block and what is attached stay what they
   are declared to be: every index ring_read() and ring_write() compute is in
   their ring. *)
THEOREM ChainTypeCorrect == ChainSpec => []ChainTypeOK
<1>1. QED
  BY InitType, NextType, PTL DEF ChainSpec

-------------------------------------------------------------------------------
(* The chain implements FeedbackLines *)

spokenBar == Line(refRing, refPos, RefSize)
outLine == Line(outRing, outPos, OutSize)
pendingBar == SubSeq(outLine, B + 1, OutSize)

LEMMA Sizes ==
  /\ B \in Nat /\ O \in Nat /\ R \in Nat
  /\ RefSize \in Nat \ {0} /\ B \in 1..RefSize
  /\ OutSize \in Nat \ {0} /\ B \in 1..OutSize
  /\ OutSize = B + O /\ OutSize = O + B
  /\ RefSize = R + B
  /\ B + RefSize = R + 2 * B
  BY ChainSizesAssumption

LEMMA SilentLines ==
  /\ Line([k \in 0..RefSize-1 |-> Zero], 0, RefSize) = Silence(RefSize)
  /\ SubSeq(Line([k \in 0..OutSize-1 |-> Zero], 0, OutSize), B + 1, OutSize) = Silence(O)
<1>1. Line([k \in 0..RefSize-1 |-> Zero], 0, RefSize) = Silence(RefSize)
  <2> HIDE DEF RefSize
  <2>1. QED
    BY Sizes, SilentLine
<1>2. Line([k \in 0..OutSize-1 |-> Zero], 0, OutSize) = Silence(OutSize)
  <2> HIDE DEF OutSize
  <2>1. QED
    BY Sizes, SilentLine
<1>3. Silence(OutSize) \in [1..OutSize -> Samples]
  BY ChainSamplesAssumption
<1> DEFINE cut == SubSeq(Silence(OutSize), B + 1, B + O)
<1>4. O + B <= OutSize /\ O \in Nat /\ B \in Nat /\ OutSize \in Nat
  BY Sizes
<1>5. cut \in [1..O -> Samples]
  <2> HIDE DEF Silence, OutSize
  <2>1. QED
    BY <1>3, <1>4, CutType
<1>6. ASSUME NEW i \in 1..O
      PROVE  cut[i] = Zero
  <2>1. cut[i] = Silence(OutSize)[B + i]
    <3> HIDE DEF Silence, OutSize
    <3>1. QED
      BY <1>3, <1>4, CutAt
  <2>2. B + i \in 1..OutSize
    BY Sizes
  <2>3. QED
    BY <2>1, <2>2
<1>7. cut = Silence(O)
  <2> HIDE DEF cut
  <2>1. QED
    BY <1>5, <1>6
<1>8. SubSeq(Line([k \in 0..OutSize-1 |-> Zero], 0, OutSize), B + 1, OutSize) = cut
  <2>1. OutSize = B + O
    BY Sizes
  <2> HIDE DEF OutSize, Silence
  <2>2. QED
    BY <1>2, <2>1
<1>9. QED
  BY <1>1, <1>7, <1>8

LEMMA InitRefines == ChainInit => Promise!LinesInit
  BY SilentLines DEF ChainInit, Promise!LinesInit, Promise!Silence, Quiet, Promise!Quiet

LEMMA ResetRefines == Reset => Promise!Clear
  BY SilentLines DEF Reset, Promise!Clear, Promise!Silence, Quiet, Promise!Quiet

(* A block of the chain plays its bus and aux. *)
LEMMA BlockRefines ==
  ASSUME ChainTypeOK, NEW bus \in Blocks, NEW aux \in Blocks, ProcessOne(bus, aux)
  PROVE  Promise!Play(bus, aux)
<1> DEFINE staged == RunStages(bus)
           ring == RingWrite(outRing, outPos, staged, OutSize)
           pos == Advance(outPos, B, OutSize)
           read == RingRead(ring, pos, B, OutSize)
           speaker == Plus(read, aux)
           line == pendingBar \o [i \in 1..B |-> Promise!Staged(bus[i])]
<1>1. /\ refRing \in [0..RefSize-1 -> Samples] /\ refPos \in 0..RefSize-1
      /\ outRing \in [0..OutSize-1 -> Samples] /\ outPos \in 0..OutSize-1
  BY DEF ChainTypeOK
<1>2. /\ u' = RingRead(refRing, refPos, B, RefSize)
      /\ block' = [bus |-> bus, aux |-> aux]
      /\ outRing' = ring /\ outPos' = pos
      /\ refRing' = RingWrite(refRing, refPos, speaker, RefSize)
      /\ refPos' = Advance(refPos, B, RefSize)
      /\ stages' = stages
  BY DEF ProcessOne
<1>3. staged \in [1..B -> Samples] /\ staged = [i \in 1..B |-> Promise!Staged(bus[i])]
  BY StagesRun
<1> HIDE DEF RefSize, OutSize, staged
<1>4. ring \in [0..OutSize-1 -> Samples]
  BY <1>1, <1>3, Sizes, WriteType
<1>5. pos \in 0..OutSize-1
  BY <1>1, Sizes, AdvanceInRange
<1>6. outLine' = SubSeq(outLine \o staged, B + 1, B + OutSize)
  <2>1. outLine' = Line(ring, pos, OutSize)
    BY <1>2 DEF outLine, OutSize
  <2>2. OutSize \in Nat /\ B \in 1..OutSize
    BY Sizes
  <2>3. Line(RingWrite(outRing, outPos, staged, OutSize), Advance(outPos, B, OutSize), OutSize)
          = SubSeq(Line(outRing, outPos, OutSize) \o staged, B + 1, B + OutSize)
    BY <1>1, <1>3, <2>2, LineWritten
  <2>4. QED
    BY <2>1, <2>3 DEF outLine
<1>7. outLine \in [1..OutSize -> Samples] /\ outLine' \in [1..OutSize -> Samples]
  <2>1. OutSize \in 1..OutSize /\ OutSize \in Nat
    BY Sizes
  <2>2. outLine \in [1..OutSize -> Samples]
    BY <1>1, <2>1, ReadType DEF outLine, Line
  <2>3. Line(ring, pos, OutSize) \in [1..OutSize -> Samples]
    <3> HIDE DEF ring, pos
    <3>1. QED
      BY <1>4, <1>5, <2>1, ReadType DEF Line
  <2>4. outLine' = Line(ring, pos, OutSize)
    BY <1>2 DEF outLine, OutSize
  <2>5. QED
    BY <2>2, <2>3, <2>4
<1>8. line = outLine'
  <2>1. B \in Nat /\ O \in Nat /\ OutSize \in Nat /\ OutSize = O + B /\ OutSize = B + O
    BY Sizes
  <2>2. SubSeq(outLine, B + 1, B + O) \o staged = SubSeq(outLine \o staged, B + 1, B + OutSize)
    BY <1>3, <1>7, <2>1, CutThenJoin
  <2>3. pendingBar = SubSeq(outLine, B + 1, B + O)
    BY <2>1 DEF pendingBar
  <2>4. QED
    BY <1>3, <1>6, <2>2, <2>3
<1> HIDE DEF line
<1>9. pendingBar' = SubSeq(line, B + 1, O + B)
  BY <1>8 DEF pendingBar, OutSize
<1>10. read \in [1..B -> Samples]
  <2> HIDE DEF ring, pos
  <2>1. QED
    BY <1>4, <1>5, Sizes, ReadType
<1>11. ASSUME NEW i \in 1..B
       PROVE  read[i] = line[i]
  <2>1. outLine' = Line(ring, pos, OutSize)
    BY <1>2 DEF outLine, OutSize
  <2>2. i \in 1..OutSize
    BY Sizes
  <2>3. Line(ring, pos, OutSize)[i] = ring[Slot(pos, i - 1, OutSize)]
    <3> HIDE DEF ring, pos
    <3>1. QED
      BY <2>2 DEF Line, RingRead
  <2>4. read[i] = ring[Slot(pos, i - 1, OutSize)]
    <3> HIDE DEF ring, pos
    <3>1. QED
      BY DEF RingRead
  <2> HIDE DEF ring, pos, read
  <2>5. QED
    BY <1>8, <2>1, <2>3, <2>4
<1> HIDE DEF ring, pos, read
<1>12. speaker = [i \in 1..B |-> Add(line[i], aux[i])]
  BY <1>11 DEF Plus
<1>13. speaker \in [1..B -> Samples]
  BY <1>10, ChainSamplesAssumption DEF Plus
<1> HIDE DEF speaker
<1>14. spokenBar' = SubSeq(spokenBar \o speaker, B + 1, R + 2 * B)
  <2>1. spokenBar' = Line(RingWrite(refRing, refPos, speaker, RefSize),
                          Advance(refPos, B, RefSize), RefSize)
    BY <1>2 DEF spokenBar, RefSize
  <2>2. RefSize \in Nat /\ B \in 1..RefSize
    BY Sizes
  <2>3. Line(RingWrite(refRing, refPos, speaker, RefSize), Advance(refPos, B, RefSize), RefSize)
          = SubSeq(Line(refRing, refPos, RefSize) \o speaker, B + 1, B + RefSize)
    BY <1>1, <1>13, <2>2, LineWritten
  <2>4. QED
    BY <2>1, <2>3, Sizes DEF spokenBar
<1>15. u' = SubSeq(spokenBar, 1, B)
  BY <1>1, <1>2, Sizes, ReadIsFront DEF spokenBar
<1>16. QED
  BY <1>2, <1>9, <1>12, <1>14, <1>15
     DEF Promise!Play, line, spokenBar, pendingBar, outLine

LEMMA NextRefines == ChainTypeOK /\ [ChainNext]_chainVars => [Promise!LinesNext]_(Promise!lineVars)
<1> SUFFICES ASSUME ChainTypeOK, [ChainNext]_chainVars
             PROVE  [Promise!LinesNext]_(Promise!lineVars)
  OBVIOUS
<1>1. CASE Block
  <2>1. PICK bus \in Blocks, aux \in Tracks : ProcessOne(bus, aux)
    BY <1>1 DEF Block
  <2>2. aux \in Blocks
    BY ChainBlocksAssumption
  <2>3. Promise!Play(bus, aux)
    BY <2>1, <2>2, BlockRefines
  <2>4. QED
    BY <2>2, <2>3 DEF Promise!LinesNext, Promise!Blocks
<1>2. CASE \E g \in Guards : SetGuard(g)
  BY <1>2 DEF SetGuard, Promise!lineVars
<1>3. CASE DetachGuard
  BY <1>3 DEF DetachGuard, Promise!lineVars
<1>4. CASE \E name \in Stages, attached \in BOOLEAN : SetStage(name, attached)
  <2>1. Promise!Attach
    BY <1>4 DEF SetStage, ChainTypeOK, Promise!Attach, Promise!Stages
  <2>2. QED
    BY <2>1 DEF Promise!LinesNext
<1>5. CASE Reset
  BY <1>5, ResetRefines DEF Promise!LinesNext
<1>6. CASE UNCHANGED chainVars
  BY <1>6 DEF chainVars, Promise!lineVars
<1>7. QED
  BY <1>1, <1>2, <1>3, <1>4, <1>5, <1>6 DEF ChainNext

(* The chain's rings implement FeedbackLines, whatever the block size, the two
   delays, the stages and the blocks given: the reference is the speaker exactly one block and
   reference_delay_samples late, and the bus reaches the speaker exactly
   output_delay_samples late (process_one()). *)
THEOREM ChainKeepsPromise == ChainSpec => KeepsPromise
<1>1. ChainInit => Promise!LinesInit
  BY InitRefines
<1>2. ChainTypeOK /\ [ChainNext]_chainVars => [Promise!LinesNext]_(Promise!lineVars)
  BY NextRefines
<1>3. QED
  BY <1>1, <1>2, ChainTypeCorrect, PTL DEF ChainSpec, KeepsPromise, Promise!LinesSpec

===============================================================================
