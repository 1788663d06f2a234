--------------------------- MODULE EchoHostProofs ---------------------------
(***************************************************************************)
(* Proofs about EchoHost, for any units a constructor accepts, any number  *)
(* of faulty blocks and any holds: the policy's type, its certificate and  *)
(* its lifts, what a trip leaves behind, what may leak, and how soon what  *)
(* an overflow has left is shed.                                           *)
(*                                                                         *)
(* The inductive invariant, HostInv, is Sound of the four variables:       *)
(* beside the types (Typed) and the grade of the values (TameBefore:       *)
(* without a fault since the restart nothing is beyond an ordinary         *)
(* number), WindowsHold (what the post stage holds is of blocks since the  *)
(* restart), CertificateHolds (the code's count is the observer's streak), *)
(* RestHolds (what the cooldown has left is what the rest still lacks) and *)
(* VotesHold (before a fault, the code's votes are among those an observer *)
(* would count).  ShieldInv says that the core of a prewhitened canceller  *)
(* has heard whatever its raw ring holds, and no later.  SickInv and       *)
(* HealInv say how far a fault has come: a core that a faulty block        *)
(* poisoned resets itself, and what it has passed on leaves the            *)
(* suppressor's windows or trips it.                                       *)
(***************************************************************************)
EXTENDS EchoHostHistory, EchoUnitProofs

PolicySet ==
  [floor : Values, conv : 0 .. GuardHold, converged : BOOLEAN, drop : 0 .. RescueHold - 1,
   cooldown : 0 .. Cooldown, scount : 0 .. ShadowHold - 1, pm : Values, ps : Values,
   lifted : {"no", "rescue", "shadow"}]

IsPolicy(p) == p \in PolicySet /\ (p.converged \/ p.conv < GuardHold)

LEMMA FreshPolicyType == IsPolicy(FreshPolicy)
  BY HoldsAssumption DEF IsPolicy, PolicySet, FreshPolicy, Values

LEMMA PolicyIsTyped == ASSUME pol \in PolicySet PROVE PolicyTypeOK
  BY DEF PolicySet, PolicyTypeOK, PolicyFields

-------------------------------------------------------------------------------
(* One lemma per layer of the policy *)

LEMMA TrackingStep ==
  ASSUME NEW p, IsPolicy(p), NEW ev, ev.x \in Values
  PROVE  LET q == Tracking(p, ev)
         IN  /\ IsPolicy(q) /\ q.lifted = "no"
             /\ q.conv = p.conv /\ q.converged = p.converged /\ q.drop = p.drop
             /\ q.cooldown = p.cooldown /\ q.scount = p.scount
             /\ q.pm = p.pm /\ q.ps = p.ps
<1> DEFINE f == Chase(p.floor, Square(ev.x))
<1>1. f \in Values
  BY ValuesGrade, ChaseClosed, SquareClosed DEF IsPolicy, PolicySet
<1> HIDE DEF f
<1>2. Tracking(p, ev) = [p EXCEPT !.floor = f, !.lifted = "no"]
  BY DEF Tracking, f
<1>3. QED
  BY <1>1, <1>2 DEF IsPolicy, PolicySet

LEMMA GuardStep ==
  ASSUME NEW p, IsPolicy(p), NEW ev, NEW guard \in BOOLEAN
  PROVE  LET q == ApplyGuard(p, ev, guard)
         IN  /\ IsPolicy(q)
             /\ q.drop = p.drop /\ q.cooldown = p.cooldown /\ q.scount = p.scount
             /\ q.pm = p.pm /\ q.ps = p.ps /\ q.lifted = p.lifted
             /\ ~ guard \/ p.converged => q.conv = p.conv /\ q.converged = p.converged
             /\ guard /\ ~ p.converged =>
                  IF Certified(ev) THEN q.conv = p.conv + 1 /\ q.converged = (p.conv + 1 >= GuardHold)
                  ELSE q.conv = 0 /\ q.converged = p.converged
<1> DEFINE late == p.conv + 1 >= GuardHold
<1>1. p \in PolicySet /\ p.conv \in Nat
  BY DEF IsPolicy, PolicySet
<1>2. CASE ~ guard \/ p.converged
  BY <1>1, <1>2 DEF ApplyGuard, IsPolicy
<1>3. CASE ~ (~ guard \/ p.converged) /\ ~ Certified(ev)
  BY <1>1, <1>3, HoldsAssumption DEF ApplyGuard, IsPolicy, PolicySet
<1>4. CASE ~ (~ guard \/ p.converged) /\ Certified(ev)
  <2>1. p.conv + 1 \in 0 .. GuardHold
    BY <1>1, <1>4, HoldsAssumption DEF IsPolicy
  <2>2. late \in BOOLEAN /\ (late \/ p.conv + 1 < GuardHold)
    BY <1>1, HoldsAssumption
  <2>3. ApplyGuard(p, ev, guard) = [p EXCEPT !.conv = p.conv + 1, !.converged = late]
    BY <1>4 DEF ApplyGuard
  <2> HIDE DEF late
  <2>4. LET q == [p EXCEPT !.conv = p.conv + 1, !.converged = late]
        IN  /\ q \in PolicySet /\ q.conv = p.conv + 1 /\ q.converged = late
            /\ q.drop = p.drop /\ q.cooldown = p.cooldown /\ q.scount = p.scount
            /\ q.pm = p.pm /\ q.ps = p.ps /\ q.lifted = p.lifted
    BY <1>1, <2>1, <2>2 DEF PolicySet
  <2>5. QED
    BY <1>4, <2>2, <2>3, <2>4 DEF IsPolicy, late
<1>5. QED
  BY <1>2, <1>3, <1>4

LEMMA ReceiveIsAbove ==
  ASSUME NEW p, NEW ev, ReceiveActive(p, ev) PROVE Above(ev)
  BY DEF ReceiveActive, Above

\* The rescue: what it does to its count, and on what it fires.
LEMMA RescueStep ==
  ASSUME NEW p, IsPolicy(p), p.lifted = "no", NEW ev, NEW guard \in BOOLEAN
  PROVE  LET q == ApplyRescue(p, ev, guard)
         IN  /\ IsPolicy(q)
             /\ q.conv = p.conv /\ q.converged = p.converged /\ q.scount = p.scount
             /\ q.pm = p.pm /\ q.ps = p.ps
             /\ q.lifted = "no" =>
                  /\ q.cooldown + 1 >= p.cooldown /\ q.cooldown <= p.cooldown
                  /\ \/ q.drop <= p.drop
                     \/ /\ q.drop = p.drop + 1
                        /\ Converged(p, guard) /\ Above(ev) /\ OverExplained(ev)
             /\ q.lifted # "no" =>
                  /\ q.lifted = "rescue"
                  /\ p.cooldown = 0 /\ q.cooldown = Cooldown /\ q.drop = 0
                  /\ p.drop + 1 >= RescueHold
                  /\ Converged(p, guard) /\ Above(ev) /\ OverExplained(ev)
<1> DEFINE q == ApplyRescue(p, ev, guard)
<1>1. /\ p \in PolicySet /\ p.drop \in 0 .. RescueHold - 1 /\ p.cooldown \in 0 .. Cooldown
      /\ Cooldown \in Nat \ {0} /\ RescueHold \in Nat \ {0}
  BY HoldsAssumption DEF IsPolicy, PolicySet
<1>2. CASE ~ Converged(p, guard)
  BY <1>1, <1>2 DEF ApplyRescue
<1>3. CASE Converged(p, guard) /\ p.cooldown > 0
  <2>1. q = [p EXCEPT !.cooldown = p.cooldown - 1, !.drop = 0]
    BY <1>3 DEF ApplyRescue
  <2> HIDE DEF q
  <2>2. p.cooldown - 1 \in 0 .. Cooldown /\ 0 \in 0 .. RescueHold - 1
    BY <1>1, <1>3
  <2>3. IsPolicy(q)
    BY <1>1, <2>1, <2>2 DEF IsPolicy, PolicySet
  <2>4. /\ q.conv = p.conv /\ q.converged = p.converged /\ q.scount = p.scount /\ q.pm = p.pm /\ q.ps = p.ps
        /\ q.lifted = "no" /\ q.cooldown = p.cooldown - 1 /\ q.drop = 0
    BY <1>1, <2>1 DEF PolicySet
  <2>5. QED
    BY <1>1, <2>3, <2>4 DEF q
<1>4. CASE Converged(p, guard) /\ ~ (p.cooldown > 0) /\ ~ ReceiveActive(p, ev)
  BY <1>1, <1>4 DEF ApplyRescue
<1>5. CASE Converged(p, guard) /\ ~ (p.cooldown > 0) /\ ReceiveActive(p, ev) /\ ~ OverExplained(ev)
  <2>1. q = [p EXCEPT !.drop = p.drop \div 2]
    BY <1>5 DEF ApplyRescue
  <2> HIDE DEF q
  <2>2. p.drop \div 2 \in 0 .. RescueHold - 1 /\ p.drop \div 2 <= p.drop
    BY <1>1
  <2> DEFINE n == p.drop \div 2
  <2> HIDE DEF n
  <2>3. n \in 0 .. RescueHold - 1 /\ n <= p.drop /\ q = [p EXCEPT !.drop = n]
    BY <2>1, <2>2 DEF n
  <2>4. IsPolicy(q)
    BY <1>1, <2>3 DEF IsPolicy, PolicySet
  <2>5. /\ q.conv = p.conv /\ q.converged = p.converged /\ q.scount = p.scount /\ q.pm = p.pm /\ q.ps = p.ps
        /\ q.lifted = "no" /\ q.cooldown = p.cooldown /\ q.drop = n
    BY <1>1, <2>3 DEF PolicySet
  <2>6. QED
    BY <1>1, <2>3, <2>4, <2>5 DEF q
<1>6. CASE /\ Converged(p, guard) /\ ~ (p.cooldown > 0) /\ ReceiveActive(p, ev) /\ OverExplained(ev)
           /\ p.drop + 1 < RescueHold
  <2>1. q = [p EXCEPT !.drop = p.drop + 1]
    BY <1>6 DEF ApplyRescue
  <2> HIDE DEF q
  <2>2. p.drop + 1 \in 0 .. RescueHold - 1
    BY <1>1, <1>6
  <2>3. IsPolicy(q)
    BY <1>1, <2>1, <2>2 DEF IsPolicy, PolicySet
  <2>4. /\ q.conv = p.conv /\ q.converged = p.converged /\ q.scount = p.scount /\ q.pm = p.pm /\ q.ps = p.ps
        /\ q.lifted = "no" /\ q.cooldown = p.cooldown /\ q.drop = p.drop + 1
    BY <1>1, <2>1 DEF PolicySet
  <2>5. QED
    BY <1>1, <1>6, <2>3, <2>4, ReceiveIsAbove DEF q
<1>7. CASE /\ Converged(p, guard) /\ ~ (p.cooldown > 0) /\ ReceiveActive(p, ev) /\ OverExplained(ev)
           /\ ~ (p.drop + 1 < RescueHold)
  <2>1. q = [p EXCEPT !.drop = 0, !.cooldown = Cooldown, !.lifted = "rescue"]
    BY <1>7 DEF ApplyRescue
  <2> HIDE DEF q
  <2>2. IsPolicy(q)
    <3>1. 0 \in 0 .. RescueHold - 1 /\ 0 \in 0 .. ShadowHold - 1 /\ Cooldown \in 0 .. Cooldown
      BY HoldsAssumption
    <3>2. q \in PolicySet
      BY <1>1, <2>1, <3>1 DEF PolicySet
    <3>3. q.converged = p.converged /\ q.conv = p.conv
      BY <1>1, <2>1 DEF PolicySet
    <3>4. QED
      BY <3>2, <3>3 DEF IsPolicy
  <2>3. /\ q.conv = p.conv /\ q.converged = p.converged /\ q.scount = p.scount /\ q.pm = p.pm /\ q.ps = p.ps
        /\ q.lifted = "rescue" /\ q.cooldown = Cooldown /\ q.drop = 0
    BY <1>1, <2>1 DEF PolicySet
  <2>4. QED
    BY <1>1, <1>7, <2>2, <2>3, ReceiveIsAbove DEF q
<1>8. QED
  BY <1>2, <1>3, <1>4, <1>5, <1>6, <1>7

LEMMA ComparedStep ==
  ASSUME NEW V \in Grades, NEW p, IsPolicy(p), p.pm \in V, p.ps \in V,
         NEW ev, ev.mid \in V, ev.shadow_e \in V
  PROVE  LET q == Compared(p, ev)
         IN  /\ IsPolicy(q) /\ q.pm \in V /\ q.ps \in V
             /\ q.floor = p.floor /\ q.conv = p.conv /\ q.converged = p.converged /\ q.drop = p.drop
             /\ q.cooldown = p.cooldown /\ q.scount = p.scount /\ q.lifted = p.lifted
<1> DEFINE pm == Chase(p.pm, Square(ev.mid))
           ps == Chase(p.ps, Square(ev.shadow_e))
<1>1. pm \in V /\ ps \in V /\ pm \in Values /\ ps \in Values
  BY ChaseClosed, SquareClosed, GradeBase
<1> HIDE DEF pm, ps
<1>2. Compared(p, ev) = [p EXCEPT !.pm = pm, !.ps = ps]
  BY DEF Compared, pm, ps
<1>3. QED
  BY <1>1, <1>2 DEF IsPolicy, PolicySet

\* The shadow comparator, after the two powers.
LEMMA ContestStep ==
  ASSUME NEW p, IsPolicy(p), NEW ev, NEW guard \in BOOLEAN
  PROVE  LET q == Contest(p, ev, guard)
         IN  /\ IsPolicy(q)
             /\ q.conv = p.conv /\ q.converged = p.converged
             /\ q.pm = p.pm /\ q.ps = p.ps
             /\ \/ /\ q.lifted = p.lifted /\ q.cooldown = p.cooldown /\ q.drop = p.drop
                   /\ \/ q.scount <= p.scount
                      \/ /\ q.scount = p.scount + 1
                         /\ Converged(p, guard) /\ Above(ev) /\ ShadowAhead(p, ev)
                \/ /\ q.lifted = "shadow"
                   /\ p.cooldown = 0 /\ q.cooldown = Cooldown /\ q.drop = 0 /\ q.scount = 0
                   /\ p.scount + 1 >= ShadowHold
                   /\ Converged(p, guard) /\ Above(ev) /\ ShadowAhead(p, ev)
<1> DEFINE q == Contest(p, ev, guard)
           stays == ~ Converged(p, guard) \/ p.cooldown > 0 \/ ~ ReceiveActive(p, ev)
<1>1. /\ p \in PolicySet /\ p.scount \in 0 .. ShadowHold - 1 /\ p.cooldown \in 0 .. Cooldown
      /\ Cooldown \in Nat \ {0} /\ ShadowHold \in Nat \ {0} /\ RescueHold \in Nat \ {0}
  BY HoldsAssumption DEF IsPolicy, PolicySet
<1>2. CASE stays
  BY <1>1, <1>2 DEF Contest
<1>3. CASE ~ stays /\ ~ ShadowAhead(p, ev)
  <2> DEFINE n == p.scount \div 2
  <2>1. q = [p EXCEPT !.scount = n]
    BY <1>3 DEF Contest
  <2>2. n \in 0 .. ShadowHold - 1 /\ n <= p.scount
    BY <1>1
  <2> HIDE DEF q, n
  <2>3. IsPolicy(q)
    BY <1>1, <2>1, <2>2 DEF IsPolicy, PolicySet
  <2>4. /\ q.conv = p.conv /\ q.converged = p.converged /\ q.drop = p.drop /\ q.pm = p.pm /\ q.ps = p.ps
        /\ q.lifted = p.lifted /\ q.cooldown = p.cooldown /\ q.scount = n
    BY <1>1, <2>1 DEF PolicySet
  <2>5. QED
    BY <2>2, <2>3, <2>4 DEF q
<1>4. CASE ~ stays /\ ShadowAhead(p, ev) /\ p.scount + 1 < ShadowHold
  <2>1. q = [p EXCEPT !.scount = p.scount + 1]
    BY <1>4 DEF Contest
  <2>2. p.scount + 1 \in 0 .. ShadowHold - 1
    BY <1>1, <1>4
  <2> HIDE DEF q
  <2>3. IsPolicy(q)
    BY <1>1, <2>1, <2>2 DEF IsPolicy, PolicySet
  <2>4. /\ q.conv = p.conv /\ q.converged = p.converged /\ q.drop = p.drop /\ q.pm = p.pm /\ q.ps = p.ps
        /\ q.lifted = p.lifted /\ q.cooldown = p.cooldown /\ q.scount = p.scount + 1
    BY <1>1, <2>1 DEF PolicySet
  <2>5. QED
    BY <1>4, <2>3, <2>4, ReceiveIsAbove DEF q
<1>5. CASE ~ stays /\ ShadowAhead(p, ev) /\ ~ (p.scount + 1 < ShadowHold)
  <2>1. q = [p EXCEPT !.scount = 0, !.drop = 0, !.cooldown = Cooldown, !.lifted = "shadow"]
    BY <1>5 DEF Contest
  <2> HIDE DEF q
  <2>2. IsPolicy(q)
    <3>1. 0 \in 0 .. RescueHold - 1 /\ 0 \in 0 .. ShadowHold - 1 /\ Cooldown \in 0 .. Cooldown
      BY HoldsAssumption
    <3>2. q \in PolicySet
      BY <1>1, <2>1, <3>1 DEF PolicySet
    <3>3. q.converged = p.converged /\ q.conv = p.conv
      BY <1>1, <2>1 DEF PolicySet
    <3>4. QED
      BY <3>2, <3>3 DEF IsPolicy
  <2>3. /\ q.conv = p.conv /\ q.converged = p.converged /\ q.drop = 0 /\ q.pm = p.pm /\ q.ps = p.ps
        /\ q.lifted = "shadow" /\ q.cooldown = Cooldown /\ q.scount = 0
    BY <1>1, <2>1 DEF PolicySet
  <2>4. QED
    BY <1>1, <1>5, <2>2, <2>3, ReceiveIsAbove DEF q
<1>6. QED
  BY <1>2, <1>3, <1>4, <1>5

-------------------------------------------------------------------------------
(* A block of the policy *)

\* What the certificate does: p before, q after.
GuardMoves(p, q, ev, guard) ==
  /\ ~ guard \/ p.converged => q.conv = p.conv /\ q.converged = p.converged
  /\ guard /\ ~ p.converged =>
       IF Certified(ev) THEN q.conv = p.conv + 1 /\ q.converged = (p.conv + 1 >= GuardHold)
       ELSE q.conv = 0 /\ q.converged = p.converged

VotesOver(q, ev, guard) == Converged(q, guard) /\ Above(ev) /\ OverExplained(ev)

VotesAhead(q, ev, guard) == Converged(q, guard) /\ Above(ev) /\ ShadowAhead(q, ev)

\* What the lifts, their cooldown and their counts do.
LiftMoves(p, q, ev, guard) ==
  /\ q.lifted = "no" => q.cooldown + 1 >= p.cooldown
  /\ q.lifted # "no" => q.cooldown = Cooldown /\ q.drop = 0
  /\ q.lifted = "rescue" => p.cooldown = 0 /\ p.drop + 1 >= RescueHold /\ VotesOver(q, ev, guard)
  /\ q.lifted = "shadow" =>
       p.cooldown <= 1 /\ q.scount = 0 /\ p.scount + 1 >= ShadowHold /\ VotesAhead(q, ev, guard)
  /\ q.drop <= p.drop \/ (q.drop = p.drop + 1 /\ VotesOver(q, ev, guard))
  /\ q.scount <= p.scount \/ (q.scount = p.scount + 1 /\ VotesAhead(q, ev, guard))

LEMMA PolicedStep ==
  ASSUME NEW V \in Grades, NEW p, IsPolicy(p), p.pm \in V, p.ps \in V,
         NEW ev, ev.x \in Values, ev.mid \in V, ev.shadow_e \in V, NEW guard \in BOOLEAN
  PROVE  LET q == Policed(p, ev, guard)
         IN  /\ IsPolicy(q) /\ q.pm \in V /\ q.ps \in V
             /\ GuardMoves(p, q, ev, guard)
             /\ LiftMoves(p, q, ev, guard)
<1> DEFINE a == Tracking(p, ev)
           b == ApplyGuard(a, ev, guard)
           c == ApplyRescue(b, ev, guard)
           d == Compared(c, ev)
           q == Contest(d, ev, guard)
<1>1. /\ IsPolicy(a) /\ a.lifted = "no" /\ a.conv = p.conv /\ a.converged = p.converged
      /\ a.drop = p.drop /\ a.cooldown = p.cooldown /\ a.scount = p.scount
      /\ a.pm = p.pm /\ a.ps = p.ps
  BY TrackingStep
<1> HIDE DEF a
<1>2. /\ IsPolicy(b) /\ b.lifted = "no" /\ b.drop = a.drop /\ b.cooldown = a.cooldown
      /\ b.scount = a.scount /\ b.pm = a.pm /\ b.ps = a.ps
      /\ GuardMoves(a, b, ev, guard)
  BY <1>1, GuardStep DEF GuardMoves
<1> HIDE DEF b
<1>3. /\ IsPolicy(c) /\ c.conv = b.conv /\ c.converged = b.converged /\ c.scount = b.scount
      /\ c.pm = b.pm /\ c.ps = b.ps
      /\ c.lifted = "no" =>
            /\ c.cooldown + 1 >= b.cooldown /\ c.cooldown <= b.cooldown
            /\ \/ c.drop <= b.drop
               \/ c.drop = b.drop + 1 /\ VotesOver(c, ev, guard)
      /\ c.lifted # "no" =>
            /\ c.lifted = "rescue"
            /\ b.cooldown = 0 /\ c.cooldown = Cooldown /\ c.drop = 0
            /\ b.drop + 1 >= RescueHold /\ VotesOver(c, ev, guard)
  BY <1>2, RescueStep DEF VotesOver, Converged
<1> HIDE DEF c
<1>4. /\ IsPolicy(d) /\ d.pm \in V /\ d.ps \in V
      /\ d.conv = c.conv /\ d.converged = c.converged /\ d.drop = c.drop
      /\ d.cooldown = c.cooldown /\ d.scount = c.scount /\ d.lifted = c.lifted
  BY <1>1, <1>2, <1>3, ComparedStep
<1> HIDE DEF d
<1>5. /\ IsPolicy(q) /\ q.conv = d.conv /\ q.converged = d.converged
      /\ q.pm = d.pm /\ q.ps = d.ps
      /\ \/ /\ q.lifted = d.lifted /\ q.cooldown = d.cooldown /\ q.drop = d.drop
            /\ \/ q.scount <= d.scount
               \/ q.scount = d.scount + 1 /\ VotesAhead(d, ev, guard)
         \/ /\ q.lifted = "shadow"
            /\ d.cooldown = 0 /\ q.cooldown = Cooldown /\ q.drop = 0 /\ q.scount = 0
            /\ d.scount + 1 >= ShadowHold /\ VotesAhead(d, ev, guard)
  BY <1>4, ContestStep DEF VotesAhead
<1> HIDE DEF q
<1>6. Policed(p, ev, guard) = q
  BY DEF Policed, ApplyShadow, q, d, c, b, a
<1>7. VotesAhead(d, ev, guard) => VotesAhead(q, ev, guard)
  BY <1>5 DEF VotesAhead, ShadowAhead, Converged
<1>8. VotesOver(c, ev, guard) => VotesOver(q, ev, guard)
  BY <1>4, <1>5 DEF VotesOver, Converged
<1>9. GuardMoves(p, q, ev, guard)
  BY <1>1, <1>2, <1>3, <1>4, <1>5 DEF GuardMoves
<1>10. /\ p.cooldown \in Nat /\ p.drop \in Nat /\ p.scount \in Nat /\ Cooldown \in Nat \ {0}
       /\ RescueHold \in Nat \ {0} /\ ShadowHold \in Nat \ {0}
       /\ c.cooldown \in Nat /\ c.drop \in Nat /\ c.scount \in Nat
       /\ c.lifted \in {"no", "rescue", "shadow"}
  BY <1>3, HoldsAssumption DEF IsPolicy, PolicySet
<1>11. LiftMoves(p, q, ev, guard)
  <2>1. CASE c.lifted = "no" /\ q.lifted = d.lifted
    <3>1. q.lifted = "no" /\ q.cooldown = c.cooldown
      BY <1>4, <1>5, <2>1, HoldsAssumption
    <3>2. q.drop <= p.drop \/ (q.drop = p.drop + 1 /\ VotesOver(q, ev, guard))
      BY <1>1, <1>2, <1>3, <1>4, <1>5, <1>8, <2>1
    <3>3. q.scount <= p.scount \/ (q.scount = p.scount + 1 /\ VotesAhead(q, ev, guard))
      BY <1>1, <1>2, <1>3, <1>4, <1>5, <1>7, <2>1
    <3>4. q.cooldown + 1 >= p.cooldown
      BY <1>1, <1>2, <1>3, <2>1, <3>1
    <3>5. QED
      BY <3>1, <3>2, <3>3, <3>4 DEF LiftMoves
  <2>2. CASE c.lifted # "no" /\ q.lifted = d.lifted
    <3>1. q.lifted = "rescue" /\ q.cooldown = Cooldown /\ q.drop = 0
      BY <1>3, <1>4, <1>5, <1>10, <2>2
    <3>2. p.cooldown = 0 /\ p.drop + 1 >= RescueHold /\ VotesOver(q, ev, guard)
      BY <1>1, <1>2, <1>3, <1>8, <2>2
    <3>3. q.scount <= p.scount \/ (q.scount = p.scount + 1 /\ VotesAhead(q, ev, guard))
      BY <1>1, <1>2, <1>3, <1>4, <1>5, <1>7, <2>2
    <3>4. q.drop <= p.drop
      BY <1>10, <3>1
    <3>5. QED
      BY <3>1, <3>2, <3>3, <3>4 DEF LiftMoves
  <2>3. CASE q.lifted # d.lifted
    <3>1. /\ q.lifted = "shadow" /\ q.cooldown = Cooldown /\ q.drop = 0 /\ q.scount = 0
          /\ c.cooldown = 0 /\ c.scount + 1 >= ShadowHold /\ VotesAhead(q, ev, guard)
      BY <1>4, <1>5, <1>7, <2>3
    <3>2. c.lifted = "no"
      BY <1>3, <1>10, <3>1
    <3>3. p.cooldown <= 1 /\ p.scount + 1 >= ShadowHold
      BY <1>1, <1>2, <1>3, <1>10, <3>1, <3>2
    <3>4. q.drop <= p.drop /\ q.scount <= p.scount
      BY <1>10, <3>1
    <3>5. QED
      BY <3>1, <3>3, <3>4 DEF LiftMoves
  <2>4. QED
    BY <2>1, <2>2, <2>3
<1>12. QED
  BY <1>4, <1>5, <1>6, <1>9, <1>11

\* Nothing in the policy moves the floor but the far end.
LEMMA PolicedFloor ==
  ASSUME NEW p, IsPolicy(p), NEW ev, ev.x \in Values, ev.mid \in Values, ev.shadow_e \in Values,
         NEW guard \in BOOLEAN
  PROVE  Policed(p, ev, guard).floor = Chase(p.floor, Square(ev.x))
<1> DEFINE f == Chase(p.floor, Square(ev.x))
           a == Tracking(p, ev)
           b == ApplyGuard(a, ev, guard)
           c == ApplyRescue(b, ev, guard)
           d == Compared(c, ev)
           q == Contest(d, ev, guard)
<1>1. "floor" \in DOMAIN p
  BY DEF IsPolicy, PolicySet
<1>2. a = [p EXCEPT !.floor = f, !.lifted = "no"]
  BY DEF Tracking
<1> HIDE DEF a, f
<1>3. a.floor = f /\ "floor" \in DOMAIN a
  BY <1>1, <1>2
<1>4. b.floor = f /\ "floor" \in DOMAIN b
  BY <1>3 DEF ApplyGuard
<1> HIDE DEF b
<1>5. c.floor = f /\ "floor" \in DOMAIN c
  BY <1>4 DEF ApplyRescue
<1> HIDE DEF c
<1>6. d.floor = f /\ "floor" \in DOMAIN d
  BY <1>5 DEF Compared
<1> HIDE DEF d
<1>7. q.floor = f
  BY <1>6 DEF Contest
<1>8. QED
  BY <1>7 DEF Policed, ApplyShadow, q, d, c, b, a, f

\* Before a fault, the shadow's lead is a comparison of two numbers.
LEMMA AheadIsSeen ==
  ASSUME NEW q, q.pm \in Tame, q.ps \in Tame, NEW ev, ShadowAhead(q, ev)
  PROVE  ev.ahead
  BY DEF ShadowAhead, Tame

-------------------------------------------------------------------------------
(* A unit of any kind *)

BareSet(cfg, V) == [kind : {"core"}, cfg : {cfg}, core : CoreSet(cfg, V), trips : Nat]

IsBare(u, V) == u \in BareSet(u.cfg, V) /\ ValidCore(u.cfg) /\ u.trips = u.core.trips
IsPem(u, V) == u \in PemSet(u.cfg, V) /\ ValidPem(u.cfg)
IsAec(u, V) == u \in AecSet(u.cfg, V) /\ ValidAec(u.cfg)

IsUnit(u, V) == IsBare(u, V) \/ IsPem(u, V) \/ IsAec(u, V)

LEMMA UnitKinds ==
  ASSUME NEW V, NEW u, IsUnit(u, V)
  PROVE  /\ u.kind \in {"core", "afc", "aec"}
         /\ u.kind = "core" => IsBare(u, V)
         /\ u.kind = "afc" => IsPem(u, V)
         /\ u.kind = "aec" => IsAec(u, V)
         /\ u.trips \in Nat
<1>1. CASE IsBare(u, V)
  BY <1>1 DEF IsBare, BareSet
<1>2. CASE IsPem(u, V)
  BY <1>2 DEF IsPem, PemSet
<1>3. CASE IsAec(u, V)
  BY <1>3 DEF IsAec, AecSet
<1>4. QED
  BY <1>1, <1>2, <1>3 DEF IsUnit

\* reset() of any unit: afresh, of the same configuration.
LEMMA UnitResets ==
  ASSUME NEW V \in Grades, NEW W \in Grades, NEW u, IsUnit(u, W)
  PROVE  LET t == ResetUnit(u)
         IN  /\ IsUnit(t, V) /\ t.kind = u.kind /\ t.cfg = u.cfg /\ t.trips = u.trips
             /\ t.core = ResetCore(u.core)
             /\ ResetUnit(t) = t
             /\ u.kind = "aec" => t.post = ResetPost(u.post)
<1>1. CASE u.kind = "core"
  <2> DEFINE core == ResetCore(u.core)
             t == [u EXCEPT !.core = core]
  <2>1. IsBare(u, W)
    BY <1>1, UnitKinds
  <2>2. core \in CoreSet(u.cfg, V) /\ SameRun(u.core, core) /\ ResetCore(core) = core
    BY <2>1, CoreResets DEF IsBare, BareSet
  <2> HIDE DEF core
  <2>3. t \in BareSet(u.cfg, V) /\ t.cfg = u.cfg /\ t.kind = u.kind /\ t.trips = u.trips /\ t.core = core
    BY <2>1, <2>2 DEF IsBare, BareSet
  <2>4. [t EXCEPT !.core = core] = t
    BY <2>3 DEF BareSet
  <2>5. ResetUnit(u) = t
    BY <1>1 DEF ResetUnit, core
  <2> HIDE DEF t
  <2>6. ResetUnit(t) = t
    BY <1>1, <2>2, <2>3, <2>4 DEF ResetUnit
  <2>7. IsUnit(t, V)
    BY <2>1, <2>2, <2>3 DEF IsUnit, IsBare, SameRun
  <2>8. QED
    BY <1>1, <2>3, <2>5, <2>6, <2>7 DEF core
<1>2. CASE u.kind = "afc"
  <2>1. IsPem(u, W)
    BY <1>2, UnitKinds
  <2>2. /\ ResetPem(u) \in PemSet(u.cfg, V) /\ ResetPem(u).trips = u.trips
        /\ ResetPem(u).core = ResetCore(u.core) /\ ResetPem(ResetPem(u)) = ResetPem(u)
    BY <2>1, PemResets DEF IsPem
  <2>3. ResetUnit(u) = ResetPem(u)
    BY <1>2 DEF ResetUnit
  <2> HIDE DEF ResetPem, ResetCore
  <2>4. ResetPem(u).kind = "afc" /\ ResetPem(u).cfg = u.cfg
    BY <2>2 DEF PemSet
  <2>5. QED
    BY <1>2, <2>1, <2>2, <2>3, <2>4 DEF ResetUnit, IsUnit, IsPem
<1>3. CASE u.kind = "aec"
  <2>1. IsAec(u, W)
    BY <1>3, UnitKinds
  <2>2. /\ ResetAec(u) \in AecSet(u.cfg, V) /\ ResetAec(u).trips = u.trips
        /\ ResetAec(u).core = ResetKalman(u.core) /\ ResetAec(u).post = ResetPost(u.post)
        /\ ResetAec(ResetAec(u)) = ResetAec(u)
    BY <2>1, AecResets DEF IsAec
  <2>3. ResetUnit(u) = ResetAec(u)
    BY <1>3 DEF ResetUnit
  <2>4. u.core \in KalmanSet(u.cfg.core, W) /\ u.cfg.core.core = "kalman"
    BY <2>1 DEF IsAec, AecSet, ValidAec, ValidKalman, KalmanConfig
  <2>5. ResetCore(u.core) = ResetKalman(u.core)
    BY <2>4 DEF ResetCore, KalmanSet
  <2> HIDE DEF ResetAec, ResetCore, ResetKalman, ResetPost
  <2>6. ResetAec(u).kind = "aec" /\ ResetAec(u).cfg = u.cfg
    BY <2>2 DEF AecSet
  <2>7. QED
    BY <1>3, <2>1, <2>2, <2>3, <2>5, <2>6 DEF ResetUnit, IsUnit, IsAec
<1>4. QED
  BY <1>1, <1>2, <1>3, UnitKinds

\* A unit a host may create.
LEMMA UnitFresh ==
  ASSUME NEW V \in Grades, NEW u \in Units
  PROVE  IsUnit(u, V) /\ u.trips = 0 /\ (u.kind = "aec" => u = Aec(u.cfg))
<1>1. Accepted(u)
  BY UnitsAssumption
<1>2. u = BareUnit(u.cfg) /\ ValidCore(u.cfg) => IsBare(u, V) /\ u.trips = 0 /\ u.kind = "core"
  <2> SUFFICES ASSUME u = BareUnit(u.cfg), ValidCore(u.cfg)
               PROVE  IsBare(u, V) /\ u.trips = 0 /\ u.kind = "core"
    OBVIOUS
  <2>1. Core(u.cfg) \in CoreSet(u.cfg, V) /\ Core(u.cfg).trips = 0
    BY CoreFresh, KalmanFresh, FdafFresh DEF Core
  <2>2. u.kind = "core" /\ u.core = Core(u.cfg) /\ u.trips = 0
    BY DEF BareUnit
  <2>3. u \in BareSet(u.cfg, V)
    BY <2>1 DEF BareUnit, BareSet
  <2>4. QED
    BY <2>1, <2>2, <2>3 DEF IsBare
<1>3. u = Pem(u.cfg) /\ ValidPem(u.cfg) => IsPem(u, V) /\ u.trips = 0 /\ u.kind = "afc"
  <2> SUFFICES ASSUME u = Pem(u.cfg), ValidPem(u.cfg) PROVE IsPem(u, V) /\ u.trips = 0 /\ u.kind = "afc"
    OBVIOUS
  <2>1. Pem(u.cfg) \in PemSet(u.cfg, V)
    BY PemFresh
  <2>2. u \in PemSet(u.cfg, V)
    BY <2>1
  <2>3. u.trips = 0 /\ u.kind = "afc"
    BY DEF Pem
  <2>4. QED
    BY <2>2, <2>3 DEF IsPem
<1>4. u = Aec(u.cfg) /\ ValidAec(u.cfg) => IsAec(u, V) /\ u.trips = 0 /\ u.kind = "aec"
  <2> SUFFICES ASSUME u = Aec(u.cfg), ValidAec(u.cfg) PROVE IsAec(u, V) /\ u.trips = 0 /\ u.kind = "aec"
    OBVIOUS
  <2>1. Aec(u.cfg) \in AecSet(u.cfg, V)
    BY AecFresh
  <2>2. u \in AecSet(u.cfg, V)
    BY <2>1
  <2>3. u.trips = 0 /\ u.kind = "aec"
    BY DEF Aec
  <2>4. QED
    BY <2>2, <2>3 DEF IsAec
<1>5. QED
  BY <1>1, <1>2, <1>3, <1>4 DEF Accepted, IsUnit

-------------------------------------------------------------------------------
(* The invariant, of a unit u, a policy p, an output o and a history h *)

HistorySet ==
  [heard : BOOLEAN, live : BOOLEAN, quiet : Nat, streak : 0 .. GuardHold, earned : BOOLEAN,
   rest : 0 .. Cooldown, over : 0 .. RescueHold, ahead : 0 .. ShadowHold,
   sick : Nat, ill : Nat, frozen : BOOLEAN]

Leaks(u, o, h) ==
  ~ Finite(o) => h.heard /\ (u.kind = "afc" \/ (u.kind = "aec" /\ u.cfg.post.post = "nn"))

\* What the post stage holds of the blocks since the last restart.
WindowsHold(u, h) ==
  u.kind = "aec" =>
    IF u.cfg.post.post = "residual"
    THEN /\ InWindow(u.post, u.post.yh) \/ InWindow(u.post, u.post.yl) => h.live
         /\ h.quiet = u.post.ql
         /\ InWindow(u.post, u.post.dh) => h.heard
    ELSE ~ h.live => u.post.prev_yhat = "zero" /\ u.post.syy = "zero"

\* The guard's count is the observer's streak until it certifies.
CertificateHolds(u, p, h) ==
  IF u.kind = "aec" /\ u.cfg.guard
  THEN /\ p.converged => h.earned
       /\ ~ p.converged => ~ h.earned /\ h.streak = p.conv
  ELSE ~ p.converged

\* What the cooldown has left is what the rest still lacks.
RestHolds(p, h) ==
  /\ (IF p.lifted = "no" THEN h.rest ELSE 0) + p.cooldown >= Cooldown
  /\ p.lifted # "no" => h.rest = Cooldown

\* The evidence no lift has spent yet.
OverLeft(p, h) == IF p.lifted = "no" THEN h.over ELSE 0
AheadLeft(p, h) == IF p.lifted = "shadow" THEN 0 ELSE h.ahead

\* Before a fault, every vote is evidence.
VotesHold(p, h) ==
  ~ h.heard =>
    /\ p.drop <= OverLeft(p, h) /\ p.scount <= AheadLeft(p, h)
    /\ p.lifted = "rescue" => h.over >= RescueHold
    /\ p.lifted = "shadow" => h.ahead >= ShadowHold

Typed(u, p, h) ==
  /\ IsUnit(u, Values) /\ IsPolicy(p) /\ h \in HistorySet
  /\ u.kind # "aec" => p = FreshPolicy

TameBefore(u, p, h) == ~ h.heard => IsUnit(u, Tame) /\ p.pm \in Tame /\ p.ps \in Tame

Sound(u, p, o, h) ==
  /\ Typed(u, p, h) /\ TameBefore(u, p, h) /\ Leaks(u, o, h)
  /\ WindowsHold(u, h) /\ CertificateHolds(u, p, h) /\ RestHolds(p, h) /\ VotesHold(p, h)

HostInv == Sound(unit, pol, out, hist)

LEMMA HostInvImplies ==
  ASSUME HostInv
  PROVE  PolicyTypeOK /\ CertificateEarned /\ LiftsSpaced /\ LiftOnEvidence
<1>1. PolicyTypeOK
  BY PolicyIsTyped DEF HostInv, Sound, Typed, IsPolicy
<1>2. pol.converged \in BOOLEAN /\ hist.earned \in BOOLEAN /\ hist.heard \in BOOLEAN /\ pol.lifted \in {"no", "rescue", "shadow"}
  BY DEF HostInv, Sound, Typed, IsPolicy, PolicySet, HistorySet
<1>3. CertificateEarned
  BY <1>2 DEF HostInv, Sound, CertificateHolds, CertificateEarned
<1>4. LiftsSpaced
  <2>1. pol.lifted # "no" => hist.rest = Cooldown
    BY DEF HostInv, Sound, RestHolds
  <2>2. Cooldown \in Nat
    BY HoldsAssumption
  <2>3. QED
    BY <2>1, <2>2 DEF LiftsSpaced
<1>5. LiftOnEvidence
  BY DEF HostInv, Sound, VotesHold, LiftOnEvidence
<1>6. QED
  BY <1>1, <1>2, <1>3, <1>4, <1>5

-------------------------------------------------------------------------------
(* A restart *)

LEMMA HushType ==
  ASSUME NEW u, IsUnit(u, Values)
  PROVE  Hush(u) \in Nat /\ MaxIll(u) \in Nat
<1>1. CASE u.kind = "aec" /\ u.cfg.post.post = "residual"
  <2>1. IsAec(u, Values)
    BY <1>1, UnitKinds
  <2>2. u.cfg.post.analysis \in Nat \ {0} /\ u.cfg.post.floor_window \in Nat \ {0}
    BY <1>1, <2>1, AecConfigured DEF IsAec, ValidAec, ValidPost, ValidResidual
  <2>3. QED
    BY <1>1, <2>2 DEF Hush, MaxIll, Healing, Longer
<1>2. CASE ~ (u.kind = "aec" /\ u.cfg.post.post = "residual")
  BY <1>2 DEF Hush, MaxIll, Healing
<1>3. QED
  BY <1>1, <1>2

LEMMA FreshHistoryType ==
  ASSUME NEW u, IsUnit(u, Values) PROVE FreshHistory(u) \in HistorySet
  BY HushType, HoldsAssumption DEF FreshHistory, HistorySet

\* Two histories of the same blocks, but for how long the unit has been ill.
SameBlocks(g, h) ==
  /\ h \in HistorySet
  /\ h.heard = g.heard /\ h.live = g.live /\ h.quiet = g.quiet /\ h.streak = g.streak
  /\ h.earned = g.earned /\ h.rest = g.rest /\ h.over = g.over /\ h.ahead = g.ahead
  /\ h.frozen = g.frozen

LEMMA TameUnit ==
  ASSUME NEW u, IsUnit(u, Tame)
  PROVE  IsUnit(u, Values)
<1>1. ASSUME NEW cfg, NEW c \in KalmanSet(cfg, Tame) PROVE c \in KalmanSet(cfg, Values)
  BY CoreWidens, ValuesGrade
<1>3. ASSUME NEW cfg, NEW c \in CoreSet(cfg, Tame) PROVE c \in CoreSet(cfg, Values)
  BY CoreWidens, ValuesGrade
<1>4. CASE IsBare(u, Tame)
  BY <1>3, <1>4 DEF IsUnit, IsBare, BareSet
<1>5. CASE IsPem(u, Tame)
  <2>1. u.core \in CoreSet(u.cfg.core, Values) /\ u.shadow \in KalmanSet(ShadowConfig(u.cfg), Values)
    BY <1>1, <1>3, <1>5 DEF IsPem, PemSet
  <2>2. u.raw \in RawSet(u.cfg.core.partitions, Values)
    <3>1. u.raw \in RawSet(u.cfg.core.partitions, Tame)
      BY <1>5 DEF IsPem, PemSet
    <3>2. u.raw.u \in [1 .. u.cfg.core.partitions -> Values] /\ u.raw.win \in Values
      BY <3>1, ValuesGrade DEF RawSet
    <3>3. QED
      BY <3>1, <3>2 DEF RawSet
  <2>3. ASSUME NEW s \in StreamSet(u.cfg.ring, Tame) PROVE s \in StreamSet(u.cfg.ring, Values)
    <3>1. s.ring \in [1 .. u.cfg.ring -> Values] /\ s.past \in Values
      BY ValuesGrade DEF StreamSet
    <3>2. QED
      BY <3>1 DEF StreamSet
  <2>4. u.us \in StreamSet(u.cfg.ring, Values) /\ u.ys \in StreamSet(u.cfg.ring, Values)
    BY <1>5, <2>3 DEF IsPem, PemSet
  <2>5. u.ewin \in [1 .. u.cfg.window -> Values] /\ u.pm \in Values /\ u.ps \in Values
    BY <1>5, ValuesGrade DEF IsPem, PemSet
  <2>6. QED
    BY <1>5, <2>1, <2>2, <2>4, <2>5 DEF IsUnit, IsPem, PemSet
<1>6. CASE IsAec(u, Tame)
  <2>1. u.core \in KalmanSet(u.cfg.core, Values) /\ u.shadow \in KalmanSet(ShadowOf(u.cfg), Values)
    BY <1>1, <1>6 DEF IsAec, AecSet
  <2>2. ASSUME NEW cfg, NEW s \in NnSet(cfg, Tame) PROVE s \in NnSet(cfg, Values)
    BY ValuesGrade DEF NnSet
  <2>3. u.post \in PostSet(u.cfg.post, Values)
    BY <1>6, <2>2 DEF IsAec, AecSet, PostSet
  <2>4. QED
    BY <1>6, <2>1, <2>3 DEF IsUnit, IsAec, AecSet
<1>7. QED
  BY <1>4, <1>5, <1>6 DEF IsUnit

\* A post stage that has just been reset, or built, remembers no block.
Blank(cfg, s) ==
  IF cfg.post = "residual"
  THEN s.cfg = cfg /\ s.yh = cfg.analysis /\ s.yl = cfg.analysis /\ s.ql = cfg.analysis /\ s.dh = cfg.analysis
  ELSE s.prev_yhat = "zero" /\ s.syy = "zero"

LEMMA ResetIsBlank ==
  ASSUME NEW V, NEW cfg, NEW t \in PostSet(cfg, V)
  PROVE  Blank(cfg, ResetPost(t))
<1>1. t.cfg = cfg
  BY DEF PostSet, ResidualSet, NnSet
<1>2. CASE cfg.post = "residual"
  BY <1>1, <1>2 DEF Blank, ResetPost, ResetResidual, Residual
<1>3. CASE cfg.post # "residual"
  BY <1>1, <1>3 DEF Blank, ResetPost, Nn
<1>4. QED
  BY <1>2, <1>3

LEMMA FreshIsBlank ==
  ASSUME NEW cfg PROVE Blank(cfg, Post(cfg))
<1>1. CASE cfg.post = "residual"
  BY <1>1 DEF Blank, Post, Residual
<1>2. CASE cfg.post # "residual"
  BY <1>2 DEF Blank, Post, Nn
<1>3. QED
  BY <1>1, <1>2

LEMMA RestartIsSound ==
  ASSUME NEW u, IsUnit(u, Tame), u.kind = "aec" => Blank(u.cfg.post, u.post),
         NEW h, SameBlocks(FreshHistory(u), h)
  PROVE  Sound(u, FreshPolicy, "zero", h)
<1>1. IsUnit(u, Values)
  BY TameUnit
<1>2. Typed(u, FreshPolicy, h)
  BY <1>1, FreshPolicyType DEF Typed, SameBlocks
<1>3. /\ h.heard = FALSE /\ h.live = FALSE /\ h.quiet = Hush(u) /\ h.streak = 0 /\ h.earned = FALSE
      /\ h.rest = Cooldown /\ h.over = 0 /\ h.ahead = 0
  BY DEF SameBlocks, FreshHistory
<1>4. TameBefore(u, FreshPolicy, h)
  BY DEF TameBefore, FreshPolicy, Tame
<1>5. Leaks(u, "zero", h)
  BY DEF Leaks, Finite
<1>6. WindowsHold(u, h)
  <2>1. CASE u.kind = "aec" /\ u.cfg.post.post = "residual"
    <3>1. u.cfg.post.analysis \in Nat
      <4>1. IsAec(u, Values)
        BY <1>1, <2>1, UnitKinds
      <4>2. QED
        BY <2>1, <4>1, AecConfigured DEF IsAec
    <3>2. Hush(u) = u.cfg.post.analysis
      BY <2>1 DEF Hush
    <3>3. /\ u.post.cfg = u.cfg.post /\ u.post.yh = u.cfg.post.analysis /\ u.post.yl = u.cfg.post.analysis
          /\ u.post.ql = u.cfg.post.analysis /\ u.post.dh = u.cfg.post.analysis
      BY <2>1 DEF Blank
    <3>4. ~ InWindow(u.post, u.post.yh) /\ ~ InWindow(u.post, u.post.yl) /\ ~ InWindow(u.post, u.post.dh)
      BY <3>1, <3>3 DEF InWindow
    <3>5. QED
      BY <1>3, <2>1, <3>2, <3>3, <3>4 DEF WindowsHold
  <2>2. CASE ~ (u.kind = "aec" /\ u.cfg.post.post = "residual")
    BY <2>2 DEF WindowsHold, Blank
  <2>3. QED
    BY <2>1, <2>2
<1>7. CertificateHolds(u, FreshPolicy, h)
  BY <1>3 DEF CertificateHolds, FreshPolicy
<1>8. RestHolds(FreshPolicy, h)
  BY <1>3, HoldsAssumption DEF RestHolds, FreshPolicy
<1>9. VotesHold(FreshPolicy, h)
  BY <1>3 DEF VotesHold, FreshPolicy, OverLeft, AheadLeft
<1>10. QED
  BY <1>2, <1>4, <1>5, <1>6, <1>7, <1>8, <1>9 DEF Sound

-------------------------------------------------------------------------------
(* A block of a unit without a policy *)

UnitRan(u, r, V) ==
  /\ IsUnit(r.unit, V) /\ r.unit.kind = u.kind /\ r.unit.cfg = u.cfg
  /\ r.unit.core.adapt = u.core.adapt
  /\ r.out \in V /\ (u.kind = "core" => Finite(r.out))
  /\ \/ /\ r.unit.trips = u.trips /\ r.unit.core.trips = u.core.trips
        /\ u.core.adapt => Exposed(u.core, r.unit.core)
     \/ /\ r.unit.trips = u.trips + 1
        /\ r.unit = ResetUnit(r.unit)
        /\ IsUnit(r.unit, Tame)
        /\ r.out = "zero"

LEMMA BareRuns ==
  ASSUME NEW V \in Grades, NEW u, IsUnit(u, V), u.kind = "core", NEW x \in V, NEW y \in V, NEW k
  PROVE  UnitRan(u, CoreUnitBlock(u, x, y, k), V)
<1> DEFINE r == CoreBlock(u.core, x, y, k)
           t == [u EXCEPT !.core = r.core, !.trips = r.core.trips]
<1>1. u \in BareSet(u.cfg, V) /\ ValidCore(u.cfg) /\ u.trips = u.core.trips /\ u.core \in CoreSet(u.cfg, V)
  BY UnitKinds DEF IsBare, BareSet
<1>2. u.cfg.partitions \in Nat \ {0}
  BY <1>1 DEF ValidCore, ValidKalman, ValidFdaf
<1>3. r.core \in CoreSet(u.cfg, V) /\ Ran(u.core, r, V) /\ TrippedCore(u.core, r) /\ Exposed(u.core, r.core)
  <2>1. u.core \in CoreSet(u.cfg, Values) /\ x \in Values /\ y \in Values
    BY <1>1, CoreWidens, GradeBase
  <2>2. Exposed(u.core, r.core)
    BY <1>2, <2>1, CoreExposes
  <2>3. QED
    BY <1>1, <1>2, <2>2, CoreRuns
<1>4. CoreUnitBlock(u, x, y, k) = [unit |-> t, out |-> r.e]
  BY DEF CoreUnitBlock
<1> HIDE DEF r
<1>5. r.core.trips \in Nat
  BY <1>3, CoreFields
<1>6. t \in BareSet(u.cfg, V) /\ t.kind = "core" /\ t.cfg = u.cfg /\ t.core = r.core /\ t.trips = r.core.trips
  BY <1>1, <1>3, <1>5 DEF BareSet
<1> HIDE DEF t
<1>7. IsUnit(t, V)
  BY <1>1, <1>6 DEF IsUnit, IsBare
<1>8. CASE r.core.trips = u.core.trips
  BY <1>1, <1>3, <1>4, <1>6, <1>7, <1>8 DEF UnitRan, Ran
<1>9. CASE r.core.trips # u.core.trips
  <2>1. r.core = ResetCore(r.core) /\ r.e = "zero" /\ r.core.trips = u.core.trips + 1
    BY <1>3, <1>9 DEF TrippedCore, Ran
  <2>2. [t EXCEPT !.core = r.core] = t
    BY <1>6 DEF BareSet
  <2>3. ResetUnit(t) = t
    BY <1>6, <2>1, <2>2 DEF ResetUnit
  <2>4. IsUnit(ResetUnit(t), Tame)
    BY <1>7, UnitResets, ValuesGrade
  <2>5. QED
    BY <1>1, <1>3, <1>4, <1>6, <1>7, <2>1, <2>3, <2>4 DEF UnitRan, Ran
<1>10. QED
  BY <1>8, <1>9

LEMMA PemUnitRuns ==
  ASSUME NEW V \in Grades, NEW u, IsUnit(u, V), u.kind = "afc", NEW x \in V, NEW y \in V, NEW k
  PROVE  UnitRan(u, PemBlock(u, x, y, k), V)
<1> DEFINE r == PemBlock(u, x, y, k)
<1>1. IsPem(u, V)
  BY UnitKinds
<1>2. PemRan(u.cfg, u, r, V)
  BY <1>1, PemRuns DEF IsPem
<1> HIDE DEF r
<1>3. r.unit.cfg = u.cfg /\ r.unit.kind = "afc"
  BY <1>2 DEF PemRan, PemSet
<1>4. r.unit.cfg = u.cfg /\ ValidPem(u.cfg)
  BY <1>1, <1>3 DEF IsPem
<1>5. IsUnit(r.unit, V)
  BY <1>2, <1>4 DEF PemRan, IsUnit, IsPem
<1>6. r.unit \in PemSet(u.cfg, Tame) => IsUnit(r.unit, Tame)
  BY <1>4 DEF IsUnit, IsPem
<1>7. r.unit = ResetPem(r.unit) => r.unit = ResetUnit(r.unit)
  BY <1>3 DEF ResetUnit
<1>8. UnitRan(u, r, V)
  BY <1>2, <1>3, <1>5, <1>6, <1>7 DEF PemRan, UnitRan
<1>9. QED
  BY <1>8 DEF r

-------------------------------------------------------------------------------
(* A block of the chain on which no stage tripped, part by part *)

\* What the history makes of a block with microphone y and echo estimate yhat.
Observes(u, h, g, y, yhat) ==
  /\ g \in HistorySet
  /\ h.heard => g.heard
  /\ y \notin Tame => g.heard
  /\ g.live = (h.live \/ yhat # "zero")
  /\ g.quiet = IF yhat # "zero" THEN 0 ELSE IF y = "zero" THEN UpTo(h.quiet, Hush(u)) ELSE 0

\* An estimate since the restart, or silence in every window.
Heeded(u, g) == g.live \/ (Hush(u) > 0 /\ g.quiet = Hush(u))

\* What is left to say of the certificate: explained is its possible values.
Grounded(u, g, explained) ==
  /\ explained \cap {"good", "over"} # {} => Heeded(u, g)
  /\ "nan" \in explained => g.heard

\* The classical windows and the observer agree; a certificate speaks of an
\* estimate or of silence; and only a fault makes its ratio undefined.
LEMMA ResidualWindowsStep ==
  ASSUME NEW u, IsUnit(u, Values), u.kind = "aec", u.cfg.post.post = "residual",
         NEW h \in HistorySet, WindowsHold(u, h),
         NEW y \in Values, NEW r, AecPassed(u.cfg, u, r, y, Values),
         NEW t, t.kind = "aec", t.cfg = u.cfg, t.post = r.unit.post,
         NEW g, Observes(u, h, g, y, r.yhat)
  PROVE  WindowsHold(t, g) /\ Grounded(u, g, r.explained)
<1> DEFINE N == u.cfg.post.analysis
           s == u.post
           w == SlidWindows(s, r.mid, r.yhat, y)
<1>1. IsAec(u, Values)
  BY UnitKinds
<1>2. N \in Nat \ {0}
  BY <1>1, AecConfigured DEF IsAec
<1>3. s \in ResidualSet(u.cfg.post) /\ s.cfg = u.cfg.post
  BY <1>1 DEF IsAec, AecSet, PostSet, ResidualSet
<1>4. {s.yh, s.yl, s.ql, s.dh} \subseteq 0 .. N
  BY <1>3 DEF ResidualSet
<1>5. w \in ResidualSet(u.cfg.post) /\ Aged(s, w, r.yhat, y, N)
  BY <1>2, <1>3, WindowsSlide
<1>6. w.cfg = u.cfg.post
  BY <1>5 DEF ResidualSet
<1>7. SameWindows(w, t.post) /\ r.explained = EchoExplained(w)
  BY DEF AecPassed, PostPassed
<1>8. Hush(u) = N /\ Hush(t) = N
  BY DEF Hush
<1>9. /\ InWindow(s, s.yh) \/ InWindow(s, s.yl) => h.live
      /\ h.quiet = s.ql
      /\ InWindow(s, s.dh) => h.heard
  BY DEF WindowsHold
<1> HIDE DEF w
<1>11. InWindow(w, w.yh) \/ InWindow(w, w.yl) => g.live
  <2>1. CASE r.yhat # "zero"
    BY <2>1 DEF Observes
  <2>2. CASE r.yhat = "zero"
    <3>1. InWindow(w, w.yh) => s.yh < N
      BY <1>2, <1>4, <1>5, <1>6, <2>2 DEF InWindow, Aged, Since
    <3>2. InWindow(w, w.yl) => s.yl < N
      BY <1>2, <1>4, <1>5, <1>6, <2>2 DEF InWindow, Aged, Since
    <3>3. QED
      BY <1>3, <1>9, <3>1, <3>2 DEF InWindow, Observes
  <2>3. QED
    BY <2>1, <2>2
<1>12. InWindow(w, w.dh) => g.heard
  <2>1. CASE y = "huge"
    BY <2>1 DEF Observes, Tame
  <2>2. CASE y # "huge"
    <3>1. InWindow(w, w.dh) => s.dh < N
      BY <1>2, <1>4, <1>5, <1>6, <2>2 DEF InWindow, Aged, Since
    <3>2. QED
      BY <1>3, <1>9, <3>1 DEF InWindow, Observes
  <2>3. QED
    BY <2>1, <2>2
<1>13. g.quiet = w.ql
  <2>1. CASE r.yhat # "zero" \/ y # "zero"
    <3>1. {r.yhat, y} # {"zero"}
      BY <2>1
    <3>2. w.ql = 0
      BY <1>5, <3>1 DEF Aged, Since
    <3>3. QED
      BY <2>1, <3>2 DEF Observes
  <2>2. CASE r.yhat = "zero" /\ y = "zero"
    <3>1. {r.yhat, y} = {"zero"}
      BY <2>2
    <3>2. w.ql = IF s.ql < N THEN s.ql + 1 ELSE N
      BY <1>5, <3>1 DEF Aged, Since
    <3>3. g.quiet = IF h.quiet < N THEN h.quiet + 1 ELSE N
      BY <1>2, <1>4, <1>8, <1>9, <2>2 DEF Observes, UpTo
    <3>4. QED
      BY <1>9, <3>2, <3>3
  <2>3. QED
    BY <2>1, <2>2
<1>14. WindowsHold(t, g)
  <2>1. /\ InWindow(t.post, t.post.yh) = InWindow(w, w.yh)
        /\ InWindow(t.post, t.post.yl) = InWindow(w, w.yl)
        /\ InWindow(t.post, t.post.dh) = InWindow(w, w.dh)
        /\ t.post.ql = w.ql
    BY <1>7 DEF SameWindows, InWindow
  <2>2. QED
    BY <1>11, <1>12, <1>13, <2>1 DEF WindowsHold
<1>15. r.explained \cap {"good", "over"} # {} => Heeded(u, g)
  <2> SUFFICES ASSUME NEW v \in EchoExplained(w), v \in {"good", "over", "nan"} PROVE Heeded(u, g)
    BY <1>7
  <2>1. CASE Silent(w)
    <3>1. ~ (w.ql < N)
      BY <1>6, <2>1 DEF Silent, InWindow
    <3>2. w.ql \in 0 .. N
      BY <1>5 DEF ResidualSet
    <3>3. QED
      BY <1>2, <1>8, <1>13, <3>1, <3>2 DEF Heeded
  <2>2. CASE InWindow(w, w.yh) \/ InWindow(w, w.yl)
    BY <1>11, <2>2 DEF Heeded
  <2>3. QED
    BY <2>1, <2>2, CertificateOfWindows
<1>16. "nan" \in r.explained => g.heard
  BY <1>7, <1>12, UndefinedOfWindows
<1>17. QED
  BY <1>14, <1>15, <1>16 DEF Grounded

\* The same of the learned suppressor.
LEMMA NnWindowsStep ==
  ASSUME NEW u, u.kind = "aec", u.cfg.post.post # "residual",
         NEW h \in HistorySet, WindowsHold(u, h),
         NEW y \in Values, NEW r, AecPassed(u.cfg, u, r, y, Values),
         NEW t, t.kind = "aec", t.cfg = u.cfg, t.post = r.unit.post,
         NEW g, Observes(u, h, g, y, r.yhat), ~ g.heard => IsUnit(t, Tame)
  PROVE  WindowsHold(t, g) /\ Grounded(u, g, r.explained)
<1>1. /\ r.explained = NnExplained(t.post)
      /\ u.post.prev_yhat = "zero" /\ u.post.syy = "zero" /\ r.yhat = "zero"
           => t.post.prev_yhat = "zero" /\ t.post.syy = "zero"
  BY DEF AecPassed, PostPassed
<1>2. ~ g.live => t.post.prev_yhat = "zero" /\ t.post.syy = "zero"
  BY <1>1 DEF WindowsHold, Observes, HistorySet
<1>3. WindowsHold(t, g)
  BY <1>2 DEF WindowsHold
<1>4. r.explained \cap {"good", "over"} # {} => Heeded(u, g)
  <2> SUFFICES ASSUME NEW v \in NnExplained(t.post), v \in {"good", "over"} PROVE Heeded(u, g)
    BY <1>1
  <2>1. t.post.syy # "zero"
    BY NnCertificate
  <2>2. QED
    BY <1>2, <2>1 DEF Heeded
<1>5. "nan" \in r.explained => g.heard
  <2> SUFFICES ASSUME ~ g.heard PROVE "nan" \notin r.explained
    OBVIOUS
  <2>1. IsAec(t, Tame)
    BY UnitKinds
  <2>2. t.post \in NnSet(u.cfg.post, Tame)
    BY <2>1 DEF IsAec, AecSet, PostSet
  <2>3. QED
    BY <1>1, <2>2, NnDefined
<1>6. QED
  BY <1>3, <1>4, <1>5 DEF Grounded

LEMMA CertificateStep ==
  ASSUME NEW u, NEW t, t.kind = u.kind, t.cfg = u.cfg, u.kind = "aec", u.cfg.guard \in BOOLEAN,
         NEW p, IsPolicy(p), NEW q, IsPolicy(q), NEW ev, GuardMoves(p, q, ev, u.cfg.guard),
         NEW h \in HistorySet, CertificateHolds(u, p, h),
         NEW g, g.earned = (h.earned \/ (Certified(ev) /\ UpTo(h.streak, GuardHold) = GuardHold)),
         g.streak = IF Certified(ev) /\ ~ h.earned THEN UpTo(h.streak, GuardHold) ELSE 0
  PROVE  CertificateHolds(t, q, g)
<1>1. /\ p.converged \in BOOLEAN /\ q.converged \in BOOLEAN /\ h.earned \in BOOLEAN
      /\ p.conv \in Nat /\ h.streak \in 0 .. GuardHold /\ GuardHold \in Nat \ {0}
      /\ p.converged \/ p.conv < GuardHold
  BY HoldsAssumption DEF IsPolicy, PolicySet, HistorySet
<1>2. CASE ~ u.cfg.guard
  BY <1>1, <1>2 DEF CertificateHolds, GuardMoves
<1>3. CASE u.cfg.guard /\ p.converged
  BY <1>1, <1>3 DEF CertificateHolds, GuardMoves
<1>4. CASE u.cfg.guard /\ ~ p.converged
  <2>1. ~ h.earned /\ h.streak = p.conv /\ p.conv < GuardHold
    BY <1>1, <1>4 DEF CertificateHolds
  <2>2. CASE Certified(ev)
    <3>1. q.conv = p.conv + 1 /\ q.converged = (p.conv + 1 >= GuardHold)
      BY <1>4, <2>2 DEF GuardMoves
    <3>2. g.streak = p.conv + 1 /\ g.earned = (p.conv + 1 = GuardHold)
      BY <1>1, <2>1, <2>2 DEF UpTo
    <3> DEFINE late == p.conv + 1 >= GuardHold
    <3>3. q.converged = late /\ g.earned = late
      BY <1>1, <2>1, <3>1, <3>2
    <3> HIDE DEF late
    <3>4. g.streak = q.conv
      BY <3>1, <3>2
    <3>5. QED
      BY <3>3, <3>4, <1>1, <1>4 DEF CertificateHolds
  <2>3. CASE ~ Certified(ev)
    BY <1>1, <1>4, <2>1, <2>3 DEF CertificateHolds, GuardMoves
  <2>4. QED
    BY <2>2, <2>3
<1>5. QED
  BY <1>1, <1>2, <1>3, <1>4

LEMMA RestStep ==
  ASSUME NEW p, IsPolicy(p), NEW q, IsPolicy(q), NEW ev, NEW guard, LiftMoves(p, q, ev, guard),
         NEW h \in HistorySet, RestHolds(p, h),
         NEW g, g.rest = UpTo(IF p.lifted = "no" THEN h.rest ELSE 0, Cooldown)
  PROVE  RestHolds(q, g)
<1> DEFINE left == IF p.lifted = "no" THEN h.rest ELSE 0
<1>1. /\ left \in 0 .. Cooldown /\ p.cooldown \in 0 .. Cooldown /\ q.cooldown \in 0 .. Cooldown
      /\ Cooldown \in Nat \ {0} /\ left + p.cooldown >= Cooldown
      /\ q.lifted \in {"no", "rescue", "shadow"}
  BY HoldsAssumption DEF IsPolicy, PolicySet, HistorySet, RestHolds
<1>2. g.rest = IF left < Cooldown THEN left + 1 ELSE Cooldown
  BY <1>1 DEF UpTo
<1> HIDE DEF left
<1>3. CASE q.lifted = "no"
  <2>1. q.cooldown + 1 >= p.cooldown
    BY <1>3 DEF LiftMoves
  <2>2. QED
    BY <1>1, <1>2, <1>3, <2>1 DEF RestHolds
<1>4. CASE q.lifted # "no"
  <2>1. p.cooldown <= 1 /\ q.cooldown = Cooldown
    BY <1>1, <1>4 DEF LiftMoves
  <2>2. g.rest = Cooldown
    BY <1>1, <1>2, <2>1
  <2>3. QED
    BY <1>1, <1>4, <2>1, <2>2 DEF RestHolds
<1>5. QED
  BY <1>3, <1>4

LEMMA VotesStep ==
  ASSUME NEW p, IsPolicy(p), NEW q, IsPolicy(q), NEW ev, NEW guard, LiftMoves(p, q, ev, guard),
         NEW h \in HistorySet, VotesHold(p, h),
         NEW g, g.heard \in BOOLEAN, h.heard => g.heard,
         ~ g.heard /\ VotesOver(q, ev, guard) => SeesOver(ev),
         ~ g.heard /\ VotesAhead(q, ev, guard) => SeesAhead(ev),
         ~ g.heard => g.over = IF Converged(q, guard) /\ SeesOver(ev)
                               THEN UpTo(OverLeft(p, h), RescueHold) ELSE OverLeft(p, h),
         ~ g.heard => g.ahead = IF Converged(q, guard) /\ SeesAhead(ev)
                                THEN UpTo(AheadLeft(p, h), ShadowHold) ELSE AheadLeft(p, h)
  PROVE  VotesHold(q, g)
<1> DEFINE over == OverLeft(p, h)
           ahead == AheadLeft(p, h)
           A == Converged(q, guard) /\ SeesOver(ev)
           B == Converged(q, guard) /\ SeesAhead(ev)
<1> SUFFICES ASSUME ~ g.heard PROVE VotesHold(q, g)
  BY DEF VotesHold
<1>1. /\ p.drop \in 0 .. RescueHold - 1 /\ q.drop \in 0 .. RescueHold - 1
      /\ p.scount \in 0 .. ShadowHold - 1 /\ q.scount \in 0 .. ShadowHold - 1
      /\ RescueHold \in Nat \ {0} /\ ShadowHold \in Nat \ {0}
      /\ q.lifted \in {"no", "rescue", "shadow"}
  BY HoldsAssumption DEF IsPolicy, PolicySet
<1>2. over \in 0 .. RescueHold /\ ahead \in 0 .. ShadowHold
  BY <1>1 DEF HistorySet, OverLeft, AheadLeft
<1>3. p.drop <= over /\ p.scount <= ahead
  BY DEF VotesHold
<1>4. /\ g.over = IF A THEN (IF over < RescueHold THEN over + 1 ELSE RescueHold) ELSE over
      /\ g.ahead = IF B THEN (IF ahead < ShadowHold THEN ahead + 1 ELSE ShadowHold) ELSE ahead
  BY <1>1, <1>2 DEF UpTo
<1>5. (VotesOver(q, ev, guard) => A) /\ (VotesAhead(q, ev, guard) => B)
  BY DEF VotesOver, VotesAhead
<1> HIDE DEF over, ahead, A, B
<1>6. q.drop <= g.over
  <2>1. CASE q.drop <= p.drop
    BY <1>1, <1>2, <1>3, <1>4, <2>1
  <2>2. CASE q.drop = p.drop + 1 /\ VotesOver(q, ev, guard)
    BY <1>1, <1>2, <1>3, <1>4, <1>5, <2>2
  <2>3. QED
    BY <2>1, <2>2 DEF LiftMoves
<1>7. q.scount <= g.ahead
  <2>1. CASE q.scount <= p.scount
    BY <1>1, <1>2, <1>3, <1>4, <2>1
  <2>2. CASE q.scount = p.scount + 1 /\ VotesAhead(q, ev, guard)
    BY <1>1, <1>2, <1>3, <1>4, <1>5, <2>2
  <2>3. QED
    BY <2>1, <2>2 DEF LiftMoves
<1>8. q.lifted = "rescue" => g.over >= RescueHold
  <2> SUFFICES ASSUME q.lifted = "rescue" PROVE g.over >= RescueHold
    OBVIOUS
  <2>1. p.drop + 1 >= RescueHold /\ VotesOver(q, ev, guard)
    BY DEF LiftMoves
  <2>2. QED
    BY <1>1, <1>2, <1>3, <1>4, <1>5, <2>1
<1>9. q.lifted = "shadow" => g.ahead >= ShadowHold
  <2> SUFFICES ASSUME q.lifted = "shadow" PROVE g.ahead >= ShadowHold
    OBVIOUS
  <2>1. p.scount + 1 >= ShadowHold /\ VotesAhead(q, ev, guard)
    BY DEF LiftMoves
  <2>2. QED
    BY <1>1, <1>2, <1>3, <1>4, <1>5, <2>1
<1>10. q.lifted # "no" => q.drop = 0
  BY DEF LiftMoves
<1>11. q.lifted = "shadow" => q.scount = 0
  BY DEF LiftMoves
<1>12. QED
  BY <1>1, <1>6, <1>7, <1>8, <1>9, <1>10, <1>11 DEF VotesHold, OverLeft, AheadLeft

\* What the history makes of the evidence and of the policy's step from p to q.
Counts(u, p, q, h, g, ev) ==
  /\ g.earned = (h.earned \/ (Certified(ev) /\ Heeded(u, g) /\ UpTo(h.streak, GuardHold) = GuardHold))
  /\ g.streak = IF Certified(ev) /\ Heeded(u, g) /\ ~ h.earned THEN UpTo(h.streak, GuardHold) ELSE 0
  /\ g.rest = UpTo(IF p.lifted = "no" THEN h.rest ELSE 0, Cooldown)
  /\ ~ g.heard =>
       /\ g.over = IF Converged(q, u.cfg.guard) /\ SeesOver(ev)
                   THEN UpTo(OverLeft(p, h), RescueHold) ELSE OverLeft(p, h)
       /\ g.ahead = IF Converged(q, u.cfg.guard) /\ SeesAhead(ev)
                    THEN UpTo(AheadLeft(p, h), ShadowHold) ELSE AheadLeft(p, h)

\* A block of the chain, in the grade V.
Passes(u, r, y, V) == r.unit \in AecSet(u.cfg, V) /\ AecPassed(u.cfg, u, r, y, V)

LEMMA PassedIsSound ==
  ASSUME NEW u, NEW p, NEW o, NEW h, Sound(u, p, o, h), u.kind = "aec",
         NEW y \in Values, NEW r, Passes(u, r, y, Values),
         NEW ev, ev.x \in Values, ev.mid = r.mid, ev.shadow_e = r.shadow_e, ev.explained \in r.explained,
         NEW q, q = Policed(p, ev, u.cfg.guard),
         NEW t, t = IF q.lifted = "no" THEN r.unit ELSE LiftedAec(r.unit),
         NEW g, Observes(u, h, g, y, r.yhat), Counts(u, p, q, h, g, ev),
         ~ g.heard => Passes(u, r, y, Tame)
  PROVE  Sound(t, q, r.out, g)
<1> USE ValuesGrade
<1>1. /\ IsUnit(u, Values) /\ IsPolicy(p) /\ h \in HistorySet
      /\ TameBefore(u, p, h) /\ WindowsHold(u, h) /\ CertificateHolds(u, p, h)
      /\ RestHolds(p, h) /\ VotesHold(p, h)
  BY DEF Sound, Typed
<1>2. IsAec(u, Values) /\ ValidAec(u.cfg) /\ u.cfg.guard \in BOOLEAN
  BY <1>1, UnitKinds, AecConfigured DEF IsAec
<1>3. g \in HistorySet /\ g.heard \in BOOLEAN /\ (h.heard => g.heard)
  BY DEF Observes, HistorySet
<1>4. p.pm \in Values /\ p.ps \in Values /\ r.mid \in Values /\ r.shadow_e \in Values
  BY <1>1 DEF IsPolicy, PolicySet, Passes, AecPassed
<1>5. IsPolicy(q) /\ GuardMoves(p, q, ev, u.cfg.guard) /\ LiftMoves(p, q, ev, u.cfg.guard)
  BY <1>1, <1>2, <1>4, PolicedStep
<1>6. ASSUME ~ g.heard PROVE q.pm \in Tame /\ q.ps \in Tame
  <2>1. p.pm \in Tame /\ p.ps \in Tame
    BY <1>1, <1>3, <1>6 DEF TameBefore
  <2>2. r.mid \in Tame /\ r.shadow_e \in Tame
    BY <1>6 DEF Passes, AecPassed
  <2>3. QED
    BY <1>1, <1>2, <2>1, <2>2, PolicedStep
<1>7. ASSUME NEW V \in Grades, Passes(u, r, y, V)
      PROVE  /\ t \in AecSet(u.cfg, V) /\ t.post = r.unit.post
             /\ t.kind = "aec" /\ t.cfg = u.cfg /\ IsUnit(t, V)
  <2>1. r.unit \in AecSet(u.cfg, V)
    BY <1>7 DEF Passes
  <2>2. t \in AecSet(u.cfg, V) /\ t.post = r.unit.post
    BY <2>1, AecLifts
  <2>3. t.kind = "aec" /\ t.cfg = u.cfg
    BY <2>2 DEF AecSet
  <2>4. QED
    BY <1>2, <2>2, <2>3 DEF IsUnit, IsAec
<1>8. t.post = r.unit.post /\ t.kind = "aec" /\ t.cfg = u.cfg /\ IsUnit(t, Values)
  BY <1>7
<1>9. ~ g.heard => IsUnit(t, Tame)
  BY <1>7
<1>10. Typed(t, q, g) /\ TameBefore(t, q, g)
  BY <1>3, <1>5, <1>6, <1>8, <1>9 DEF Typed, TameBefore
<1>11. AecPassed(u.cfg, u, r, y, Values)
  BY DEF Passes
<1>12. Leaks(t, r.out, g)
  <2>1. CASE u.cfg.post.post = "residual"
    BY <1>11, <2>1 DEF AecPassed, PostPassed, Leaks
  <2>2. CASE u.cfg.post.post # "residual"
    <3>1. ~ g.heard => r.out \in Tame
      BY <2>2 DEF Passes, AecPassed, PostPassed
    <3>2. ~ g.heard => Finite(r.out)
      BY <3>1, TamePasses
    <3>3. u.cfg.post.post = "nn"
      BY <1>2, <2>2 DEF ValidAec, ValidPost, ValidNn
    <3>4. QED
      BY <1>8, <3>2, <3>3 DEF Leaks
  <2>3. QED
    BY <2>1, <2>2
<1>13. WindowsHold(t, g) /\ Grounded(u, g, r.explained)
  <2>1. CASE u.cfg.post.post = "residual"
    BY <1>1, <1>8, <1>11, <2>1, ResidualWindowsStep
  <2>2. CASE u.cfg.post.post # "residual"
    BY <1>1, <1>8, <1>9, <1>11, <2>2, NnWindowsStep
  <2>3. QED
    BY <2>1, <2>2
<1>14. Certified(ev) => Heeded(u, g)
  BY <1>13 DEF Certified, Grounded
<1>15. CertificateHolds(t, q, g)
  <2>1. /\ g.earned = (h.earned \/ (Certified(ev) /\ UpTo(h.streak, GuardHold) = GuardHold))
        /\ g.streak = IF Certified(ev) /\ ~ h.earned THEN UpTo(h.streak, GuardHold) ELSE 0
    BY <1>14 DEF Counts
  <2>2. QED
    BY <1>1, <1>2, <1>5, <1>8, <2>1, CertificateStep
<1>16. RestHolds(q, g)
  BY <1>1, <1>5, RestStep DEF Counts
<1>17. ~ g.heard /\ VotesOver(q, ev, u.cfg.guard) => SeesOver(ev)
  BY <1>13 DEF VotesOver, SeesOver, OverExplained, Grounded
<1>18. ~ g.heard /\ VotesAhead(q, ev, u.cfg.guard) => SeesAhead(ev)
  BY <1>6, AheadIsSeen DEF VotesAhead, SeesAhead
<1>19. VotesHold(q, g)
  BY <1>1, <1>3, <1>5, <1>17, <1>18, VotesStep DEF Counts
<1>20. QED
  BY <1>10, <1>12, <1>13, <1>15, <1>16, <1>19 DEF Sound

-------------------------------------------------------------------------------
(* The other blocks: a trip of the chain, and a unit without a policy *)

LEMMA SameRestart ==
  ASSUME NEW u, NEW t, t.kind = u.kind, t.cfg = u.cfg
  PROVE  FreshHistory(t) = FreshHistory(u)
  BY DEF FreshHistory, Hush

LEMMA TripIsSound ==
  ASSUME NEW u, IsUnit(u, Values), u.kind = "aec",
         NEW r, AecTripped(u.cfg, u, r),
         NEW g, SameBlocks(FreshHistory(u), g)
  PROVE  Sound(r.unit, FreshPolicy, r.out, g)
<1>1. IsAec(u, Values)
  BY UnitKinds
<1>2. /\ r.unit \in AecSet(u.cfg, Tame) /\ r.unit = ResetAec(r.unit) /\ r.out = "zero"
      /\ ValidAec(u.cfg)
  BY <1>1 DEF AecTripped, IsAec
<1>3. r.unit.kind = "aec" /\ r.unit.cfg = u.cfg /\ r.unit.post \in PostSet(u.cfg.post, Tame)
  BY <1>2 DEF AecSet
<1>4. IsUnit(r.unit, Tame)
  BY <1>2, <1>3 DEF IsUnit, IsAec
<1>5. ResetAec(r.unit).post = ResetPost(r.unit.post)
  BY <1>2, ValuesGrade, AecResets
<1>6. Blank(r.unit.cfg.post, r.unit.post)
  BY <1>2, <1>3, <1>5, ResetIsBlank
<1>7. SameBlocks(FreshHistory(r.unit), g)
  BY <1>3, SameRestart
<1>8. QED
  BY <1>2, <1>4, <1>6, <1>7, RestartIsSound

\* Two histories of the same ills.
SameIlls(g, h) == h.sick = g.sick /\ h.ill = g.ill /\ h.frozen = g.frozen

\* The history once it has met a block's inputs.
Met(u, h, m, x, y) ==
  /\ m \in HistorySet
  /\ m.heard = (h.heard \/ {x, y} \cap Bad # {})
  /\ m.quiet = IF y = "zero" THEN UpTo(h.quiet, Hush(u)) ELSE 0
  /\ m.live = h.live /\ m.streak = h.streak /\ m.earned = h.earned
  /\ m.rest = h.rest /\ m.over = h.over /\ m.ahead = h.ahead

LEMMA AloneIsSound ==
  ASSUME NEW u, NEW p, NEW o, NEW h, Sound(u, p, o, h), u.kind # "aec",
         NEW x, NEW y, NEW m, Met(u, h, m, x, y),
         NEW r, UnitRan(u, r, Values), ~ m.heard => UnitRan(u, r, Tame),
         NEW g, SameBlocks(IF r.unit.trips # u.trips THEN FreshHistory(u) ELSE m, g)
  PROVE  Sound(r.unit, p, r.out, g)
<1>1. /\ IsUnit(u, Values) /\ p = FreshPolicy /\ h \in HistorySet
      /\ CertificateHolds(u, p, h) /\ RestHolds(p, h) /\ VotesHold(p, h)
      /\ u.trips \in Nat
  BY UnitKinds DEF Sound, Typed
<1>2. u.kind = "core" \/ u.kind = "afc"
  BY <1>1, UnitKinds
<1>3. r.unit.kind = u.kind /\ r.unit.cfg = u.cfg /\ IsUnit(r.unit, Values)
  BY DEF UnitRan
<1>4. CASE r.unit.trips # u.trips
  <2>1. IsUnit(r.unit, Tame) /\ r.out = "zero"
    BY <1>4 DEF UnitRan
  <2>2. SameBlocks(FreshHistory(r.unit), g)
    BY <1>3, <1>4, SameRestart
  <2>3. QED
    BY <1>1, <1>3, <2>1, <2>2, RestartIsSound
<1>5. CASE r.unit.trips = u.trips
  <2>1. SameBlocks(m, g)
    BY <1>5
  <2>2. /\ g \in HistorySet /\ g.heard = m.heard /\ (h.heard => g.heard)
        /\ g.rest = h.rest /\ g.over = h.over /\ g.ahead = h.ahead
    BY <2>1 DEF SameBlocks, Met
  <2>3. Typed(r.unit, p, g)
    BY <1>1, <1>3, <2>2, FreshPolicyType DEF Typed
  <2>4. TameBefore(r.unit, p, g)
    BY <1>1, <2>2 DEF TameBefore, UnitRan, FreshPolicy, Tame
  <2>5. Leaks(r.unit, r.out, g)
    <3>1. ~ g.heard => r.out \in Tame
      BY <2>2 DEF UnitRan
    <3>2. ~ g.heard => Finite(r.out)
      BY <3>1, TamePasses
    <3>3. u.kind = "core" => Finite(r.out)
      BY DEF UnitRan
    <3>4. QED
      BY <1>2, <1>3, <3>2, <3>3 DEF Leaks
  <2>6. WindowsHold(r.unit, g)
    BY <1>3 DEF WindowsHold
  <2>7. CertificateHolds(r.unit, p, g)
    BY <1>1, <1>3 DEF CertificateHolds
  <2>8. RestHolds(p, g)
    BY <1>1, <2>2 DEF RestHolds
  <2>9. VotesHold(p, g)
    BY <1>1, <2>2 DEF VotesHold, OverLeft, AheadLeft
  <2>10. QED
    BY <2>3, <2>4, <2>5, <2>6, <2>7, <2>8, <2>9 DEF Sound
<1>6. QED
  BY <1>4, <1>5

-------------------------------------------------------------------------------
(* The history of a step *)

LEMMA RememberedStep ==
  ASSUME IsUnit(unit, Values), NEW h \in HistorySet, Remembered(h)
  PROVE  SameBlocks(IF unit'.trips # unit.trips THEN FreshHistory(unit) ELSE h, hist')
<1> DEFINE b == IF unit'.trips # unit.trips THEN FreshHistory(unit) ELSE h
           s == Sickness(h)
           i == Illness(h)
<1>1. h.sick \in Nat /\ h.ill \in Nat /\ MaxIll(unit) \in Nat
  BY HushType DEF HistorySet
<1>2. s \in Nat
  BY <1>1 DEF Sickness, UpTo
<1>3. i \in Nat
  BY <1>1 DEF Illness, UpTo
<1>4. b \in HistorySet
  BY FreshHistoryType
<1>5. hist' = [b EXCEPT !.sick = s, !.ill = i]
  BY DEF Remembered
<1> HIDE DEF b, s, i
<1>6. SameBlocks(b, hist')
  BY <1>2, <1>3, <1>4, <1>5 DEF SameBlocks, HistorySet
<1>7. QED
  BY <1>6 DEF b

Recorded(n, streak, earned, rest, over, ahead) ==
  [n EXCEPT !.streak = streak, !.earned = earned, !.rest = rest, !.over = over, !.ahead = ahead]

LEMMA HistoryCounted ==
  ASSUME NEW n \in HistorySet, NEW streak \in 0 .. GuardHold, NEW earned \in BOOLEAN,
         NEW rest \in 0 .. Cooldown, NEW over \in 0 .. RescueHold, NEW ahead \in 0 .. ShadowHold
  PROVE  LET w == Recorded(n, streak, earned, rest, over, ahead)
         IN  /\ w \in HistorySet /\ w.heard = n.heard /\ w.live = n.live /\ w.quiet = n.quiet
             /\ w.streak = streak /\ w.earned = earned /\ w.rest = rest /\ w.over = over /\ w.ahead = ahead
             /\ SameIlls(n, w)
  BY DEF Recorded, HistorySet, SameIlls

\* The history once it has met the block's echo estimate.
Sounded(m, yhat) == [m EXCEPT !.live = @ \/ yhat # "zero", !.quiet = IF yhat # "zero" THEN 0 ELSE @]

LEMMA WatchedStep ==
  ASSUME Typed(unit, pol, hist), NEW x, NEW y \in Values, NEW m, Met(unit, hist, m, x, y),
         y \notin Tame => m.heard,
         NEW yhat, NEW n, n = Sounded(m, yhat),
         NEW ev
  PROVE  /\ Watched(n, ev) \in HistorySet /\ Watched(n, ev).heard = m.heard
         /\ SameIlls(m, Watched(n, ev))
         /\ \A g : SameBlocks(Watched(n, ev), g) =>
                   Observes(unit, hist, g, y, yhat) /\ Counts(unit, pol, pol', hist, g, ev)
<1> DEFINE live == m.live \/ yhat # "zero"
           quiet == IF yhat # "zero" THEN 0 ELSE m.quiet
           certified == Certified(ev) /\ (n.live \/ (Hush(unit) > 0 /\ n.quiet = Hush(unit)))
           streak == IF certified /\ ~ n.earned THEN UpTo(n.streak, GuardHold) ELSE 0
           earned == n.earned \/ (certified /\ UpTo(n.streak, GuardHold) = GuardHold)
           rest == UpTo(IF pol.lifted = "no" THEN n.rest ELSE 0, Cooldown)
           left == IF pol.lifted = "no" THEN n.over ELSE 0
           votes == IF pol.lifted = "shadow" THEN 0 ELSE n.ahead
           over == IF n.heard THEN 0
                   ELSE IF Converged(pol', unit.cfg.guard) /\ SeesOver(ev) THEN UpTo(left, RescueHold) ELSE left
           ahead == IF n.heard THEN 0
                    ELSE IF Converged(pol', unit.cfg.guard) /\ SeesAhead(ev) THEN UpTo(votes, ShadowHold) ELSE votes
           w == Watched(n, ev)
<1>1. m \in HistorySet /\ m.live \in BOOLEAN /\ m.quiet \in Nat
  BY DEF Met, HistorySet
<1>2. live \in BOOLEAN /\ quiet \in Nat
  BY <1>1
<1>3. n = [m EXCEPT !.live = live, !.quiet = quiet]
  BY <1>1 DEF Sounded
<1> HIDE DEF live, quiet
<1>4. /\ n \in HistorySet /\ n.live = live /\ n.quiet = quiet /\ n.heard = m.heard /\ n.streak = m.streak
      /\ n.earned = m.earned /\ n.rest = m.rest /\ n.over = m.over /\ n.ahead = m.ahead
      /\ SameIlls(m, n)
  BY <1>1, <1>2, <1>3 DEF HistorySet, SameIlls
<1>5. /\ GuardHold \in Nat \ {0} /\ Cooldown \in Nat \ {0} /\ RescueHold \in Nat \ {0} /\ ShadowHold \in Nat \ {0}
      /\ n.streak \in 0 .. GuardHold /\ n.rest \in 0 .. Cooldown /\ n.over \in 0 .. RescueHold
      /\ n.ahead \in 0 .. ShadowHold /\ n.earned \in BOOLEAN
  BY <1>4, HoldsAssumption DEF HistorySet
<1>6. streak \in 0 .. GuardHold /\ rest \in 0 .. Cooldown
  BY <1>5 DEF UpTo
<1>7. over \in 0 .. RescueHold /\ ahead \in 0 .. ShadowHold
  BY <1>5 DEF UpTo
<1>8. earned \in BOOLEAN
  BY <1>5
<1>9. w = Recorded(n, streak, earned, rest, over, ahead)
  BY DEF Watched, Recorded
<1> HIDE DEF streak, earned, rest, over, ahead, w
<1>10. /\ w \in HistorySet /\ w.heard = n.heard /\ w.live = n.live /\ w.quiet = n.quiet
       /\ w.streak = streak /\ w.earned = earned /\ w.rest = rest /\ w.over = over /\ w.ahead = ahead
       /\ SameIlls(m, w)
  BY <1>4, <1>6, <1>7, <1>8, <1>9, HistoryCounted DEF SameIlls
<1> SUFFICES ASSUME NEW g, SameBlocks(w, g)
             PROVE  Observes(unit, hist, g, y, yhat) /\ Counts(unit, pol, pol', hist, g, ev)
  BY <1>4, <1>10 DEF w
<1>11. /\ g \in HistorySet /\ g.heard = m.heard /\ g.live = live /\ g.quiet = quiet
       /\ g.streak = streak /\ g.earned = earned /\ g.rest = rest /\ g.over = over /\ g.ahead = ahead
  BY <1>4, <1>10 DEF SameBlocks
<1>12. Observes(unit, hist, g, y, yhat)
  BY <1>11 DEF Observes, Met, live, quiet
<1>13. certified = (Certified(ev) /\ Heeded(unit, g))
  BY <1>4, <1>11 DEF Heeded
<1> HIDE DEF certified
<1>14. /\ g.earned = (hist.earned \/ (certified /\ UpTo(hist.streak, GuardHold) = GuardHold))
       /\ g.streak = IF certified /\ ~ hist.earned THEN UpTo(hist.streak, GuardHold) ELSE 0
  BY <1>4, <1>11 DEF Met, earned, streak
<1>15. g.rest = UpTo(IF pol.lifted = "no" THEN hist.rest ELSE 0, Cooldown)
  BY <1>4, <1>11 DEF Met, rest
<1>16. ~ g.heard =>
         /\ g.over = IF Converged(pol', unit.cfg.guard) /\ SeesOver(ev)
                     THEN UpTo(OverLeft(pol, hist), RescueHold) ELSE OverLeft(pol, hist)
         /\ g.ahead = IF Converged(pol', unit.cfg.guard) /\ SeesAhead(ev)
                      THEN UpTo(AheadLeft(pol, hist), ShadowHold) ELSE AheadLeft(pol, hist)
  BY <1>4, <1>11 DEF Met, over, ahead, OverLeft, AheadLeft
<1>17. Counts(unit, pol, pol', hist, g, ev)
  BY <1>13, <1>14, <1>15, <1>16 DEF Counts
<1>18. QED
  BY <1>12, <1>17

-------------------------------------------------------------------------------
(* The steps *)

LEMMA AloneRuns ==
  ASSUME NEW V \in Grades, IsUnit(unit, V), unit.kind # "aec",
         NEW x \in V, NEW y \in V, NEW r \in Results(x, y)
  PROVE  UnitRan(unit, r, V)
<1>1. CASE unit.kind = "core"
  <2>1. PICK k \in Chances(x, y) : r = CoreUnitBlock(unit, x, y, k)
    BY <1>1 DEF Results
  <2>2. QED
    BY <1>1, <2>1, BareRuns
<1>2. CASE unit.kind = "afc"
  <2>1. PICK k \in Chances(x, y) : r = PemBlock(unit, x, y, k)
    BY <1>2 DEF Results
  <2>2. QED
    BY <1>2, <2>1, PemUnitRuns
<1>3. QED
  BY <1>1, <1>2, UnitKinds

LEMMA ChainRuns ==
  ASSUME NEW V \in Grades, IsUnit(unit, V), unit.kind = "aec",
         NEW x \in V, NEW y \in V, NEW r \in Results(x, y)
  PROVE  AecRan(unit.cfg, unit, r, y, V)
<1>1. PICK k \in Chances(x, y) : r = AecBlock(unit, x, y, k)
  BY DEF Results
<1>2. unit \in AecSet(unit.cfg, V) /\ ValidAec(unit.cfg)
  BY UnitKinds DEF IsAec
<1>3. QED
  BY <1>1, <1>2, AecRuns

\* A block of a unit without a policy.
LEMMA AloneStep ==
  ASSUME HostInv, unit.kind # "aec", NEW x \in Values, NEW y \in Values,
         NEW r \in Results(x, y), NEW m, Met(unit, hist, m, x, y), HistoryAlone(m, r)
  PROVE  HostInv' /\ (StageTripped => StartsAfresh)
<1>1. Typed(unit, pol, hist) /\ IsUnit(unit, Values) /\ pol = FreshPolicy
  BY DEF HostInv, Sound, Typed
<1>2. unit' = r.unit /\ out' = r.out /\ pol' = pol /\ Remembered(m)
  BY DEF HistoryAlone, ProcessAlone
<1>3. UnitRan(unit, r, Values)
  BY <1>1, ValuesGrade, AloneRuns
<1>4. ~ m.heard => UnitRan(unit, r, Tame)
  <2> SUFFICES ASSUME ~ m.heard PROVE UnitRan(unit, r, Tame)
    OBVIOUS
  <2>1. x \in Tame /\ y \in Tame /\ ~ hist.heard
    BY DEF Met, Values, Tame, Bad
  <2>2. IsUnit(unit, Tame)
    BY <2>1 DEF HostInv, Sound, TameBefore
  <2>3. QED
    BY <2>1, <2>2, ValuesGrade, AloneRuns
<1>5. SameBlocks(IF r.unit.trips # unit.trips THEN FreshHistory(unit) ELSE m, hist')
  BY <1>1, <1>2, RememberedStep DEF Met
<1>6. Sound(unit, pol, out, hist)
  BY DEF HostInv
<1>7. Sound(r.unit, pol, r.out, hist')
  BY <1>3, <1>4, <1>5, <1>6, AloneIsSound
<1>8. HostInv'
  BY <1>2, <1>7 DEF HostInv
<1>9. StageTripped => StartsAfresh
  BY <1>1, <1>2, <1>3 DEF UnitRan, StageTripped, StartsAfresh
<1>10. QED
  BY <1>8, <1>9

\* A block of the chain.
LEMMA ChainStep ==
  ASSUME HostInv, unit.kind = "aec", NEW x \in Values, NEW y \in Values,
         NEW r \in Results(x, y), NEW d \in Decisions(r, x),
         NEW m, Met(unit, hist, m, x, y), HistoryAec(m, r, Evidence(r, x, d))
  PROVE  HostInv' /\ (StageTripped => StartsAfresh)
<1> DEFINE ev == Evidence(r, x, d)
           n == Sounded(m, r.yhat)
<1>1. Typed(unit, pol, hist) /\ IsUnit(unit, Values) /\ Sound(unit, pol, out, hist)
  BY DEF HostInv, Sound, Typed
<1>2. /\ pol' = IF r.tripped THEN FreshPolicy ELSE Policed(pol, ev, unit.cfg.guard)
      /\ unit' = IF pol'.lifted = "no" THEN r.unit ELSE LiftedAec(r.unit)
      /\ out' = r.out
      /\ Remembered(Watched(n, ev))
  BY DEF HistoryAec, ProcessAec, Sounded
<1>3. AecRan(unit.cfg, unit, r, y, Values)
  BY <1>1, ValuesGrade, ChainRuns
<1>4. /\ ev.x = x /\ ev.mid = r.mid /\ ev.shadow_e = r.shadow_e /\ ev.explained \in r.explained
  BY DEF Evidence, Decisions
<1> HIDE DEF ev, n
<1>5. y \notin Tame => m.heard
  BY DEF Met, Values, Tame, Bad
<1>6. /\ Watched(n, ev) \in HistorySet /\ Watched(n, ev).heard = m.heard
      /\ \A g : SameBlocks(Watched(n, ev), g) =>
                  Observes(unit, hist, g, y, r.yhat) /\ Counts(unit, pol, pol', hist, g, ev)
  BY <1>1, <1>5, WatchedStep DEF n
<1>7. SameBlocks(IF unit'.trips # unit.trips THEN FreshHistory(unit) ELSE Watched(n, ev), hist')
  BY <1>1, <1>2, <1>6, RememberedStep
<1>8. CASE AecTripped(unit.cfg, unit, r)
  <2>1. pol' = FreshPolicy /\ unit' = r.unit /\ unit.trips \in Nat /\ r.unit.trips = unit.trips + 1
    BY <1>1, <1>2, <1>8, UnitKinds DEF AecTripped, FreshPolicy
  <2>2. SameBlocks(FreshHistory(unit), hist')
    BY <1>7, <2>1
  <2>3. Sound(r.unit, FreshPolicy, r.out, hist')
    BY <1>1, <1>8, <2>2, TripIsSound
  <2>4. HostInv'
    BY <1>2, <2>1, <2>3 DEF HostInv
  <2>5. unit'.kind = "aec"
    BY <1>8, <2>1 DEF AecTripped, AecSet
  <2>6. StartsAfresh
    BY <1>2, <1>3, <1>8, <2>1, <2>5 DEF StartsAfresh, AecTripped, AecRan, ResetUnit
  <2>7. QED
    BY <2>4, <2>6
<1>9. CASE AecPassed(unit.cfg, unit, r, y, Values)
  <2>1. pol' = Policed(pol, ev, unit.cfg.guard) /\ Passes(unit, r, y, Values)
    BY <1>2, <1>3, <1>9 DEF AecPassed, AecRan, Passes
  <2>2. /\ unit'.trips = r.unit.trips /\ unit'.post = r.unit.post
        /\ unit'.core.trips = r.unit.core.trips
    BY <1>2, <2>1, ValuesGrade, AecLifts DEF Passes
  <2>3. unit'.trips = unit.trips /\ unit'.post.trips = unit.post.trips /\ unit'.core.trips = unit.core.trips
    BY <1>9, <2>2 DEF AecPassed
  <2>4. SameBlocks(Watched(n, ev), hist')
    BY <1>7, <2>3
  <2>5. Observes(unit, hist, hist', y, r.yhat) /\ Counts(unit, pol, pol', hist, hist', ev)
    BY <1>6, <2>4
  <2>6. hist'.heard = m.heard
    BY <1>6, <2>4 DEF SameBlocks
  <2>7. ~ m.heard => Passes(unit, r, y, Tame)
    <3> SUFFICES ASSUME ~ m.heard PROVE Passes(unit, r, y, Tame)
      OBVIOUS
    <3>1. x \in Tame /\ y \in Tame /\ ~ hist.heard
      BY DEF Met, Values, Tame, Bad
    <3>2. IsUnit(unit, Tame)
      BY <1>1, <3>1 DEF Sound, TameBefore
    <3>3. AecRan(unit.cfg, unit, r, y, Tame)
      BY <3>1, <3>2, ValuesGrade, ChainRuns
    <3>4. ~ AecTripped(unit.cfg, unit, r)
      BY <1>9 DEF AecPassed, AecTripped
    <3>5. QED
      BY <3>3, <3>4 DEF AecRan, Passes
  <2>8. Sound(unit', pol', r.out, hist')
    BY <1>1, <1>2, <1>4, <2>1, <2>5, <2>6, <2>7, PassedIsSound
  <2>9. HostInv' /\ ~ StageTripped
    BY <1>2, <2>3, <2>8 DEF HostInv, StageTripped
  <2>10. QED
    BY <2>9
<1>10. QED
  BY <1>3, <1>8, <1>9 DEF AecRan

\* What the history makes of a faulty block.
Marked(u, h, m, x, y) ==
  /\ m.sick = h.sick
  /\ m.ill = IF {x, y} \cap Bad # {} THEN 0 ELSE h.ill
  /\ m.frozen = (h.frozen \/ ({x, y} \cap Bad # {} /\ ~ u.core.adapt))

LEMMA BlockMeets ==
  ASSUME HostInv, NEW x \in Values, NEW y \in Values, HProcessBlock(x, y)
  PROVE  \E r, m :
           /\ r \in Results(x, y)
           /\ Met(unit, hist, m, x, y) /\ Marked(unit, hist, m, x, y)
           /\ \/ unit.kind # "aec" /\ HistoryAlone(m, r)
              \/ unit.kind = "aec" /\ \E d \in Decisions(r, x) : HistoryAec(m, r, Evidence(r, x, d))
<1> DEFINE faulty == {x, y} \cap Bad # {}
           heard == hist.heard \/ faulty
           quiet == IF y = "zero" THEN UpTo(hist.quiet, Hush(unit)) ELSE 0
           ill == IF faulty THEN 0 ELSE hist.ill
           frozen == hist.frozen \/ (faulty /\ ~ unit.core.adapt)
           m == [hist EXCEPT !.heard = heard, !.quiet = quiet, !.ill = ill, !.frozen = frozen]
<1>1. hist \in HistorySet /\ IsUnit(unit, Values)
  BY DEF HostInv, Sound, Typed
<1>2. heard \in BOOLEAN /\ quiet \in Nat /\ ill \in Nat /\ frozen \in BOOLEAN
  <2>1. /\ hist.heard \in BOOLEAN /\ hist.frozen \in BOOLEAN /\ hist.quiet \in Nat /\ hist.ill \in Nat
        /\ Hush(unit) \in Nat
    BY <1>1, HushType DEF HistorySet
  <2>2. quiet \in Nat
    BY <2>1 DEF UpTo
  <2>3. QED
    BY <2>1, <2>2
<1>3. PICK r \in Results(x, y) :
        \/ HistoryAlone(m, r)
        \/ unit.kind = "aec" /\ \E d \in Decisions(r, x) : HistoryAec(m, r, Evidence(r, x, d))
  BY DEF HProcessBlock
<1> HIDE DEF heard, quiet, ill, frozen
<1>4. /\ m \in HistorySet /\ m.heard = heard /\ m.quiet = quiet /\ m.ill = ill /\ m.frozen = frozen
      /\ m.live = hist.live /\ m.streak = hist.streak /\ m.earned = hist.earned
      /\ m.rest = hist.rest /\ m.over = hist.over /\ m.ahead = hist.ahead /\ m.sick = hist.sick
  BY <1>1, <1>2 DEF HistorySet
<1> HIDE DEF m
<1>5. Met(unit, hist, m, x, y)
  BY <1>4 DEF Met, heard, quiet
<1>6. Marked(unit, hist, m, x, y)
  BY <1>4 DEF Marked, ill, frozen
<1>7. HistoryAlone(m, r) => unit.kind # "aec"
  BY DEF HistoryAlone, ProcessAlone
<1>8. QED
  BY <1>3, <1>5, <1>6, <1>7

LEMMA BlockStep ==
  ASSUME HostInv, NEW x \in Values, NEW y \in Values, HProcessBlock(x, y)
  PROVE  HostInv' /\ (StageTripped => StartsAfresh)
  BY BlockMeets, AloneStep, ChainStep

\* What a block of the chain turns into: the stages' result, the policy on the
\* evidence, and the history.
Turned(x, y, r, ev, h) ==
  /\ unit' = IF pol'.lifted = "no" THEN r.unit ELSE LiftedAec(r.unit)
  /\ pol' = IF r.tripped THEN FreshPolicy ELSE Policed(pol, ev, unit.cfg.guard)
  /\ ev.x = x /\ ev.mid = r.mid /\ ev.shadow_e = r.shadow_e
  /\ h \in HistorySet /\ Remembered(h)
  /\ h.heard = (hist.heard \/ {x, y} \cap Bad # {}) /\ Marked(unit, hist, h, x, y)

LEMMA ChainTurns ==
  ASSUME HostInv, unit.kind = "aec", NEW x \in Values, NEW y \in Values, HProcessBlock(x, y)
  PROVE  \E r, ev, h : r \in Results(x, y) /\ Turned(x, y, r, ev, h)
<1>1. PICK r, m :
        /\ r \in Results(x, y)
        /\ Met(unit, hist, m, x, y) /\ Marked(unit, hist, m, x, y)
        /\ \E d \in Decisions(r, x) : HistoryAec(m, r, Evidence(r, x, d))
  BY BlockMeets
<1>2. PICK d \in Decisions(r, x) : HistoryAec(m, r, Evidence(r, x, d))
  BY <1>1
<1> DEFINE ev == Evidence(r, x, d)
           n == Sounded(m, r.yhat)
           h == Watched(n, ev)
<1>3. /\ unit' = IF pol'.lifted = "no" THEN r.unit ELSE LiftedAec(r.unit)
      /\ pol' = IF r.tripped THEN FreshPolicy ELSE Policed(pol, ev, unit.cfg.guard)
      /\ Remembered(h)
  BY <1>2 DEF HistoryAec, ProcessAec, Sounded
<1>4. ev.x = x /\ ev.mid = r.mid /\ ev.shadow_e = r.shadow_e
  BY DEF Evidence
<1> HIDE DEF ev
<1>5. Typed(unit, pol, hist)
  BY DEF HostInv, Sound
<1>6. y \notin Tame => m.heard
  BY <1>1 DEF Met, Values, Tame, Bad
<1>7. h \in HistorySet /\ h.heard = m.heard /\ SameIlls(m, h)
  BY <1>1, <1>5, <1>6, WatchedStep
<1> HIDE DEF h, n
<1>8. h.heard = (hist.heard \/ {x, y} \cap Bad # {})
  BY <1>1, <1>7 DEF Met
<1>9. Marked(unit, hist, h, x, y)
  BY <1>1, <1>7 DEF Marked, SameIlls
<1>10. Turned(x, y, r, ev, h)
  BY <1>3, <1>4, <1>7, <1>8, <1>9 DEF Turned
<1>11. QED
  BY <1>1, <1>10

\* How a block leaves the core of the unit: it runs on, or starts afresh.
Continues(u, t) ==
  \/ u.core.adapt => /\ Finite(u.core.h)
                     /\ Poisoned(u.core) => Paused(t.core) \/ ~ Finite(t.core.h)
  \/ ~ Poisoned(t.core)

LEMMA ExposedContinues ==
  ASSUME NEW u, NEW t, t.core.trips = u.core.trips, u.core.adapt => Exposed(u.core, t.core)
  PROVE  Continues(u, t)
  BY DEF Continues, Exposed

LEMMA TrippedContinues ==
  ASSUME NEW u, NEW t, IsUnit(t, Values), t = ResetUnit(t)
  PROVE  Continues(u, t)
<1>1. t.core = ResetCore(t.core)
  BY UnitResets, ValuesGrade
<1>2. QED
  BY <1>1, ResetIsWell DEF Continues

\* A lift raises an uncertainty of zero, and no other value.
LEMMA LiftContinues ==
  ASSUME NEW cfg, NEW u, NEW t \in AecSet(cfg, Values), Continues(u, t)
  PROVE  Continues(u, LiftedAec(t))
<1> DEFINE c == Reinflated(t.core)
           v == IF t.core.p = "zero" THEN "fin" ELSE t.core.p
<1>1. t.core \in KalmanSet(cfg.core, Values) /\ {"h", "p", "nb", "cfg"} \subseteq DOMAIN t.core
  BY DEF AecSet, KalmanSet
<1>2. c = [t.core EXCEPT !.p = v]
  BY <1>1 DEF Reinflated
<1> HIDE DEF v, c
<1>3. c.h = t.core.h /\ c.nb = t.core.nb /\ c.cfg = t.core.cfg /\ c.p = v
  BY <1>1, <1>2
<1>4. Finite(v) = Finite(t.core.p)
  BY DEF v, Finite
<1>5. LiftedAec(t).core = c
  BY DEF LiftedAec, AecSet, c
<1>6. QED
  BY <1>3, <1>4, <1>5 DEF Continues, Poisoned, Paused

\* A block of any unit: what it does to the core, and what is remembered.
LEMMA BlockTurns ==
  ASSUME HostInv, NEW x \in Values, NEW y \in Values, HProcessBlock(x, y)
  PROVE  /\ Continues(unit, unit') /\ unit'.core.adapt = unit.core.adapt
         /\ \E h \in HistorySet : Remembered(h) /\ h.sick = hist.sick
<1> USE ValuesGrade
<1>1. IsUnit(unit, Values)
  BY DEF HostInv, Sound, Typed
<1>2. CASE unit.kind # "aec"
  <2>1. PICK r, m :
          r \in Results(x, y) /\ Met(unit, hist, m, x, y) /\ Marked(unit, hist, m, x, y) /\ HistoryAlone(m, r)
    BY <1>2, BlockMeets
  <2>2. unit' = r.unit /\ Remembered(m)
    BY <2>1 DEF HistoryAlone, ProcessAlone
  <2>3. UnitRan(unit, r, Values)
    BY <1>1, <1>2, <2>1, AloneRuns
  <2>4. Continues(unit, r.unit)
    BY <2>3, ExposedContinues, TrippedContinues DEF UnitRan
  <2>5. QED
    BY <2>1, <2>2, <2>3, <2>4 DEF UnitRan, Met, Marked
<1>3. CASE unit.kind = "aec"
  <2>1. PICK r, ev, h : r \in Results(x, y) /\ Turned(x, y, r, ev, h)
    BY <1>3, ChainTurns
  <2>2. AecRan(unit.cfg, unit, r, y, Values)
    BY <1>1, <1>3, <2>1, ChainRuns
  <2>3. Continues(unit, r.unit)
    <3>1. CASE AecPassed(unit.cfg, unit, r, y, Values)
      BY <3>1, ExposedContinues DEF AecPassed
    <3>2. CASE AecTripped(unit.cfg, unit, r)
      <4>1. r.unit.core = ResetKalman(r.unit.core) /\ r.unit.core.cfg.core = "kalman"
        <5>1. IsAec(unit, Values) /\ r.unit \in AecSet(unit.cfg, Values)
          BY <1>1, <1>3, <2>2, UnitKinds DEF AecRan
        <5>2. r.unit.core.cfg = unit.cfg.core /\ unit.cfg.core.core = "kalman"
          BY <5>1 DEF IsAec, AecSet, KalmanSet, ValidAec, ValidKalman, KalmanConfig
        <5>3. ResetAec(r.unit).core = ResetKalman(r.unit.core)
          BY <5>1, AecResets DEF IsAec
        <5>4. QED
          BY <3>2, <5>2, <5>3 DEF AecTripped
      <4>2. r.unit.core = ResetCore(r.unit.core)
        BY <4>1 DEF ResetCore
      <4>3. QED
        BY <4>2, ResetIsWell DEF Continues
    <3>3. QED
      BY <2>2, <3>1, <3>2 DEF AecRan
  <2>4. r.unit \in AecSet(unit.cfg, Values)
    BY <2>2 DEF AecRan
  <2>5. Continues(unit, unit') /\ unit'.core.adapt = unit.core.adapt
    BY <2>1, <2>2, <2>3, <2>4, LiftContinues, AecLifts DEF AecRan, Turned
  <2>6. QED
    BY <2>1, <2>5 DEF Turned, Marked
<1>4. QED
  BY <1>2, <1>3

\* Neither the switch nor the history of a switched core changes a block.
LEMMA SwitchedUnit ==
  ASSUME NEW V, NEW u, IsUnit(u, V), NEW enabled \in BOOLEAN
  PROVE  LET t == [u EXCEPT !.core.adapt = enabled]
         IN  /\ IsUnit(t, V) /\ t.kind = u.kind /\ t.cfg = u.cfg /\ t.trips = u.trips
             /\ t.core.trips = u.core.trips
             /\ u.kind = "aec" => t.post = u.post
<1> DEFINE c == [u.core EXCEPT !.adapt = enabled]
           t == [u EXCEPT !.core = c]
<1>1. ASSUME NEW cfg, u.core \in CoreSet(cfg, V) PROVE c \in CoreSet(cfg, V) /\ c.trips = u.core.trips
  BY <1>1 DEF CoreSet, KalmanSet, FdafSet
<1>2. ASSUME NEW cfg, u.core \in KalmanSet(cfg, V) PROVE c \in KalmanSet(cfg, V) /\ c.trips = u.core.trips
  BY <1>2 DEF KalmanSet
<1> HIDE DEF c
<1>3. CASE IsBare(u, V)
  <2>1. t \in BareSet(u.cfg, V) /\ t.kind = u.kind /\ t.cfg = u.cfg /\ t.trips = u.trips /\ t.core = c
    BY <1>1, <1>3 DEF IsBare, BareSet
  <2>2. u.kind = "core" /\ c.trips = u.core.trips
    BY <1>1, <1>3 DEF IsBare, BareSet
  <2>3. QED
    BY <1>3, <2>1, <2>2 DEF IsUnit, IsBare, c
<1>4. CASE IsPem(u, V)
  <2>1. t \in PemSet(u.cfg, V) /\ t.kind = u.kind /\ t.cfg = u.cfg /\ t.trips = u.trips /\ t.core = c
    BY <1>1, <1>4 DEF IsPem, PemSet
  <2>2. u.kind = "afc" /\ c.trips = u.core.trips
    BY <1>1, <1>4 DEF IsPem, PemSet
  <2>3. QED
    BY <1>4, <2>1, <2>2 DEF IsUnit, IsPem, c
<1>5. CASE IsAec(u, V)
  <2>1. /\ t \in AecSet(u.cfg, V) /\ t.kind = u.kind /\ t.cfg = u.cfg /\ t.trips = u.trips /\ t.core = c
        /\ t.post = u.post
    BY <1>2, <1>5 DEF IsAec, AecSet
  <2>2. c.trips = u.core.trips
    BY <1>2, <1>5 DEF IsAec, AecSet
  <2>3. QED
    BY <1>5, <2>1, <2>2 DEF IsUnit, IsAec, c
<1>6. QED
  BY <1>3, <1>4, <1>5 DEF IsUnit

LEMMA SwitchStep ==
  ASSUME HostInv, HSetAdaptation
  PROVE  HostInv' /\ ~ StageTripped
<1>1. PICK enabled \in BOOLEAN : unit' = [unit EXCEPT !.core.adapt = enabled]
  BY DEF HSetAdaptation, SetAdaptation
<1>2. pol' = pol /\ out' = out
  BY DEF HSetAdaptation, SetAdaptation
<1>3. Sound(unit, pol, out, hist)
  BY DEF HostInv
<1>4. /\ IsUnit(unit', Values) /\ unit'.kind = unit.kind /\ unit'.cfg = unit.cfg
      /\ unit'.core.trips = unit.core.trips
      /\ unit.kind = "aec" => unit'.post = unit.post
      /\ IsUnit(unit, Tame) => IsUnit(unit', Tame)
  BY <1>1, <1>3, SwitchedUnit DEF Sound, Typed
<1>5. /\ hist' \in HistorySet
      /\ hist'.heard = hist.heard /\ hist'.live = hist.live /\ hist'.quiet = hist.quiet
      /\ hist'.streak = hist.streak /\ hist'.earned = hist.earned
      /\ hist'.rest = hist.rest /\ hist'.over = hist.over /\ hist'.ahead = hist.ahead
  BY <1>3 DEF HSetAdaptation, Sound, Typed, HistorySet
<1>6. Typed(unit', pol', hist') /\ TameBefore(unit', pol', hist')
  BY <1>2, <1>3, <1>4, <1>5 DEF Sound, Typed, TameBefore
<1>7. Leaks(unit', out', hist')
  BY <1>2, <1>3, <1>4, <1>5 DEF Sound, Leaks
<1>8. WindowsHold(unit', hist')
  BY <1>3, <1>4, <1>5 DEF Sound, WindowsHold
<1>9. CertificateHolds(unit', pol', hist')
  BY <1>2, <1>3, <1>4, <1>5 DEF Sound, CertificateHolds
<1>10. RestHolds(pol', hist') /\ VotesHold(pol', hist')
  BY <1>2, <1>3, <1>5 DEF Sound, RestHolds, VotesHold, OverLeft, AheadLeft
<1>11. ~ StageTripped
  BY <1>4 DEF StageTripped
<1>12. QED
  BY <1>6, <1>7, <1>8, <1>9, <1>10, <1>11 DEF HostInv, Sound

LEMMA ResetKeepsTrips ==
  ASSUME NEW u, IsUnit(u, Values)
  PROVE  /\ ResetCore(u.core).trips = u.core.trips
         /\ u.kind = "aec" => ResetPost(u.post).trips = u.post.trips
<1> USE ValuesGrade
<1>1. PICK cfg : u.core \in CoreSet(cfg, Values)
  <2>1. CASE IsBare(u, Values)
    BY <2>1 DEF IsBare, BareSet
  <2>2. CASE IsPem(u, Values)
    BY <2>2 DEF IsPem, PemSet
  <2>3. CASE IsAec(u, Values)
    <3>1. u.core \in KalmanSet(u.cfg.core, Values) /\ u.cfg.core.core = "kalman"
      BY <2>3 DEF IsAec, AecSet, ValidAec, ValidKalman, KalmanConfig
    <3>2. QED
      BY <3>1 DEF CoreSet
  <2>4. QED
    BY <2>1, <2>2, <2>3 DEF IsUnit
<1>2. ResetCore(u.core).trips = u.core.trips
  BY <1>1, CoreResets DEF SameRun
<1>3. ASSUME u.kind = "aec" PROVE ResetPost(u.post).trips = u.post.trips
  <2>1. IsAec(u, Values)
    BY <1>3, UnitKinds
  <2>2. u.post \in PostSet(u.cfg.post, Values) /\ ValidAec(u.cfg)
    BY <2>1 DEF IsAec, AecSet
  <2>3. QED
    BY <2>2, AecConfigured, PostResets
<1>4. QED
  BY <1>2, <1>3

LEMMA ResetStep ==
  ASSUME HostInv, HReset
  PROVE  HostInv' /\ ~ StageTripped
<1> USE ValuesGrade
<1>1. unit' = ResetUnit(unit) /\ pol' = FreshPolicy /\ out' = "zero" /\ hist' = FreshHistory(unit)
  BY DEF HReset, Reset
<1>2. IsUnit(unit, Values)
  BY DEF HostInv, Sound, Typed
<1>3. /\ IsUnit(unit', Tame) /\ unit'.kind = unit.kind /\ unit'.cfg = unit.cfg
      /\ unit'.core = ResetCore(unit.core)
      /\ unit.kind = "aec" => unit'.post = ResetPost(unit.post)
  BY <1>1, <1>2, UnitResets
<1>4. unit.kind = "aec" => Blank(unit'.cfg.post, unit'.post)
  <2> SUFFICES ASSUME unit.kind = "aec" PROVE Blank(unit'.cfg.post, unit'.post)
    OBVIOUS
  <2>1. unit.post \in PostSet(unit.cfg.post, Values)
    BY <1>2, UnitKinds DEF IsAec, AecSet
  <2>2. QED
    BY <1>3, <2>1, ResetIsBlank
<1>5. SameBlocks(FreshHistory(unit'), hist')
  BY <1>1, <1>2, <1>3, SameRestart, FreshHistoryType DEF SameBlocks
<1>6. Sound(unit', FreshPolicy, "zero", hist')
  BY <1>3, <1>4, <1>5, RestartIsSound
<1>7. ~ StageTripped
  BY <1>2, <1>3, ResetKeepsTrips DEF StageTripped
<1>8. QED
  BY <1>1, <1>6, <1>7 DEF HostInv

LEMMA InitIsSound == ASSUME HInit PROVE HostInv
<1> USE ValuesGrade
<1>1. unit \in Units /\ pol = FreshPolicy /\ out = "zero" /\ hist = FreshHistory(unit)
  BY DEF HInit, Init
<1>2. IsUnit(unit, Tame) /\ IsUnit(unit, Values) /\ (unit.kind = "aec" => unit = Aec(unit.cfg))
  BY <1>1, UnitFresh
<1>3. unit.kind = "aec" => Blank(unit.cfg.post, unit.post)
  <2> SUFFICES ASSUME unit.kind = "aec" PROVE Blank(unit.cfg.post, unit.post)
    OBVIOUS
  <2>1. Aec(unit.cfg).post = Post(unit.cfg.post)
    BY DEF Aec
  <2>2. unit.post = Post(unit.cfg.post)
    BY <1>2, <2>1
  <2>3. QED
    BY <2>2, FreshIsBlank
<1>4. SameBlocks(FreshHistory(unit), hist)
  BY <1>1, <1>2, FreshHistoryType DEF SameBlocks
<1>5. QED
  BY <1>1, <1>2, <1>3, <1>4, RestartIsSound DEF HostInv

LEMMA HostStep ==
  ASSUME HostInv, [HNext]_hvars
  PROVE  HostInv' /\ (StageTripped => StartsAfresh)
<1>1. Ordinary \cup Faulty \subseteq Values \X Values
  BY DEF Ordinary, Faulty, Bad, Values
<1>2. CASE HProcessOrdinary
  <2>1. PICK b \in Ordinary : HProcessBlock(b[1], b[2])
    BY <1>2 DEF HProcessOrdinary
  <2>2. b[1] \in Values /\ b[2] \in Values
    BY <1>1
  <2>3. QED
    BY <2>1, <2>2, BlockStep
<1>3. CASE HProcessFaulty
  <2>1. PICK b \in Faulty : HProcessBlock(b[1], b[2])
    BY <1>3 DEF HProcessFaulty
  <2>2. b[1] \in Values /\ b[2] \in Values
    BY <1>1
  <2>3. QED
    BY <2>1, <2>2, BlockStep
<1>4. CASE HSetAdaptation
  BY <1>4, SwitchStep
<1>5. CASE HReset
  BY <1>5, ResetStep
<1>6. CASE UNCHANGED hvars
  BY <1>6 DEF hvars, HostInv, StageTripped
<1>7. QED
  BY <1>2, <1>3, <1>4, <1>5, <1>6 DEF HNext

-------------------------------------------------------------------------------
(* A poisoned core shows *)

\* Once an adapting core has been poisoned for a block that updated, its
\* uncertainty or its weights are not numbers; for two, its weights are not.
SickInv ==
  /\ hist.sick \in 0 .. 2
  /\ hist.sick # 0 => Poisoned(unit.core)
  /\ hist.sick = 2 => ~ Finite(unit.core.h) /\ unit.core.adapt

LEMMA SickBlockStep ==
  ASSUME HostInv, SickInv, NEW x \in Values, NEW y \in Values, HProcessBlock(x, y)
  PROVE  SickInv'
<1> DEFINE c == unit.core
           d == unit'.core
<1>1. /\ Continues(unit, unit') /\ d.adapt = c.adapt
      /\ \E h \in HistorySet : Remembered(h) /\ h.sick = hist.sick
  BY BlockTurns
<1>2. PICK h \in HistorySet : Remembered(h) /\ h.sick = hist.sick
  BY <1>1
<1> DEFINE b == IF unit'.trips # unit.trips THEN FreshHistory(unit) ELSE h
           s == Sickness(h)
           i == Illness(h)
<1>3. hist'.sick = s
  <2>1. b \in HistorySet
    BY FreshHistoryType DEF HostInv, Sound, Typed
  <2>2. hist' = [b EXCEPT !.sick = s, !.ill = i]
    BY <1>2 DEF Remembered
  <2> HIDE DEF b, s, i
  <2>3. QED
    BY <2>1, <2>2 DEF HistorySet
<1>4. CASE ~ (d.adapt /\ Poisoned(d))
  <2>1. s = 0
    BY <1>4 DEF Sickness
  <2>2. QED
    BY <1>3, <2>1 DEF SickInv
<1>5. CASE d.adapt /\ Poisoned(d)
  <2>1. Finite(c.h) /\ (Poisoned(c) => Paused(d) \/ ~ Finite(d.h))
    BY <1>1, <1>5 DEF Continues
  <2>2. hist.sick \in {0, 1}
    BY <2>1 DEF SickInv
  <2>3. CASE Paused(d)
    <3>1. s = hist.sick
      BY <1>2, <1>5, <2>3 DEF Sickness, Holding, Paused
    <3>2. QED
      BY <1>3, <1>5, <2>2, <3>1 DEF SickInv
  <2>4. CASE ~ Paused(d)
    <3>1. s = hist.sick + 1
      BY <1>2, <1>5, <2>2, <2>4 DEF Sickness, Holding, Paused, UpTo
    <3>2. hist.sick = 1 => ~ Finite(d.h)
      BY <2>1, <2>4 DEF SickInv
    <3>3. QED
      BY <1>3, <1>5, <2>2, <3>1, <3>2 DEF SickInv
  <2>5. QED
    BY <2>3, <2>4
<1>6. QED
  BY <1>4, <1>5

LEMMA SickStep ==
  ASSUME HostInv, SickInv, [HNext]_hvars
  PROVE  SickInv'
<1>1. Ordinary \cup Faulty \subseteq Values \X Values
  BY DEF Ordinary, Faulty, Bad, Values
<1>2. CASE HProcessOrdinary
  <2>1. PICK b \in Ordinary : HProcessBlock(b[1], b[2])
    BY <1>2 DEF HProcessOrdinary
  <2>2. b[1] \in Values /\ b[2] \in Values
    BY <1>1
  <2>3. QED
    BY <2>1, <2>2, SickBlockStep
<1>3. CASE HProcessFaulty
  <2>1. PICK b \in Faulty : HProcessBlock(b[1], b[2])
    BY <1>3 DEF HProcessFaulty
  <2>2. b[1] \in Values /\ b[2] \in Values
    BY <1>1
  <2>3. QED
    BY <2>1, <2>2, SickBlockStep
<1>4. CASE HSetAdaptation
  <2>1. hist' = [hist EXCEPT !.sick = 0, !.ill = 0] /\ hist \in HistorySet
    BY <1>4 DEF HSetAdaptation, HostInv, Sound, Typed
  <2>2. hist'.sick = 0
    BY <2>1 DEF HistorySet
  <2>3. QED
    BY <2>2 DEF SickInv
<1>5. CASE HReset
  <2>1. hist'.sick = 0
    BY <1>5 DEF HReset, FreshHistory
  <2>2. QED
    BY <2>1 DEF SickInv
<1>6. CASE UNCHANGED hvars
  BY <1>6 DEF hvars, SickInv
<1>7. QED
  BY <1>2, <1>3, <1>4, <1>5, <1>6 DEF HNext

-------------------------------------------------------------------------------
(* A chain with the classical suppressor heals *)

\* A core that the next blocks reset, and for how long anything has been ill.
Spoiled(c, ill) == Doomed(c) /\ ill <= IF Finite(c.h) THEN 1 ELSE 2

\* A core that is a filter again, behind a suppressor whose smoothed power is
\* spoilt: what is left of both ages comes before the bound.
Recovering(u, ill) ==
  /\ u.core \in FitSet(u.cfg.core) /\ u.post.psm \in {"inf", "nan"}
  /\ ill + Lag(u.post) < MaxIll(u) /\ ill + Age(u.post) < MaxIll(u)

Mends(u, p, h) ==
  Healing(u) /\ ~ h.frozen =>
    /\ Rolls(u.post)
    /\ ~ h.heard => Calm(u.post) /\ p.floor \in Tame /\ h.ill = 0
    /\ h.heard => Spoiled(u.core, h.ill) \/ Recovering(u, h.ill)

HealInv == Mends(unit, pol, hist)

LEMMA HealingType ==
  ASSUME NEW V, NEW u, IsUnit(u, V), Healing(u)
  PROVE  LET A == u.cfg.post.analysis
             F == u.cfg.post.floor_window
         IN  /\ u \in AecSet(u.cfg, V) /\ ValidAec(u.cfg)
             /\ u.core \in KalmanSet(u.cfg.core, V) /\ u.post \in ResidualSet(u.cfg.post)
             /\ u.cfg.core.core = "kalman" /\ u.cfg.core.partitions \in Nat \ {0} /\ u.cfg.core.guard = 0
             /\ A \in Nat \ {0} /\ F \in Nat \ {0} /\ u.cfg.post.comfort
             /\ MaxIll(u) \in Nat /\ MaxIll(u) > A /\ MaxIll(u) >= 2 * F /\ MaxIll(u) > 2
<1> DEFINE A == u.cfg.post.analysis
           F == u.cfg.post.floor_window
<1>1. /\ u.kind = "aec" /\ u.cfg.core.guard = 0
      /\ u.cfg.post.post = "residual" /\ u.cfg.post.comfort
  BY DEF Healing
<1>2. u \in AecSet(u.cfg, V) /\ ValidAec(u.cfg)
  BY <1>1, UnitKinds DEF IsAec
<1>3. u.core \in KalmanSet(u.cfg.core, V) /\ u.post \in ResidualSet(u.cfg.post)
  BY <1>1, <1>2 DEF AecSet, PostSet
<1>4. u.cfg.core.core = "kalman" /\ u.cfg.core.partitions \in Nat \ {0}
  BY <1>2 DEF ValidAec, ValidKalman, KalmanConfig
<1>5. ValidResidual(u.cfg.post)
  BY <1>1, <1>2 DEF ValidAec, ValidPost
<1>6. A \in Nat \ {0} /\ A >= 4 /\ F \in Nat \ {0}
  BY <1>5 DEF ValidResidual
<1>7. MaxIll(u) = Longer(A, 2 * F - 1) + 1
  BY DEF MaxIll
<1>8. MaxIll(u) \in Nat /\ MaxIll(u) > A /\ MaxIll(u) >= 2 * F /\ MaxIll(u) > 2
  BY <1>6, <1>7 DEF Longer
<1>9. QED
  BY <1>1, <1>2, <1>3, <1>4, <1>6, <1>8

LEMMA RenewedRolls ==
  ASSUME NEW cfg, cfg.analysis \in Nat \ {0}, cfg.floor_window \in Nat \ {0},
         NEW s \in {Residual(cfg)} \cup {ResetResidual(t) : t \in ResidualSet(cfg)}
  PROVE  Rolls(s) /\ Calm(s)
<1>1. \A t \in ResidualSet(cfg) : t.cfg = cfg
  BY DEF ResidualSet
<1>2. /\ s.cfg = cfg /\ s.eh = cfg.analysis /\ s.dh = cfg.analysis /\ s.yh = cfg.analysis
      /\ s.sdy = "zero" /\ s.sdd = "zero" /\ s.syy = "zero" /\ s.see = "zero" /\ s.leak = "fin"
      /\ s.psm = "zero" /\ s.min_cur = "inf" /\ s.min_prev = "zero" /\ s.min_count = 0
  <2>1. CASE s = Residual(cfg)
    BY <2>1 DEF Residual
  <2>2. CASE s # Residual(cfg)
    <3>1. PICK t \in ResidualSet(cfg) : s = ResetResidual(t)
      BY <2>2
    <3>2. s = [Residual(cfg) EXCEPT !.trips = t.trips]
      BY <1>1, <3>1 DEF ResetResidual
    <3>3. QED
      BY <3>2 DEF Residual
  <2>3. QED
    BY <2>1, <2>2
<1>3. QED
  BY <1>2 DEF Rolls, Calm, Level, Tame

\* The stages and the policy after a restart.
LEMMA RenewedMends ==
  ASSUME NEW u, IsUnit(u, Values), NEW p, p.floor \in Tame, NEW h, ~ h.heard, h.ill = 0,
         Healing(u) =>
           u.post \in {Residual(u.cfg.post)} \cup {ResetResidual(t) : t \in ResidualSet(u.cfg.post)}
  PROVE  Mends(u, p, h)
<1>1. Healing(u) => Rolls(u.post) /\ Calm(u.post)
  BY HealingType, RenewedRolls
<1>2. QED
  BY <1>1 DEF Mends

\* What an ordinary number is everywhere of is not ill.
LEMMA TameIsWell ==
  ASSUME NEW u, IsUnit(u, Tame), Healing(u), Calm(u.post),
         NEW p, p.floor \in Tame, p.pm \in Tame, p.ps \in Tame
  PROVE  ~ NonFinite(u.core) /\ ~ Ailing(u.post, p)
<1>1. \A v \in Tame : Finite(v)
  BY DEF Tame, Finite
<1>2. ~ NonFinite(u.core)
  <2>1. u.core \in KalmanSet(u.cfg.core, Tame) /\ u.core.cfg.core = "kalman"
    BY HealingType DEF KalmanSet
  <2>2. {u.core.h, u.core.p, u.core.psi, u.core.num, u.core.den, u.core.nov} \subseteq Tame
    BY <2>1 DEF KalmanSet
  <2>3. QED
    BY <1>1, <2>1, <2>2 DEF NonFinite
<1>3. ~ Ailing(u.post, p)
  BY <1>1 DEF Ailing, Calm, Level
<1>4. QED
  BY <1>2, <1>3

LEMMA IllnessStep ==
  ASSUME IsUnit(unit, Values), NEW h \in HistorySet, Remembered(h)
  PROVE  /\ hist'.ill = Illness(h) /\ Illness(h) \in 0 .. h.ill + 1
         /\ ~ unit'.core.adapt => Illness(h) = 0
<1> DEFINE b == IF unit'.trips # unit.trips THEN FreshHistory(unit) ELSE h
           s == Sickness(h)
           i == Illness(h)
<1>1. b \in HistorySet /\ h.ill \in Nat
  BY FreshHistoryType DEF HistorySet
<1>2. hist' = [b EXCEPT !.sick = s, !.ill = i]
  BY DEF Remembered
<1>3. i \in 0 .. h.ill + 1 /\ (~ unit'.core.adapt => i = 0)
  <2>1. MaxIll(unit) \in Nat
    BY HushType
  <2>2. UpTo(h.ill, MaxIll(unit)) \in 0 .. h.ill + 1
    BY <1>1, <2>1 DEF UpTo
  <2>3. QED
    BY <1>1, <2>2 DEF Illness
<1> HIDE DEF b, s, i
<1>4. hist'.ill = i
  BY <1>1, <1>2 DEF HistorySet
<1>5. QED
  BY <1>3, <1>4 DEF i

\* A block on which no stage of a healing chain trips, before or after a lift.
Outlasts(u, x, y, k, t) ==
  LET b == KalmanBlock(u.core, x, y, k)
  IN  /\ b.core.trips = u.core.trips /\ t.cfg = u.cfg
      /\ t.post \in ResidualSet(u.cfg.post) /\ Lasts(u.post, t.post, b.e)
      /\ Doomed(b.core) => Doomed(t.core)
      /\ t.core.h = b.core.h
      /\ b.core \in FitSet(u.cfg.core) => t.core \in FitSet(u.cfg.core)
      /\ IsUnit(u, Tame) /\ x \in Tame /\ y \in Tame /\ Calm(u.post) => Calm(t.post)

LEMMA ChainLasts ==
  ASSUME NEW u, IsUnit(u, Values), Healing(u), NEW x \in Values, NEW y \in Values, NEW k,
         AecBlock(u, x, y, k).tripped = FALSE,
         NEW t \in {AecBlock(u, x, y, k).unit, LiftedAec(AecBlock(u, x, y, k).unit)}
  PROVE  Outlasts(u, x, y, k, t)
<1> DEFINE b == KalmanBlock(u.core, x, y, k)
           a == AecBlock(u, x, y, k)
           q == ResidualBlock(u.post, b.e, b.yhat, y, k)
<1> USE ValuesGrade
<1>1. /\ u \in AecSet(u.cfg, Values) /\ ValidAec(u.cfg)
      /\ u.core \in KalmanSet(u.cfg.core, Values) /\ u.post \in ResidualSet(u.cfg.post)
      /\ u.cfg.core.partitions \in Nat \ {0} /\ u.cfg.post.analysis \in Nat \ {0}
      /\ u.cfg.post.post = "residual"
  BY HealingType DEF Healing
<1>2. u.post.cfg = u.cfg.post
  BY <1>1 DEF ResidualSet
<1>3. q = PostBlock(u.post, b.e, b.yhat, y, k)
  BY <1>1, <1>2 DEF PostBlock
<1>4. /\ a.unit.core = b.core /\ b.core.trips = u.core.trips
      /\ a.unit.post = q.post /\ q.post.trips = u.post.trips
      /\ b.e \in Values /\ b.yhat \in Values
  <2> DEFINE w == PostBlock(u.post, b.e, b.yhat, y, k)
  <2>1. u \in AecSet(u.cfg, Values) /\ ValidAec(u.cfg) /\ Values \in Grades
    BY <1>1
  <2>2. x \in Values /\ y \in Values /\ AecBlock(u, x, y, k).tripped = FALSE
    OBVIOUS
  <2>3. /\ a.unit.core = b.core /\ b.core.trips = u.core.trips
        /\ a.unit.post = w.post /\ w.post.trips = u.post.trips
        /\ b.e \in Values /\ b.yhat \in Values
    BY ONLY <2>1, <2>2, AecParts
  <2>4. QED
    BY <1>3, <2>3
<1>5. Lasts(u.post, q.post, b.e) /\ ({b.e, b.yhat, y} \subseteq Tame /\ Calm(u.post) => Calm(q.post))
  BY <1>1, <1>4, ResidualLasts
<1>6. IsUnit(u, Tame) /\ x \in Tame /\ y \in Tame => {b.e, b.yhat, y} \subseteq Tame
  <2> SUFFICES ASSUME IsUnit(u, Tame), x \in Tame, y \in Tame PROVE {b.e, b.yhat, y} \subseteq Tame
    OBVIOUS
  <2>1. u \in AecSet(u.cfg, Tame)
    BY HealingType
  <2>2. b.e \in Tame /\ b.yhat \in Tame
    BY <1>1, <2>1, AecParts
  <2>3. QED
    BY <2>2
<1>7. a.unit \in AecSet(u.cfg, Values) /\ b.core \in KalmanSet(u.cfg.core, Values)
  BY <1>1, AecRuns, KalmanRuns DEF AecRan
<1>8. q.post \in ResidualSet(u.cfg.post)
  BY <1>1, <1>4, <1>7 DEF AecSet, PostSet
<1> HIDE DEF b, a, q
<1> DEFINE d == Reinflated(b.core)
<1>9. /\ b.core \in FitSet(u.cfg.core) => d \in FitSet(u.cfg.core)
      /\ d.h = b.core.h /\ (Finite(d.p) <=> Finite(b.core.p))
  BY <1>7, LiftKeepsFit
<1>10. a.unit.cfg = u.cfg /\ {"core", "post", "cfg"} \subseteq DOMAIN a.unit
  BY <1>7 DEF AecSet
<1>11. LiftedAec(a.unit) = [a.unit EXCEPT !.core = d]
  BY <1>4, <1>10 DEF LiftedAec
<1> HIDE DEF d
<1>12. t.post = q.post /\ t.cfg = u.cfg /\ t.core \in {b.core, d}
  BY <1>4, <1>10, <1>11 DEF a
<1>13. /\ Doomed(b.core) => Doomed(t.core)
       /\ t.core.h = b.core.h
       /\ b.core \in FitSet(u.cfg.core) => t.core \in FitSet(u.cfg.core)
  BY <1>9, <1>12 DEF Doomed
<1>14. QED
  BY <1>4, <1>5, <1>6, <1>8, <1>12, <1>13 DEF b, Outlasts

\* What such a block leaves ill, after a fault: i and j are the blocks anything
\* has been ill, before and after.
LEMMA ChainRecovers ==
  ASSUME NEW u, IsUnit(u, Values), Healing(u), Rolls(u.post),
         NEW x \in Values, NEW y \in Values, x \in Tame \/ y \in Tame, NEW k,
         AecBlock(u, x, y, k).tripped = FALSE,
         NEW t \in {AecBlock(u, x, y, k).unit, LiftedAec(AecBlock(u, x, y, k).unit)},
         NEW i \in Nat, NEW j \in Nat, ~ u.core.adapt => j = 0,
         IF x \in Tame /\ y \in Tame
         THEN j <= i + 1 /\ (Spoiled(u.core, i) \/ Recovering(u, i))
         ELSE j <= 1 /\ u.core.adapt /\ (Doomed(u.core) \/ u.core \in FitSet(u.cfg.core))
  PROVE  Rolls(t.post) /\ (Spoiled(t.core, j) \/ Recovering(t, j))
<1> DEFINE b == KalmanBlock(u.core, x, y, k)
           A == u.cfg.post.analysis
           F == u.cfg.post.floor_window
<1>1. /\ u.core \in KalmanSet(u.cfg.core, Values) /\ u.post \in ResidualSet(u.cfg.post)
      /\ u.cfg.core.core = "kalman" /\ u.cfg.core.partitions \in Nat \ {0} /\ u.cfg.core.guard = 0
      /\ A \in Nat \ {0} /\ F \in Nat \ {0} /\ u.cfg.post.comfort
      /\ MaxIll(u) \in Nat /\ MaxIll(u) > A /\ MaxIll(u) >= 2 * F
  BY HealingType
<1>2. /\ b.core.trips = u.core.trips /\ t.cfg = u.cfg
      /\ t.post \in ResidualSet(u.cfg.post) /\ Lasts(u.post, t.post, b.e)
      /\ Doomed(b.core) => Doomed(t.core)
      /\ t.core.h = b.core.h
      /\ b.core \in FitSet(u.cfg.core) => t.core \in FitSet(u.cfg.core)
  <2>1. /\ IsUnit(u, Values) /\ Healing(u) /\ x \in Values /\ y \in Values
        /\ AecBlock(u, x, y, k).tripped = FALSE
        /\ t \in {AecBlock(u, x, y, k).unit, LiftedAec(AecBlock(u, x, y, k).unit)}
    OBVIOUS
  <2>2. Outlasts(u, x, y, k, t)
    BY ONLY <2>1, ChainLasts
  <2>3. QED
    BY ONLY <2>2 DEF Outlasts
<1>3. MaxIll(t) = MaxIll(u)
  <2>1. t.kind = "aec"
    <3>1. AecBlock(u, x, y, k).unit \in AecSet(u.cfg, Values)
      BY HealingType, ValuesGrade, AecRuns DEF AecRan
    <3>2. LiftedAec(AecBlock(u, x, y, k).unit) \in AecSet(u.cfg, Values)
      BY <3>1, ValuesGrade, AecLifts
    <3>3. QED
      BY <3>1, <3>2 DEF AecSet
  <2>2. u.kind = "aec"
    BY DEF Healing
  <2>3. QED
    BY <1>2, <2>1, <2>2 DEF MaxIll, Healing
<1>4. Rolls(t.post)
  BY <1>1, <1>2, RollsOn
<1>5. CASE Doomed(u.core)
  <2>1. Finite(u.core.h) /\ Doomed(b.core) /\ (u.core.adapt => ~ Finite(b.core.h))
    BY <1>1, <1>2, <1>5, DoomedRuns
  <2> HIDE DEF b
  <2>2. Doomed(t.core) /\ (u.core.adapt => ~ Finite(t.core.h))
    BY <1>2, <2>1
  <2>3. ~ Recovering(u, i)
    BY <1>5 DEF Doomed, Recovering, FitSet, Tame, Finite
  <2>4. CASE x \in Tame /\ y \in Tame
    <3>1. i <= 1
      BY <2>1, <2>3, <2>4 DEF Spoiled
    <3>2. j <= 2 /\ (~ u.core.adapt => j = 0)
      BY <2>4, <3>1
    <3>3. QED
      BY <1>4, <2>2, <3>2 DEF Spoiled
  <2>5. CASE ~ (x \in Tame /\ y \in Tame)
    BY <1>4, <2>2, <2>5 DEF Spoiled
  <2>6. QED
    BY <2>4, <2>5
<1>6. CASE ~ Doomed(u.core)
  <2>1. /\ u.core \in FitSet(u.cfg.core)
        /\ x \in Tame /\ y \in Tame => Recovering(u, i)
    BY <1>6 DEF Spoiled, Recovering
  <2>2. \/ Doomed(b.core) /\ ~ (x \in Tame /\ y \in Tame)
        \/ b.core \in FitSet(u.cfg.core) /\ (b.e = "huge" <=> y = "huge") /\ x \in Tame
    BY <1>1, <1>2, <2>1, FitTurns
  <2>3. Finite(y)
    BY <1>1, <1>2, BadInputTrips
  <2> HIDE DEF b
  <2>4. CASE Doomed(b.core) /\ ~ (x \in Tame /\ y \in Tame)
    <3>1. Doomed(t.core) /\ j <= 1
      BY <1>2, <2>4
    <3>2. QED
      BY <1>4, <3>1 DEF Spoiled
  <2>5. CASE b.core \in FitSet(u.cfg.core) /\ x \in Tame /\ b.e = "huge" /\ y = "huge"
    <3>1. t.post.psm \in {"inf", "nan"} /\ Lag(t.post) \in 0 .. 2 * F - 2 /\ Age(t.post) = A - 1
      BY <1>1, <1>2, <2>5, Strikes
    <3>2. j <= 1
      BY <2>5 DEF Tame
    <3>3. j + Lag(t.post) < MaxIll(u) /\ j + Age(t.post) < MaxIll(u)
      BY <1>1, <3>1, <3>2
    <3>4. QED
      BY <1>2, <1>3, <1>4, <2>5, <3>1, <3>3 DEF Recovering
  <2>6. CASE b.core \in FitSet(u.cfg.core) /\ x \in Tame /\ b.e # "huge" /\ y # "huge"
    <3>1. y \in Tame
      BY <2>3, <2>6 DEF Values, Finite, Tame
    <3>2. Recovering(u, i) /\ j <= i + 1
      BY <2>1, <2>6, <3>1
    <3>3. /\ t.post.psm \in {"inf", "nan"}
          /\ Lag(u.post) > 0 \/ Age(u.post) > 0
          /\ Lag(t.post) = IF Lag(u.post) > 0 THEN Lag(u.post) - 1 ELSE 0
          /\ Age(t.post) = IF Age(u.post) > 0 THEN Age(u.post) - 1 ELSE 0
      BY <1>1, <1>2, <2>6, <3>2, Wanes DEF Recovering
    <3>4. Lag(u.post) \in Nat /\ Age(u.post) \in Nat
      BY <1>1, AgesType
    <3>5. j + Lag(t.post) < MaxIll(u) /\ j + Age(t.post) < MaxIll(u)
      BY <1>1, <3>2, <3>3, <3>4 DEF Recovering
    <3>6. QED
      BY <1>2, <1>3, <1>4, <2>6, <3>3, <3>5 DEF Recovering
  <2>7. QED
    BY <2>2, <2>4, <2>5, <2>6
<1>7. QED
  BY <1>5, <1>6

\* A block never turns a unit into another.
LEMMA BlockKeepsUnit ==
  ASSUME HostInv, NEW x \in Values, NEW y \in Values, HProcessBlock(x, y)
  PROVE  unit'.kind = unit.kind /\ unit'.cfg = unit.cfg
<1> USE ValuesGrade
<1>1. IsUnit(unit, Values)
  BY DEF HostInv, Sound, Typed
<1>2. CASE unit.kind # "aec"
  <2>1. PICK r, m : r \in Results(x, y) /\ HistoryAlone(m, r)
    BY <1>2, BlockMeets
  <2>2. unit' = r.unit /\ UnitRan(unit, r, Values)
    BY <1>1, <1>2, <2>1, AloneRuns DEF HistoryAlone, ProcessAlone
  <2>3. QED
    BY <2>2 DEF UnitRan
<1>3. CASE unit.kind = "aec"
  <2>1. PICK r, ev, h : r \in Results(x, y) /\ Turned(x, y, r, ev, h)
    BY <1>3, ChainTurns
  <2>2. r.unit \in AecSet(unit.cfg, Values)
    BY <1>1, <1>3, <2>1, ChainRuns DEF AecRan
  <2>3. unit' \in AecSet(unit.cfg, Values)
    BY <2>1, <2>2, AecLifts DEF Turned
  <2>4. QED
    BY <1>3, <2>3 DEF AecSet
<1>4. QED
  BY <1>2, <1>3

\* A stage trips: the whole chain is as built.
LEMMA TrippedMends ==
  ASSUME HostInv, Healing(unit), NEW x \in Values, NEW y \in Values, HProcessBlock(x, y),
         NEW r \in Results(x, y), NEW ev, NEW h, Turned(x, y, r, ev, h),
         AecTripped(unit.cfg, unit, r)
  PROVE  HealInv'
<1> USE ValuesGrade
<1>1. IsUnit(unit, Values) /\ unit.trips \in Nat
  BY UnitKinds DEF HostInv, Sound, Typed
<1>2. /\ pol' = FreshPolicy /\ unit' = r.unit /\ unit'.trips = unit.trips + 1
      /\ h \in HistorySet /\ Remembered(h)
  BY DEF Turned, AecTripped, FreshPolicy
<1>3. SameBlocks(FreshHistory(unit), hist')
  BY <1>1, <1>2, RememberedStep
<1>4. hist'.heard = FALSE
  BY <1>3 DEF SameBlocks, FreshHistory
<1>5. HostInv'
  BY BlockStep
<1>6. IsUnit(unit', Values) /\ IsUnit(unit', Tame)
  BY <1>4, <1>5 DEF HostInv, Sound, Typed, TameBefore
<1>7. unit'.kind = unit.kind /\ unit'.cfg = unit.cfg
  BY BlockKeepsUnit
<1>8. Healing(unit')
  BY <1>7 DEF Healing
<1>9. unit'.post \in ResidualSet(unit'.cfg.post) /\ unit' \in AecSet(unit'.cfg, Values) /\ ValidAec(unit'.cfg)
  BY <1>6, <1>8, HealingType
<1>10. unit'.post = ResetResidual(unit'.post)
  <2>1. unit' = ResetAec(unit')
    BY <1>2 DEF AecTripped
  <2>2. ResetAec(unit').post = ResetPost(unit'.post)
    BY <1>9, AecResets
  <2>3. unit'.post.cfg.post = "residual"
    BY <1>8, <1>9 DEF ResidualSet, Healing
  <2>4. ResetPost(unit'.post) = ResetResidual(unit'.post)
    BY <2>3 DEF ResetPost
  <2>5. QED
    BY <2>1, <2>2, <2>4
<1>11. pol'.floor = "zero" /\ pol'.pm = "zero" /\ pol'.ps = "zero" /\ "zero" \in Tame
  BY <1>2 DEF FreshPolicy, Tame
<1>12. hist'.ill = 0
  <2>1. Calm(unit'.post)
    BY <1>6, <1>8, <1>9, <1>10, HealingType, RenewedRolls
  <2>2. ~ NonFinite(unit'.core) /\ ~ Ailing(unit'.post, pol')
    BY <1>6, <1>8, <1>11, <2>1, TameIsWell
  <2>3. Illness(h) = 0
    BY <2>2 DEF Illness
  <2>4. QED
    BY <1>1, <1>2, <2>3, IllnessStep
<1>13. Mends(unit', pol', hist')
  BY <1>4, <1>6, <1>9, <1>10, <1>11, <1>12, RenewedMends
<1>14. QED
  BY <1>13 DEF HealInv

LEMMA HealBlockStep ==
  ASSUME HostInv, HealInv, NEW x \in Values, NEW y \in Values, x \in Tame \/ y \in Tame,
         HProcessBlock(x, y)
  PROVE  HealInv'
<1> DEFINE faulty == {x, y} \cap Bad # {}
<1> USE ValuesGrade
<1>1. IsUnit(unit, Values) /\ hist \in HistorySet
  BY DEF HostInv, Sound, Typed
<1>2. HostInv'
  BY BlockStep
<1>3. unit'.kind = unit.kind /\ unit'.cfg = unit.cfg /\ unit'.core.adapt = unit.core.adapt
  BY BlockKeepsUnit, BlockTurns
<1>4. faulty <=> ~ (x \in Tame /\ y \in Tame)
  BY DEF Bad, Tame, Values
<1> HIDE DEF faulty
<1>5. SUFFICES ASSUME Healing(unit), Healing(unit'), ~ hist'.frozen PROVE HealInv'
  BY <1>3 DEF HealInv, Mends, Healing
<1>6. unit.kind = "aec"
  BY <1>5 DEF Healing
<1>7. PICK r, ev, h : r \in Results(x, y) /\ Turned(x, y, r, ev, h)
  BY <1>6, ChainTurns
<1>8. AecRan(unit.cfg, unit, r, y, Values)
  BY <1>1, <1>6, <1>7, ChainRuns
<1>9. CASE AecTripped(unit.cfg, unit, r)
  BY <1>5, <1>7, <1>9, TrippedMends
<1>10. CASE AecPassed(unit.cfg, unit, r, y, Values)
  <2>1. PICK k \in Chances(x, y) : r = AecBlock(unit, x, y, k)
    BY <1>6, <1>7 DEF Results
  <2>2. /\ r.tripped = FALSE /\ r.unit.trips = unit.trips
        /\ r.unit \in AecSet(unit.cfg, Values)
    BY <1>8, <1>10 DEF AecPassed, AecRan
  <2>3. /\ unit' \in {r.unit, LiftedAec(r.unit)}
        /\ pol' = Policed(pol, ev, unit.cfg.guard)
        /\ ev.x = x /\ ev.mid = r.mid /\ ev.shadow_e = r.shadow_e
        /\ h \in HistorySet /\ Remembered(h)
        /\ h.heard = (hist.heard \/ faulty)
        /\ h.ill = IF faulty THEN 0 ELSE hist.ill
        /\ h.frozen = (hist.frozen \/ (faulty /\ ~ unit.core.adapt))
    BY <1>7, <2>2 DEF Turned, Marked, faulty
  <2>4. unit'.trips = unit.trips
    BY <2>2, <2>3, AecLifts
  <2>5. SameBlocks(h, hist')
    BY <1>1, <2>3, <2>4, RememberedStep
  <2>6. hist'.heard = h.heard /\ hist'.frozen = h.frozen
    BY <2>5 DEF SameBlocks
  <2>7. /\ Rolls(unit.post) /\ (faulty => unit.core.adapt)
        /\ ~ hist.heard => Calm(unit.post) /\ pol.floor \in Tame /\ hist.ill = 0
        /\ hist.heard => Spoiled(unit.core, hist.ill) \/ Recovering(unit, hist.ill)
    BY <1>5, <2>3, <2>6 DEF HealInv, Mends
  <2>8. /\ hist'.ill = Illness(h) /\ hist'.ill \in Nat
        /\ hist'.ill <= (IF faulty THEN 0 ELSE hist.ill) + 1
        /\ ~ unit.core.adapt => hist'.ill = 0
    <3>1. hist'.ill = Illness(h) /\ Illness(h) \in 0 .. h.ill + 1 /\ (~ unit'.core.adapt => Illness(h) = 0)
      BY <1>1, <2>3, IllnessStep
    <3>2. h.ill \in Nat
      BY <2>3 DEF HistorySet
    <3>3. QED
      BY <1>3, <2>3, <3>1, <3>2
  <2>9. CASE hist'.heard
    <3>1. hist.ill \in Nat /\ hist.heard \in BOOLEAN
      BY <1>1 DEF HistorySet
    <3>2. faulty => Doomed(unit.core) \/ unit.core \in FitSet(unit.cfg.core)
      <4>1. CASE hist.heard
        BY <2>7, <4>1 DEF Spoiled, Recovering
      <4>2. CASE ~ hist.heard
        <5>1. unit.core \in KalmanSet(unit.cfg.core, Tame)
          BY <1>5, <4>2, HealingType DEF HostInv, Sound, TameBefore
        <5>2. QED
          BY <5>1, FitIsTyped
      <4>3. QED
        BY <4>1, <4>2
    <3>3. ~ faulty => Spoiled(unit.core, hist.ill) \/ Recovering(unit, hist.ill)
      BY <2>3, <2>6, <2>7, <2>9
    <3>4. IF x \in Tame /\ y \in Tame
          THEN /\ hist'.ill <= hist.ill + 1
               /\ Spoiled(unit.core, hist.ill) \/ Recovering(unit, hist.ill)
          ELSE /\ hist'.ill <= 1 /\ unit.core.adapt
               /\ Doomed(unit.core) \/ unit.core \in FitSet(unit.cfg.core)
      BY <1>4, <2>7, <2>8, <3>2, <3>3
    <3>5. /\ IsUnit(unit, Values) /\ Healing(unit) /\ Rolls(unit.post)
          /\ x \in Values /\ y \in Values /\ (x \in Tame \/ y \in Tame)
          /\ AecBlock(unit, x, y, k).tripped = FALSE
          /\ unit' \in {AecBlock(unit, x, y, k).unit, LiftedAec(AecBlock(unit, x, y, k).unit)}
          /\ hist.ill \in Nat /\ hist'.ill \in Nat /\ (~ unit.core.adapt => hist'.ill = 0)
      BY <1>1, <1>5, <2>1, <2>2, <2>3, <2>7, <2>8, <3>1
    <3>6. Rolls(unit'.post) /\ (Spoiled(unit'.core, hist'.ill) \/ Recovering(unit', hist'.ill))
      BY ONLY <3>4, <3>5, ChainRecovers
    <3>7. QED
      BY <2>9, <3>6 DEF HealInv, Mends
  <2>10. CASE ~ hist'.heard
    <3>1. ~ hist.heard /\ x \in Tame /\ y \in Tame
      BY <1>4, <2>3, <2>6, <2>10
    <3>2. IsUnit(unit, Tame) /\ IsUnit(unit', Tame) /\ pol'.pm \in Tame /\ pol'.ps \in Tame
      BY <1>2, <2>10, <3>1 DEF HostInv, Sound, TameBefore
    <3>3. /\ IsUnit(unit, Values) /\ Healing(unit) /\ x \in Values /\ y \in Values
          /\ AecBlock(unit, x, y, k).tripped = FALSE
          /\ unit' \in {AecBlock(unit, x, y, k).unit, LiftedAec(AecBlock(unit, x, y, k).unit)}
      BY <1>1, <1>5, <2>1, <2>2, <2>3
    <3>4. Outlasts(unit, x, y, k, unit')
      BY ONLY <3>3, ChainLasts
    <3>5. Calm(unit'.post)
      BY <2>7, <3>1, <3>2, <3>4 DEF Outlasts
    <3>6. Rolls(unit'.post)
      <4>1. \E e : Lasts(unit.post, unit'.post, e) /\ unit'.post \in ResidualSet(unit.cfg.post)
        BY <3>4 DEF Outlasts
      <4>2. unit.post \in ResidualSet(unit.cfg.post) /\ unit.cfg.post.floor_window \in Nat \ {0}
        BY <1>1, <1>5, HealingType
      <4>3. QED
        BY <2>7, <4>1, <4>2, RollsOn
    <3>7. pol'.floor \in Tame
      <4>1. r.mid \in Values /\ r.shadow_e \in Values /\ unit.cfg.guard \in BOOLEAN
        BY <1>1, <1>5, <1>10, HealingType, AecConfigured DEF AecPassed
      <4>2. IsPolicy(pol)
        BY DEF HostInv, Sound, Typed
      <4>3. pol'.floor = Chase(pol.floor, Square(x))
        BY <2>3, <4>1, <4>2, PolicedFloor
      <4>4. QED
        BY <2>7, <3>1, <4>3, SquareClosed, ChaseClosed
    <3>8. hist'.ill = 0
      <4>1. ~ NonFinite(unit'.core) /\ ~ Ailing(unit'.post, pol')
        BY <1>5, <3>2, <3>5, <3>7, TameIsWell
      <4>2. QED
        BY <2>8, <4>1 DEF Illness
    <3>9. QED
      BY <2>10, <3>5, <3>6, <3>7, <3>8 DEF HealInv, Mends
  <2>11. QED
    BY <2>9, <2>10
<1>11. QED
  BY <1>8, <1>9, <1>10 DEF AecRan

\* The switch spoils nothing, and ends what is counted.
LEMMA HealSwitchStep ==
  ASSUME HostInv, HealInv, HSetAdaptation
  PROVE  HealInv'
<1>1. PICK enabled \in BOOLEAN : unit' = [unit EXCEPT !.core.adapt = enabled]
  BY DEF HSetAdaptation, SetAdaptation
<1>2. pol' = pol /\ hist' = [hist EXCEPT !.sick = 0, !.ill = 0] /\ hist \in HistorySet
  BY DEF HSetAdaptation, SetAdaptation, HostInv, Sound, Typed
<1>3. hist'.heard = hist.heard /\ hist'.frozen = hist.frozen /\ hist'.ill = 0 /\ hist.ill \in Nat
  BY <1>2 DEF HistorySet
<1>4. IsUnit(unit, Values)
  BY DEF HostInv, Sound, Typed
<1>5. unit'.kind = unit.kind /\ unit'.cfg = unit.cfg /\ (unit.kind = "aec" => unit'.post = unit.post)
  BY <1>1, <1>4, SwitchedUnit
<1>6. SUFFICES ASSUME Healing(unit), Healing(unit'), ~ hist.frozen PROVE HealInv'
  BY <1>3, <1>5 DEF HealInv, Mends, Healing
<1>7. /\ unit \in AecSet(unit.cfg, Values) /\ unit.core \in KalmanSet(unit.cfg.core, Values)
      /\ unit'.post = unit.post /\ MaxIll(unit) \in Nat /\ MaxIll(unit') = MaxIll(unit)
  BY <1>4, <1>5, <1>6, HealingType DEF Healing, MaxIll
<1> DEFINE c == [unit.core EXCEPT !.adapt = enabled]
<1>8. /\ c.h = unit.core.h /\ c.p = unit.core.p
      /\ unit.core \in FitSet(unit.cfg.core) => c \in FitSet(unit.cfg.core)
  BY <1>7 DEF KalmanSet, FitSet
<1> HIDE DEF c
<1>9. unit'.core = c
  BY <1>1, <1>7 DEF AecSet, c
<1>10. /\ Rolls(unit.post) /\ (~ hist.heard => Calm(unit.post) /\ pol.floor \in Tame)
       /\ hist.heard => Spoiled(unit.core, hist.ill) \/ Recovering(unit, hist.ill)
  BY <1>6 DEF HealInv, Mends
<1>11. Spoiled(unit.core, hist.ill) => Spoiled(unit'.core, 0)
  BY <1>8, <1>9 DEF Spoiled, Doomed
<1>12. Recovering(unit, hist.ill) => Recovering(unit', 0)
  <2> SUFFICES ASSUME Recovering(unit, hist.ill) PROVE Recovering(unit', 0)
    OBVIOUS
  <2>1. Lag(unit.post) \in Nat /\ Age(unit.post) \in Nat
    BY <1>4, <1>6, <1>10, HealingType, AgesType
  <2>2. 0 + Lag(unit'.post) < MaxIll(unit') /\ 0 + Age(unit'.post) < MaxIll(unit')
    BY <1>3, <1>7, <2>1 DEF Recovering
  <2>3. QED
    BY <1>5, <1>7, <1>8, <1>9, <2>2 DEF Recovering
<1>13. QED
  BY <1>2, <1>3, <1>7, <1>10, <1>11, <1>12 DEF HealInv, Mends

LEMMA HealResetStep ==
  ASSUME HostInv, HReset
  PROVE  HealInv'
<1> USE ValuesGrade
<1>1. unit' = ResetUnit(unit) /\ pol' = FreshPolicy /\ hist' = FreshHistory(unit)
  BY DEF HReset, Reset
<1>2. IsUnit(unit, Values)
  BY DEF HostInv, Sound, Typed
<1>3. /\ IsUnit(unit', Values) /\ unit'.kind = unit.kind /\ unit'.cfg = unit.cfg
      /\ unit.kind = "aec" => unit'.post = ResetPost(unit.post)
  BY <1>1, <1>2, UnitResets
<1>4. Healing(unit') => unit'.post \in {ResetResidual(t) : t \in ResidualSet(unit'.cfg.post)}
  <2> SUFFICES ASSUME Healing(unit')
               PROVE  unit'.post \in {ResetResidual(t) : t \in ResidualSet(unit'.cfg.post)}
    OBVIOUS
  <2>1. Healing(unit) /\ unit.kind = "aec"
    BY <1>3 DEF Healing
  <2>2. unit.post \in ResidualSet(unit.cfg.post) /\ unit.post.cfg.post = "residual"
    BY <1>2, <2>1, HealingType DEF ResidualSet, Healing
  <2>3. unit'.post = ResetResidual(unit.post)
    BY <1>3, <2>1, <2>2 DEF ResetPost
  <2>4. QED
    BY <1>3, <2>2, <2>3
<1>5. pol'.floor \in Tame /\ hist'.heard = FALSE /\ hist'.ill = 0
  BY <1>1 DEF FreshPolicy, FreshHistory, Tame
<1>6. Mends(unit', pol', hist')
  BY <1>3, <1>4, <1>5, RenewedMends
<1>7. QED
  BY <1>6 DEF HealInv

LEMMA HealInit == ASSUME HInit PROVE HealInv
<1>1. unit \in Units /\ pol = FreshPolicy /\ hist = FreshHistory(unit)
  BY DEF HInit, Init
<1>2. IsUnit(unit, Values) /\ (unit.kind = "aec" => unit = Aec(unit.cfg))
  BY <1>1, ValuesGrade, UnitFresh
<1>3. Healing(unit) => unit.post = Residual(unit.cfg.post)
  <2> SUFFICES ASSUME Healing(unit) PROVE unit.post = Residual(unit.cfg.post)
    OBVIOUS
  <2>1. Aec(unit.cfg).post = Post(unit.cfg.post)
    BY DEF Aec
  <2>2. unit = Aec(unit.cfg)
    BY <1>2 DEF Healing
  <2>3. QED
    BY <2>1, <2>2 DEF Healing, Post
<1>4. pol.floor \in Tame /\ hist.heard = FALSE /\ hist.ill = 0
  BY <1>1 DEF FreshPolicy, FreshHistory, Tame
<1>5. Mends(unit, pol, hist)
  BY <1>2, <1>3, <1>4, RenewedMends
<1>6. QED
  BY <1>5 DEF HealInv

LEMMA HealStep ==
  ASSUME HostInv, HealInv, [HNext]_hvars
  PROVE  HealInv'
<1>1. \A b \in Ordinary \cup Faulty :
        b[1] \in Values /\ b[2] \in Values /\ (b[1] \in Tame \/ b[2] \in Tame)
  BY DEF Ordinary, Faulty, Bad, Values, Tame
<1>2. CASE HProcessOrdinary
  <2>1. PICK b \in Ordinary : HProcessBlock(b[1], b[2])
    BY <1>2 DEF HProcessOrdinary
  <2>2. QED
    BY <1>1, <2>1, HealBlockStep
<1>3. CASE HProcessFaulty
  <2>1. PICK b \in Faulty : HProcessBlock(b[1], b[2])
    BY <1>3 DEF HProcessFaulty
  <2>2. QED
    BY <1>1, <2>1, HealBlockStep
<1>4. CASE HSetAdaptation
  BY <1>4, HealSwitchStep
<1>5. CASE HReset
  BY <1>5, HealResetStep
<1>6. CASE UNCHANGED hvars
  BY <1>6 DEF hvars, HealInv
<1>7. QED
  BY <1>2, <1>3, <1>4, <1>5, <1>6 DEF HNext

LEMMA HealInvImplies == ASSUME HostInv, HealInv PROVE Heals
<1>1. SUFFICES ASSUME Healing(unit), ~ hist.frozen PROVE hist.ill < MaxIll(unit)
  BY DEF Heals
<1>2. /\ MaxIll(unit) \in Nat /\ MaxIll(unit) > 2 /\ hist.ill \in Nat
      /\ unit.post \in ResidualSet(unit.cfg.post)
      /\ unit.cfg.post.analysis \in Nat \ {0} /\ unit.cfg.post.floor_window \in Nat \ {0}
  BY <1>1, HealingType DEF HostInv, Sound, Typed, HistorySet
<1>3. CASE ~ hist.heard
  BY <1>1, <1>2, <1>3 DEF HealInv, Mends
<1>4. CASE hist.heard /\ Spoiled(unit.core, hist.ill)
  BY <1>2, <1>4 DEF Spoiled
<1>5. CASE hist.heard /\ Recovering(unit, hist.ill)
  <2>1. Age(unit.post) \in Nat
    BY <1>1, <1>2, AgesType DEF HealInv, Mends
  <2>2. QED
    BY <1>2, <1>5, <2>1 DEF Recovering
<1>6. QED
  BY <1>1, <1>3, <1>4, <1>5 DEF HealInv, Mends

-------------------------------------------------------------------------------
(* What a prewhitened canceller lets out *)

\* Without a faulty block while frozen, its core has heard what its raw ring holds.
ShieldInv == unit.kind = "afc" /\ ~ hist.frozen => Finite(out) /\ Shielded(unit.raw, unit.core)

LEMMA RestartIsShielded ==
  ASSUME NEW u, u.kind = "afc", u = ResetUnit(u)
  PROVE  Shielded(u.raw, u.core)
<1>1. ResetUnit(u) = ResetPem(u)
  BY DEF ResetUnit
<1>2. Shielded(Pem(u.cfg).raw, ResetPem(u).core) /\ ResetPem(u).raw = Pem(u.cfg).raw
  BY ResetIsShielded
<1>3. QED
  BY <1>1, <1>2

LEMMA ShieldBlockStep ==
  ASSUME HostInv, ShieldInv, NEW x \in Values, NEW y \in Values, HProcessBlock(x, y)
  PROVE  ShieldInv'
<1> USE ValuesGrade
<1>1. IsUnit(unit, Values)
  BY DEF HostInv, Sound, Typed
<1>2. unit'.kind = unit.kind
  BY BlockKeepsUnit
<1>3. SUFFICES ASSUME unit.kind = "afc", ~ hist'.frozen
               PROVE  Finite(out') /\ Shielded(unit'.raw, unit'.core)
  BY <1>2 DEF ShieldInv
<1>4. PICK r, m :
        r \in Results(x, y) /\ Met(unit, hist, m, x, y) /\ Marked(unit, hist, m, x, y) /\ HistoryAlone(m, r)
  BY <1>3, BlockMeets
<1>5. unit' = r.unit /\ out' = r.out /\ Remembered(m) /\ m \in HistorySet
  BY <1>4 DEF HistoryAlone, ProcessAlone, Met
<1>6. UnitRan(unit, r, Values)
  BY <1>1, <1>3, <1>4, AloneRuns
<1>7. CASE r.unit.trips # unit.trips
  <2>1. r.unit = ResetUnit(r.unit) /\ r.out = "zero" /\ r.unit.kind = "afc"
    BY <1>3, <1>6, <1>7 DEF UnitRan
  <2>2. QED
    BY <1>5, <2>1, RestartIsShielded DEF Finite
<1>8. CASE r.unit.trips = unit.trips
  <2>1. SameBlocks(IF unit'.trips # unit.trips THEN FreshHistory(unit) ELSE m, hist')
    BY <1>1, <1>5, RememberedStep
  <2>2. ~ m.frozen
    BY <1>3, <1>5, <1>8, <2>1 DEF SameBlocks
  <2>3. ~ hist.frozen /\ (unit.core.adapt \/ x \in Tame)
    BY <1>4, <2>2 DEF Marked, Bad, Values, Tame
  <2>4. unit \in PemSet(unit.cfg, Values) /\ ValidPem(unit.cfg)
    BY <1>1, <1>3, UnitKinds DEF IsPem
  <2>5. PICK k \in Chances(x, y) : r = PemBlock(unit, x, y, k)
    BY <1>3, <1>4 DEF Results
  <2>6. Shielded(unit.raw, unit.core)
    BY <1>3, <2>3 DEF ShieldInv
  <2>7. QED
    BY <1>5, <2>3, <2>4, <2>5, <2>6, PemShields
<1>9. QED
  BY <1>7, <1>8

LEMMA ShieldSwitchStep ==
  ASSUME HostInv, ShieldInv, HSetAdaptation
  PROVE  ShieldInv'
<1>1. PICK enabled \in BOOLEAN : unit' = [unit EXCEPT !.core.adapt = enabled]
  BY DEF HSetAdaptation, SetAdaptation
<1>2. out' = out /\ hist'.frozen = hist.frozen
  BY DEF HSetAdaptation, SetAdaptation, HostInv, Sound, Typed, HistorySet
<1>3. SUFFICES ASSUME unit'.kind = "afc", ~ hist.frozen
               PROVE  Finite(out) /\ Shielded(unit'.raw, unit'.core)
  BY <1>2 DEF ShieldInv
<1> DEFINE c == [unit.core EXCEPT !.adapt = enabled]
<1>4. c.win = unit.core.win /\ c.u = unit.core.u
  OBVIOUS
<1> HIDE DEF c
<1>5. unit'.raw = unit.raw /\ unit'.kind = unit.kind /\ unit'.core \in {c, unit.core}
  <2>1. unit' = [unit EXCEPT !.core = c]
    BY <1>1 DEF c
  <2>2. QED
    BY <2>1
<1>6. Finite(out) /\ Shielded(unit.raw, unit.core)
  BY <1>3, <1>5 DEF ShieldInv
<1>7. QED
  BY <1>4, <1>5, <1>6 DEF Shielded, Covers

LEMMA ShieldResetStep ==
  ASSUME HostInv, HReset
  PROVE  ShieldInv'
<1>1. unit' = ResetUnit(unit) /\ out' = "zero"
  BY DEF HReset, Reset
<1>2. IsUnit(unit, Values)
  BY DEF HostInv, Sound, Typed
<1>3. unit' = ResetUnit(unit')
  BY <1>1, <1>2, UnitResets, ValuesGrade
<1>4. QED
  BY <1>1, <1>3, RestartIsShielded DEF ShieldInv, Finite

LEMMA ShieldInit == ASSUME HInit PROVE ShieldInv
<1>1. unit \in Units /\ out = "zero"
  BY DEF HInit, Init
<1>2. unit.kind = "afc" => unit = Pem(unit.cfg)
  BY <1>1, UnitsAssumption DEF Accepted, BareUnit, Aec
<1>3. Shielded(Pem(unit.cfg).raw, Pem(unit.cfg).core)
  BY DEF Pem, Shielded, Covers, Tame
<1>4. QED
  BY <1>1, <1>2, <1>3 DEF ShieldInv, Finite

LEMMA ShieldStep ==
  ASSUME HostInv, ShieldInv, [HNext]_hvars
  PROVE  ShieldInv'
<1>1. Ordinary \cup Faulty \subseteq Values \X Values
  BY DEF Ordinary, Faulty, Bad, Values
<1>2. CASE HProcessOrdinary
  <2>1. PICK b \in Ordinary : HProcessBlock(b[1], b[2])
    BY <1>2 DEF HProcessOrdinary
  <2>2. b[1] \in Values /\ b[2] \in Values
    BY <1>1
  <2>3. QED
    BY <2>1, <2>2, ShieldBlockStep
<1>3. CASE HProcessFaulty
  <2>1. PICK b \in Faulty : HProcessBlock(b[1], b[2])
    BY <1>3 DEF HProcessFaulty
  <2>2. b[1] \in Values /\ b[2] \in Values
    BY <1>1
  <2>3. QED
    BY <2>1, <2>2, ShieldBlockStep
<1>4. CASE HSetAdaptation
  BY <1>4, ShieldSwitchStep
<1>5. CASE HReset
  BY <1>5, ShieldResetStep
<1>6. CASE UNCHANGED hvars
  BY <1>6 DEF hvars, ShieldInv
<1>7. QED
  BY <1>2, <1>3, <1>4, <1>5, <1>6 DEF HNext

LEMMA ShieldInvImplies == ASSUME HostInv, ShieldInv PROVE OnlyOverflowLeaks
<1>1. Leaks(unit, out, hist) /\ IsUnit(unit, Values) /\ hist \in HistorySet
  BY DEF HostInv, Sound, Typed
<1>2. QED
  BY <1>1 DEF Leaks, ShieldInv, OnlyOverflowLeaks, HistorySet

-------------------------------------------------------------------------------
(* The theorems *)

\* Every reachable state of a host and its unit satisfies the inductive invariant.
THEOREM HostAlwaysSound == HSpec => []HostInv
<1>1. HInit => HostInv
  BY InitIsSound
<1>2. HostInv /\ [HNext]_hvars => HostInv'
  BY HostStep
<1>3. QED
  BY <1>1, <1>2, PTL DEF HSpec

\* The policy's fields stay within what the code's types and clamps allow.
THEOREM PolicyAlwaysTyped == HSpec => []PolicyTypeOK
<1>1. HostInv => PolicyTypeOK
  BY HostInvImplies
<1>2. QED
  BY <1>1, HostAlwaysSound, PTL

\* Whatever the host feeds a unit that checks itself, no block with a non-finite
\* sample leaves it but from a prewhitened canceller that took a faulty block
\* while frozen, and none leaves any unit before its first faulty block.
THEOREM OnlyOverflowsLeak == HSpec => []OnlyOverflowLeaks
<1>1. HInit => ShieldInv
  BY ShieldInit
<1>2. HostInv /\ ShieldInv /\ [HNext]_hvars => ShieldInv'
  BY ShieldStep
<1>3. HostInv /\ ShieldInv => OnlyOverflowLeaks
  BY ShieldInvImplies
<1>4. QED
  BY <1>1, <1>2, <1>3, HostAlwaysSound, PTL DEF HSpec

\* The receive guard's certificate is granted exactly when it was earned since
\* the last restart.
THEOREM CertificateAlwaysEarned == HSpec => []CertificateEarned
<1>1. HostInv => CertificateEarned
  BY HostInvImplies
<1>2. QED
  BY <1>1, HostAlwaysSound, PTL

\* Two lifts without a restart between them are at least the cooldown apart,
\* whichever of the two triggers fires.
THEOREM LiftsAlwaysSpaced == HSpec => []LiftsSpaced
<1>1. HostInv => LiftsSpaced
  BY HostInvImplies
<1>2. QED
  BY <1>1, HostAlwaysSound, PTL

\* Before the first faulty block since a restart, a lift rests on its own hold
\* of blocks of evidence, none of them spent by an earlier lift.
THEOREM LiftsRestOnEvidence == HSpec => []LiftOnEvidence
<1>1. HostInv => LiftOnEvidence
  BY HostInvImplies
<1>2. QED
  BY <1>1, HostAlwaysSound, PTL

\* A poisoned core that adapts resets itself within two more blocks that
\* update, whatever its configuration, and in whatever unit it works.
THEOREM PoisonIsCaught == HSpec => []Caught
<1>1. HInit => SickInv
  BY DEF HInit, FreshHistory, SickInv
<1>2. HostInv /\ SickInv /\ [HNext]_hvars => SickInv'
  BY SickStep
<1>3. SickInv => Caught
  BY DEF SickInv, Caught
<1>4. QED
  BY <1>1, <1>2, <1>3, HostAlwaysSound, PTL DEF HSpec

\* Whatever an overflow leaves in a chain with the classical suppressor and its
\* comfort noise, without the narrowband guard, is gone within the bound of the
\* last faulty block, while the canceller adapts: the core resets itself or is a
\* filter again, and then the floor tracker's fill overflows and trips the chain.
THEOREM ChainsHeal == HSpec => []Heals
<1>1. HInit => HealInv
  BY HealInit
<1>2. HostInv /\ HealInv /\ [HNext]_hvars => HealInv'
  BY HealStep
<1>3. HostInv /\ HealInv => Heals
  BY HealInvImplies
<1>4. QED
  BY <1>1, <1>2, <1>3, HostAlwaysSound, PTL DEF HSpec

\* A trip of any stage of any unit leaves everything behind it as after a reset.
THEOREM TripsStartAfresh == HSpec => TripStartsAfresh
<1>1. HostInv /\ [HNext]_hvars => [StageTripped => StartsAfresh]_hvars
  BY HostStep
<1>2. QED
  BY <1>1, HostAlwaysSound, PTL DEF HSpec, TripStartsAfresh
=============================================================================
