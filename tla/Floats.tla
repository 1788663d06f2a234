------------------------------- MODULE Floats -------------------------------
(***************************************************************************)
(* What the watchdog (watchdog.h) tells apart of a Sample, of a block or    *)
(* of a spectrum: the class of its worst value. "fin" is the range of audio, *)
(* "huge" a finite value whose square overflows (about 2e19 in float), and   *)
(* the rest is IEEE 754: an infinity and a NaN survive every sum and         *)
(* product, inf - inf and 0 * inf are NaN. One bad sample makes every bin of *)
(* its block's spectrum bad (watchdog.h, "why a spectrum slot sees the whole *)
(* block"), so a vector has one class.                                       *)
(***************************************************************************)
EXTENDS Naturals

Values == {"zero", "fin", "huge", "inf", "nan"}

Finite(v) == v \in {"zero", "fin", "huge"}

Rank(v) == CASE v = "zero" -> 0 [] v = "fin" -> 1 [] v = "huge" -> 2 [] v = "inf" -> 3 [] v = "nan" -> 4

Worst(a, b) == IF Rank(a) >= Rank(b) THEN a ELSE b

WorstOf(S) == CHOOSE v \in S : \A w \in S : Rank(w) <= Rank(v)

\* A sum or a difference of signed values; Worst is the sum of two powers.
Plus(a, b) == IF a = "inf" /\ b = "inf" THEN "nan" ELSE Worst(a, b)

Times(a, b) ==
    IF "nan" \in {a, b} \/ {a, b} = {"zero", "inf"} THEN "nan"
    ELSE IF "inf" \in {a, b} \/ {a, b} = {"huge"} THEN "inf"
    ELSE IF "zero" \in {a, b} THEN "zero"
    ELSE Worst(a, b)

Square(a) == Times(a, a)

\* a / b for a positive denominator (every one has a regularisation).
Over(a, b) ==
    IF "nan" \in {a, b} \/ {a, b} = {"inf"} THEN "nan"
    ELSE IF b = "inf" THEN "zero"
    ELSE a

\* The one-pole m += c * (x - m), 0 < c < 1: an infinity becomes a NaN in the
\* next block. (The form c * m + (1 - c) * x keeps it: that one is Worst.)
Chase(m, x) == Plus(m, Plus(x, m))

\* A product of a huge and an ordinary factor may or may not be huge.
Settled(v, loud) == IF v = "huge" /\ ~loud THEN "fin" ELSE v

\* watchdog.h: the two sums the stages check.
FiniteSum(v) == Finite(v)
FinitePower(v) == Finite(Square(v))
=============================================================================
