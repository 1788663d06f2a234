----------------------------- MODULE Predictor -----------------------------
(***************************************************************************)
(* The near-end models of lpc.h as the canceller uses them: analyze() fits    *)
(* the window, apply() whitens a stream. A fit is "identity", "short" (LP      *)
(* coefficients) or "voiced" (LP and a pitch tap). A stream is a record: past  *)
(* the last inputs (for the warped model its allpass states), ring the         *)
(* short-term residuals of the last blocks, newest first (speech only).        *)
(***************************************************************************)
EXTENDS Floats

NoFit == "identity"

\* The identity on a silent window and on an r[0] that is not finite.
Levinson(window) == IF Square(window) = "fin" THEN "short" ELSE NoFit

FittedWarped(window) == Levinson(window)

\* On an identity the lag search skips every lag or never beats its best.
FittedSpeech(window, k) == IF Levinson(window) # NoFit /\ k.voiced THEN "voiced" ELSE Levinson(window)

Fitted(window, model, k) == IF model = "warped" THEN FittedWarped(window) ELSE FittedSpeech(window, k)

Stream(ring) == [past |-> "zero", ring |-> [i \in 1 .. ring |-> "zero"]]

Coefficient(fit) == IF fit = NoFit THEN "zero" ELSE "fin"

\* The FIR whitener. A zero coefficient times an infinity is a NaN.
ShortTerm(s, in, fit) ==
    WorstOf({in, Times(Coefficient(fit), in), Times(Coefficient(fit), s.past)})

\* What the pitch tap makes of the short-term residual st.
Cascaded(s, in, st, fit) ==
    [out |-> IF fit = "voiced" THEN WorstOf({st} \cup {s.ring[i] : i \in DOMAIN s.ring}) ELSE st,
     stream |-> [past |-> in, ring |-> [i \in DOMAIN s.ring |-> IF i = 1 THEN st ELSE s.ring[i - 1]]]]

ApplySpeech(s, in, fit) == Cascaded(s, in, ShortTerm(s, in, fit), fit)

\* The allpass sections forget a finite past within a block (lambda^block),
\* a non-finite one never.
Chained(s, in, past, fit) ==
    [out |-> WorstOf({in, Times(Coefficient(fit), past)}),
     stream |-> [s EXCEPT !.past = IF Finite(past) THEN in ELSE past]]

ApplyWarped(s, in, fit) == Chained(s, in, Worst(s.past, in), fit)

Apply(model, s, in, fit) == IF model = "warped" THEN ApplyWarped(s, in, fit) ELSE ApplySpeech(s, in, fit)
=============================================================================
