----------------------------- MODULE MCEchoHost -----------------------------
(***************************************************************************)
(* EchoHost on small units: bare cores and prewhitened cancellers of two       *)
(* partitions, chains of one.                                               *)
(***************************************************************************)
EXTENDS EchoHostHistory

Nlms == FdafConfig(2, TRUE, "scale", TRUE)

Fdkf == KalmanConfig(2, FALSE, FALSE, 0)

BareCores ==
    {BareUnit(c) : c \in {Fdkf, Nlms, FdafConfig(2, FALSE, "freeze", TRUE), KalmanConfig(2, TRUE, TRUE, 2)}}

PemOf(core, model, shadow) == Pem(PemConfig(core, model, 2, 1, shadow))

Cancellers ==
    {PemOf(Fdkf, "speech", 1), PemOf(Fdkf, "warped", 0), PemOf(FdafConfig(1, TRUE, "none", FALSE), "warped", 0)}

\* Every analysis window a constructor accepts is at least four blocks.
Classical == ResidualConfig(4, 2, TRUE)

Learned == NnConfig(2, TRUE)

ChainOf(post, guard) == Aec(AecConfig(KalmanConfig(1, FALSE, FALSE, 0), post, guard, 1))

AllUnits == BareCores \cup Cancellers \cup {ChainOf(Classical, TRUE), ChainOf(Learned, FALSE)}

OneChain == {ChainOf(Classical, TRUE)}

FaultsPerKind == [core |-> 1, afc |-> 2, aec |-> 1]
=============================================================================
