--------------------------- MODULE MCUniqueInputs ---------------------------
(***************************************************************************)
(* UniqueInputs over tables of the formulas of small encoders.             *)
(***************************************************************************)
EXTENDS UniqueInputs, Sequences

CONSTANT Suite  \* the encoders to run it for, by name

E == INSTANCE MCEncoders

\* The machines of one input bit, and those of two.
OneBit == [k \in 1 .. 256 |-> E!OneBitMachine(k - 1)]
            \o <<E!DelayLine(2, FALSE), E!DelayLine(3, FALSE),
                 E!WarmUp(FALSE)>>
TwoBit == <<E!ValidWarmUp, E!LossyWarmUp, E!Exchange, E!Valid, E!ValidPiped, E!ValidAlways,
            E!Scrambler, E!Accumulator, E!Parity, E!TakeTurns, E!Toggle, E!Latch,
            E!Skew, E!Guarded, E!MuteWarmUp>>
WideRegister == <<E!DelayLine(2, TRUE), E!DelayLine(4, TRUE), E!WarmUp(TRUE)>>

Machines == IF Suite = "Registers" THEN OneBit \o TwoBit ELSE WideRegister

\* An input bit that a machine lacks is one that an assertion ties high.
Tied(i) == [b \in Bit |-> IF b \in DOMAIN i THEN i[b] ELSE TRUE]
Inputs(M) == {<<Tied(m[1]), Tied(m[2])>> : m \in M}

NonloopTable == E!Table([n \in DOMAIN Machines |->
  E!Table([b \in Bnd0 + 1 .. MaxBnd |-> Inputs(E!NonloopByFrame(Machines[n], b, b, b))])])

LoopTable == E!Table([n \in DOMAIN Machines |->
  E!Table([b \in Bnd0 + 1 .. MaxBnd |-> Inputs(E!LoopByFrame(Machines[n], b, b, b))])])

MCEncoder == DOMAIN Machines
MCNonloop(n, b) == NonloopTable[n][b]
MCLoop(n, b) == LoopTable[n][b]
=============================================================================
