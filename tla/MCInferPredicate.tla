-------------------------- MODULE MCInferPredicate --------------------------
(***************************************************************************)
(* InferPredicate over the contexts of small encoders, computed from their *)
(* unrollings.                                                             *)
(***************************************************************************)
EXTENDS InferPredicate, Sequences

CONSTANT Suite  \* the encoders to run it for, by name

E == INSTANCE MCEncoders
Q == INSTANCE PredicateFrames

\* Encoders without an assertion and with one, and samples of both.
Named == <<E!Valid, E!ValidPiped, E!Exchange, E!Accumulator, E!Scrambler, E!Mute,
           E!Guarded, E!ValidAlways, E!GatedWarmUp, E!ModThree>>
Samples == [j \in 1 .. 48 |-> E!Gated((j * 1371) % 65536, IF j % 3 = 0 THEN 2^(j % 8) ELSE 0)]
             \o [j \in 1 .. 24 |-> E!Moded((j * 157) % 256, IF j % 3 = 0 THEN 2^(j % 8) ELSE 0)]

Machines ==
  CASE Suite = "All" -> Named \o Samples
    [] Suite = "Valid" -> <<E!Valid>>

\* What procDetermineUniqueInputs finds: the unique bits, and their windows.
Undecided(e, n) ==
  {k \in Q!Bits(e) : \E m \in E!AmbiguityByFrame(e, 2 * n, n, 3 * n) : m[1][k] # m[2][k]}

UniqueBits == [m \in DOMAIN Machines |-> Q!Bits(Machines[m]) \ Undecided(Machines[m], MaxB)]

Widest ==
  E!Table([m \in DOMAIN Machines |->
    CHOOSE n \in 3 .. MaxB : /\ Undecided(Machines[m], n) \cap UniqueBits[m] = {}
                             /\ \A i \in 3 .. (n - 1) :
                                  Undecided(Machines[m], i) \cap UniqueBits[m] # {}])

\* The encoders of which relational_code does not give up at once.
MCEncoder == {m \in DOMAIN Machines : UniqueBits[m] # {}}

NonloopTable ==
  E!Table([x \in MCEncoder \X (3 .. MaxB) |->
    Q!NonloopQueryByFrame(Machines[x[1]], UniqueBits[x[1]], x[2], x[2], x[2])])

LoopTable ==
  E!Table([x \in MCEncoder \X (3 .. MaxB) |->
    Q!LoopQueryByFrame(Machines[x[1]], UniqueBits[x[1]], x[2], x[2], x[2])])

MCValue(m) == Q!Values(Machines[m], UniqueBits[m])
MCMaxN(m) == Widest[m]
MCNonloopContexts(m, n) == NonloopTable[<<m, n>>]
MCLoopContexts(m, n) == LoopTable[<<m, n>>]
=============================================================================
