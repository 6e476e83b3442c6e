---------------------------- MODULE MCGenDecoder ----------------------------
(***************************************************************************)
(* GenDecoder over the queries of small encoders, computed from their      *)
(* unrollings.                                                             *)
(***************************************************************************)
EXTENDS GenDecoder

CONSTANTS
  Suite,     \* the encoders to run it for, by name
  MaxBound   \* cap on the bounds the inference may end with

E == INSTANCE MCEncoders

\* Encoders whose window is the last output, those that need an earlier one,
\* those that need two, those no stage of registers tells the input of, those
\* no decoder is written for, and all of them with the small ones.
Serial == <<E!DelayLine(1, FALSE), E!DelayLine(2, FALSE),
            E!DelayLine(3, FALSE), E!Plain>>
Parallel == <<E!Valid, E!ValidPiped, E!ValidAlways, E!Exchange>>
Hidden == <<E!Masked, E!DelayLine(2, TRUE)>>
LookBack == <<E!SelfSynchronising, E!DelayLine(2, FALSE), E!Valid>>
Skewed == <<E!Skew, E!DelayLine(2, FALSE), E!Valid>>
Undecoded == <<E!Announced, E!DualRail>>

Candidates ==
  CASE Suite = "LookBack" -> LookBack
    [] Suite = "Skewed" -> Skewed
    [] Suite = "Announced" -> <<E!Announced>>
    [] Suite = "All" -> Serial \o Parallel \o Hidden \o LookBack \o Skewed \o Undecoded
                          \o [k \in 1 .. 256 |-> E!OneBitMachine(k - 1)]

Bits(e) == DOMAIN (CHOOSE i \in e.inputs : TRUE)

Bound == 3 .. MaxBound

Widest(e) == E!AmbiguityByFrame(e, 2 * MaxBound, MaxBound, 3 * MaxBound)

\* The bits procDetermineUniqueInputs finds; relational_code ends without any.
Unique(e) == {k \in Bits(e) : \A m \in Widest(e) : m[1][k] = m[2][k]}
HasUnique(e) == Unique(e) # {}

Machines == SelectSeq(Candidates, HasUnique)

(***************************************************************************)
(* The answers of both queries for an encoder, by bound b, frames moved    *)
(* from l to p, and r; and by bound b, l2right, and r; the unique bits;    *)
(* and the inputs the predicate admits.                                    *)
(***************************************************************************)
Answers(e) ==
  LET uniq == Unique(e)
      \* what the unique bits say of an input, and when they leave others open
      Known(i) == E!Table([k \in uniq |-> i[k]])
      open == {Known(m[1]) : m \in {w \in Widest(e) : w[1] # w[2]}}
      \* the predicate is forced in one copy or the other, and a difference
      Loses(M) == \E m \in M : /\ m[1] # m[2]
                               /\ Known(m[1]) \notin open \/ Known(m[2]) \notin open
  IN [uniq |-> uniq,
      valid |-> {i \in e.inputs : Known(i) \notin open},
      lost |-> E!Table([w \in Bound \X (0 .. MaxBound) \X (0 .. MaxBound) |->
                 Loses(E!AmbiguityByFrame(e, 2 * w[1], w[1] + w[2], 2 * w[1] + w[3]))]),
      late |-> E!Table([w \in Bound \X (0 .. MaxBound) \X (0 .. MaxBound) |->
                 Loses(E!AmbiguityByFrame(e, 2 * w[1], 2 * w[1] + w[2], 2 * w[1] + w[3]))])]

AnswerTable == E!Table([n \in DOMAIN Machines |-> Answers(Machines[n])])

MCEncoder == DOMAIN Machines

\* The bound of the window p, l, _ that a search may reach.
BoundOf(p1, l1) == (p1 + l1) \div 2

MCLost(n, p1, l1, r1) == AnswerTable[n].lost[<<BoundOf(p1, l1), p1 - BoundOf(p1, l1), r1>>]
MCLostLate(n, p1, k, r1) == AnswerTable[n].late[<<BoundOf(p1, 0), k, r1>>]
MCStart(n) == {b \in Bound : ~MCLost(n, b, b, b)}

-----------------------------------------------------------------------------
MCOuts(n) == {E!OutBits}
MCDffs(n) == {E!DffBit(k) : k \in DOMAIN (CHOOSE s \in Machines[n].states : TRUE)}
MCIns(n) == {E!InBit(k) : k \in Bits(Machines[n])}

MCFlowIns(n) == {E!InBit(k) : k \in AnswerTable[n].uniq}

\* Without the predicate every input is admitted.
MCDecides(n, p1, r1, U, posU, d, posDiff, forced) ==
  \A e \in {Machines[n]} :
    \A valid \in {IF forced THEN AnswerTable[n].valid ELSE e.inputs} :
      E!DecidedByFrame(e, valid, p1, r1, U, posU, d, posDiff)

MCDetermines(n, p1, r1, U, posU, d, posDiff) ==
  \A e \in {Machines[n]} :
    E!DeterminedByFrame(e, AnswerTable[n].valid, p1, r1, U, posU, d, posDiff)
=============================================================================
