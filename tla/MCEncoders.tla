----------------------------- MODULE MCEncoders -----------------------------
(***************************************************************************)
(* Small encoders to run the queries on.                                   *)
(***************************************************************************)
EXTENDS EncoderFrames, Sequences, Functions

Valuations(n) == [1 .. n -> BOOLEAN]

\* The state and input bits of a machine of n register and m input bits.
Steps(n, m) == Valuations(n) \X Valuations(m)

(***************************************************************************)
(* An encoder from its functions on plain tuples of state and input bits:  *)
(* wide if all the state bits are one register, not one register each.     *)
(***************************************************************************)
Pack(wide, s) == IF wide THEN <<s>> ELSE [n \in DOMAIN s |-> <<s[n]>>]
Unpack(wide, t) == IF wide THEN t[1] ELSE [n \in DOMAIN t |-> t[n][1]]

Machine(n, m, wide, nxt, out, ok) ==
  LET S == {Pack(wide, s) : s \in Valuations(n)}
      D == S \X Valuations(m)
  IN [states |-> S,
      inputs |-> Valuations(m),
      nxt    |-> Table([x \in D |-> Pack(wide, nxt[<<Unpack(wide, x[1]), x[2]>>])]),
      out    |-> Table([x \in D |-> out[<<Unpack(wide, x[1]), x[2]>>]]),
      ok     |-> Table([x \in D |-> ok[<<Unpack(wide, x[1]), x[2]>>]])]

Always(n, m) == [x \in Steps(n, m) |-> TRUE]

\* One register per state bit, and no assertion.
Free(n, m, nxt, out) == Machine(n, m, FALSE, nxt, out, Always(n, m))

(***************************************************************************)
(* One input bit.                                                          *)
(***************************************************************************)
\* Every machine of one register bit, one input bit and one output bit: its
\* transition and output tables are the eight bits of k.
Bit(k, n) == (k \div 2^n) % 2 = 1
Digits(s) == [j \in DOMAIN s |-> IF s[j] THEN 2^(j - 1) ELSE 0]
Index(s) == FoldFunction(+, 0, Digits(s))

OneBitMachine(k) ==
  LET Entry(x) == Index(x[2] \o x[1])
  IN Free(1, 1, [x \in Steps(1, 1) |-> <<Bit(k, Entry(x))>>],
                [x \in Steps(1, 1) |-> Bit(k, 4 + Entry(x))])

\* The input is put out at once.
Plain == Free(0, 1, [x \in Steps(0, 1) |-> x[1]], [x \in Steps(0, 1) |-> x[2]])

\* The input comes out n instants later: it shifts through the state bits.
DelayLine(n, wide) ==
  Machine(n, 1, wide,
          [x \in Steps(n, 1) |-> [k \in 1 .. n |-> IF k = n THEN x[2][1] ELSE x[1][k + 1]]],
          [x \in Steps(n, 1) |-> x[1][1]], Always(n, 1))

\* The input is put out once a three-bit counter has run down to zero.
Number(s) == (IF s[1] THEN 4 ELSE 0) + (IF s[2] THEN 2 ELSE 0) + (IF s[3] THEN 1 ELSE 0)
CountDown(s) == CHOOSE t \in Valuations(3) :
                  Number(t) = IF Number(s) = 0 THEN 0 ELSE Number(s) - 1
WarmUp(wide) ==
  Machine(3, 1, wide, [x \in Steps(3, 1) |-> CountDown(x[1])],
          [x \in Steps(3, 1) |-> Number(x[1]) = 0 /\ x[2][1]], Always(3, 1))

\* A self-synchronising scrambler: the input xored with the last word put out.
SelfSynchronising ==
  Free(1, 1, [x \in Steps(1, 1) |-> <<x[1][1] # x[2][1]>>],
       [x \in Steps(1, 1) |-> x[1][1] # x[2][1]])

(***************************************************************************)
(* Two input bits: the data bit x[2][1] and the valid bit x[2][2].         *)
(***************************************************************************)
\* The data is put out if it is valid, an idle word if not.
Valid == Free(0, 2, [x \in Steps(0, 2) |-> x[1]],
              [x \in Steps(0, 2) |-> <<x[2][2], x[2][2] /\ x[2][1]>>])

\* The same behind a stage of registers.
ValidPiped == Free(2, 2, [x \in Steps(2, 2) |-> x[2]],
                   [x \in Steps(2, 2) |-> <<x[1][2], x[1][2] /\ x[1][1]>>])

\* Idle words are never taken in: the assertion forces the valid bit.
ValidAlways == Machine(1, 2, FALSE, [x \in Steps(1, 2) |-> <<x[2][1]>>],
                       [x \in Steps(1, 2) |-> x[1][1]], [x \in Steps(1, 2) |-> x[2][2]])

\* A scrambler: the data is put out xored with the word put out before.
Scrambler == Free(1, 2, [x \in Steps(1, 2) |-> <<x[1][1] # x[2][1]>>],
                  [x \in Steps(1, 2) |-> <<x[2][2], x[1][1] # x[2][1]>>])

\* Valid data is accumulated, invalid data leaves the register alone.
Accumulator == Free(1, 2, [x \in Steps(1, 2) |->
                             <<IF x[2][2] THEN x[1][1] # x[2][1] ELSE x[1][1]>>],
                    [x \in Steps(1, 2) |-> <<x[1][1], x[2][2]>>])

\* Only the parity of the two bits is put out.
Parity == Free(0, 2, [x \in Steps(0, 2) |-> x[1]], [x \in Steps(0, 2) |-> x[2][1] # x[2][2]])

\* The two bits take turns.
TakeTurns == Free(2, 2, [x \in Steps(2, 2) |-> <<~x[1][1], x[2][2]>>],
                  [x \in Steps(2, 2) |-> IF x[1][1] THEN x[2][1] ELSE x[1][2]])

\* The toggle is part of the output: every other bit is lost.
Toggle == Free(1, 2, [x \in Steps(1, 2) |-> <<~x[1][1]>>],
               [x \in Steps(1, 2) |-> <<x[1][1], IF x[1][1] THEN x[2][1] ELSE x[2][2]>>])

\* The state remembers the first valid data for ever.
Latch == Free(2, 2, [x \in Steps(2, 2) |-> IF x[1][2] THEN x[1] ELSE x[2]],
              [x \in Steps(2, 2) |-> <<x[1][1] /\ x[1][2], x[1][2]>>])

\* The valid bit is put out at once, the data only after the count-down.
ValidWarmUp == Free(3, 2, [x \in Steps(3, 2) |-> CountDown(x[1])],
                    [x \in Steps(3, 2) |-> <<x[2][2], Number(x[1]) = 0 /\ x[2][1]>>])

\* The count-down runs while the valid bit is low, and lost data is lost.
LossyWarmUp == Free(3, 2, [x \in Steps(3, 2) |-> IF x[2][2] THEN x[1] ELSE CountDown(x[1])],
                    [x \in Steps(3, 2) |-> <<x[2][2], Number(x[1]) = 0 /\ x[2][1]>>])

\* The first bit is put out after the count-down, the second never.
MuteWarmUp == Free(3, 2, [x \in Steps(3, 2) |-> CountDown(x[1])],
                   [x \in Steps(3, 2) |-> Number(x[1]) = 0 /\ x[2][1]])

\* The two bits are exchanged while the register is set.
Exchange == Free(1, 2, [x \in Steps(1, 2) |-> <<x[2][1]>>],
                 [x \in Steps(1, 2) |-> IF x[1][1] THEN <<x[2][2], x[2][1]>> ELSE x[2]])

\* A bit masked by another register before its own and unmasked after it: it
\* is put out, and yet the outputs do not tell either register.
Masked == Free(2, 1, [x \in Steps(2, 1) |-> <<x[1][2] # x[2][1], x[1][2]>>],
               [x \in Steps(2, 1) |-> x[1][1] # x[1][2]])

\* The first bit comes out one instant before the second.
Skew == Free(1, 2, [x \in Steps(1, 2) |-> <<x[2][2]>>],
             [x \in Steps(1, 2) |-> <<x[2][1], x[1][1]>>])

\* Valid data comes out in one of two places, by whether the register is set:
\* with the assertion that the register and the valid bit never are at once.
Guarded == Machine(1, 2, FALSE, [x \in Steps(1, 2) |-> <<x[2][1]>>],
                   [x \in Steps(1, 2) |-> <<x[2][2], x[2][2] /\ x[2][1]>>],
                   [x \in Steps(1, 2) |-> ~(x[1][1] /\ x[2][2])])

\* Valid data comes out one instant later in two places that differ; that no
\* register is known by itself is a matter of the encoding.
DualRail == Free(2, 2, [x \in Steps(2, 2) |-> <<x[2][1], x[2][1] # x[2][2]>>],
                 [x \in Steps(2, 2) |-> IF x[1][1] # x[1][2] THEN <<TRUE, x[1][1]>>
                                                            ELSE <<FALSE, FALSE>>])

\* Data x[2][3] is put out one instant after it was valid, x[2][1]; x[2][2],
\* which never comes with valid data, is put out at once and then forgotten.
Announced ==
  Machine(2, 3, FALSE, [x \in Steps(2, 3) |-> <<x[2][1], x[2][3]>>],
          [x \in Steps(2, 3) |-> <<x[1][1], x[1][1] /\ x[1][2], x[2][2]>>],
          [x \in Steps(2, 3) |-> ~(x[2][1] /\ x[2][2])])

(***************************************************************************)
(* Data bits x[2][1] behind valid bits that are put out at once: the       *)
(* tables of the next state and of the other output bit are the bits of k, *)
(* and the assertion is the table a.                                       *)
(***************************************************************************)
Gated(k, a) ==
  LET Entry(x) == Index(x[1] \o x[2])
  IN Machine(1, 2, FALSE, [x \in Steps(1, 2) |-> <<Bit(k, Entry(x))>>],
             [x \in Steps(1, 2) |-> <<x[2][2], Bit(k, 8 + Entry(x))>>],
             [x \in Steps(1, 2) |-> ~Bit(a, Entry(x))])

\* Two valid bits and no register.
Moded(k, a) ==
  Machine(0, 3, FALSE, [x \in Steps(0, 3) |-> x[1]],
          [x \in Steps(0, 3) |-> <<x[2][2], x[2][3], Bit(k, Index(x[2]))>>],
          [x \in Steps(0, 3) |-> ~Bit(a, Index(x[2]))])

\* The first bit is put out, the second never.
Mute == Free(0, 2, [x \in Steps(0, 2) |-> x[1]], [x \in Steps(0, 2) |-> x[2][1]])

\* Valid data is put out, once the count-down that always runs is over.
GatedWarmUp == Free(3, 2, [x \in Steps(3, 2) |-> CountDown(x[1])],
                    [x \in Steps(3, 2) |-> <<x[2][2], Number(x[1]) = 0 /\ x[2][2] /\ x[2][1]>>])

\* Valid data is put out, next to a counter that runs modulo three.
ModThree == Free(2, 2, [x \in Steps(2, 2) |-> <<~x[1][1] /\ x[1][2], ~x[1][1] /\ ~x[1][2]>>],
                 [x \in Steps(2, 2) |-> <<x[1], x[2][2], x[2][2] /\ x[2][1]>>])
=============================================================================
