------------------------------ MODULE MCUnroll ------------------------------
(***************************************************************************)
(* Small encoders with the clauses of one instance written out from their  *)
(* truth tables: registers of one bit and of two, one input bit or two,    *)
(* none at all, and an assertion.                                          *)
(***************************************************************************)
EXTENDS UnrollMeaning

LOCAL INSTANCE SequencesExt

Vectors(n) == [1 .. n -> BOOLEAN]

\* The registers of a state, whose bits are s, in order: one or one for each bit.
Registers(wide, s) == IF wide THEN <<s>> ELSE [n \in DOMAIN s |-> <<s[n]>>]

\* Literals that are false together exactly if the variables vs have the values b.
Differs(vs, b) == {IF b[n] THEN -vs[n] ELSE vs[n] : n \in DOMAIN vs}

\* The clauses that give the variables ys the value Y(b) where vs have the value b.
Table(vs, ys, Y(_)) ==
  UNION {{Differs(vs, b) \cup {IF Y(b)[n] THEN ys[n] ELSE -ys[n]} : n \in DOMAIN ys} :
           b \in Vectors(Len(vs))}

(***************************************************************************)
(* An encoder of n state, m input and k output bits.  The functions are of *)
(* the state bits followed by the input bits; vars 1 and 2 are truepred    *)
(* and falsepred, then come the inputs, the outputs, the assertion and the *)
(* registers.                                                              *)
(***************************************************************************)
Instance(n, m, k, wide, nxt(_), out(_), ok(_)) ==
  LET ins == Fresh(3, m)
      outs == Fresh(3 + m, k)
      ass == <<3 + m + k>>
      base == 4 + m + k
      cur == IF wide THEN Fresh(base, n) ELSE [j \in 1 .. n |-> base + 2 * (j - 1)]
      next == IF wide THEN Fresh(base + n, n) ELSE [j \in 1 .. n |-> base + 2 * (j - 1) + 1]
      S == {Registers(wide, s) : s \in Vectors(n)}
      Of(x) == FlattenSeq(x[1]) \o x[2]
  IN [clause_list |-> {{truepred}, {-falsepred}}
                        \cup Table(cur \o ins, next, nxt)
                        \cup Table(cur \o ins, outs, out)
                        \cup Table(cur \o ins, ass, LAMBDA b : <<ok(b)>>),
      final_index_oneinst |-> base + 2 * n + 1,
      dffs |-> IF wide THEN <<[current |-> base, width |-> n]>>
               ELSE [j \in 1 .. n |-> [current |-> cur[j], width |-> 1]],
      instr |-> ins, outstr |-> outs, assertion |-> ass,
      encoder |-> [states |-> S, inputs |-> Vectors(m),
                   nxt |-> [x \in S \X Vectors(m) |-> Registers(wide, nxt(Of(x)))],
                   out |-> [x \in S \X Vectors(m) |-> out(Of(x))],
                   ok |-> [x \in S \X Vectors(m) |-> ok(Of(x))]]]

Yes(b) == TRUE

Unconstrained(e1) == [e1 EXCEPT !.assertion = <<>>]

Delay == Instance(1, 1, 1, FALSE, LAMBDA b : <<b[2]>>, LAMBDA b : <<b[1]>>, Yes)
Sync == Instance(1, 1, 1, FALSE, LAMBDA b : <<b[1] # b[2]>>, LAMBDA b : <<b[1] # b[2]>>, Yes)
\* Three times the same input is ruled out.
Asserted == Instance(2, 1, 1, FALSE, LAMBDA b : <<b[2], b[3]>>, LAMBDA b : <<b[1]>>,
                     LAMBDA b : ~(b[1] = b[2] /\ b[2] = b[3]))
Two == Instance(1, 2, 2, FALSE, LAMBDA b : <<b[2]>>, LAMBDA b : <<b[1], b[2] /\ b[3]>>, Yes)

\* No inputs: a counter in one register, and a pair of bits that change places.
Wide == Instance(2, 0, 1, TRUE, LAMBDA b : <<b[1] # b[2], ~b[2]>>, LAMBDA b : <<b[2]>>, Yes)
Swap == Instance(2, 0, 1, FALSE, LAMBDA b : <<b[2], b[1]>>, LAMBDA b : <<b[1]>>, Yes)
\* One register takes the input while the counter is at zero.
Load == Instance(2, 1, 1, TRUE, LAMBDA b : <<b[1] # b[2], b[3] /\ b[1]>>, LAMBDA b : <<b[2]>>,
                 LAMBDA b : b[3] = (b[1] /\ b[2]))

MCInstances ==
  {Unconstrained(Delay), Unconstrained(Sync), Asserted, Two, Unconstrained(Wide), Swap, Load}

Short == {<<0, 0, 1>>, <<1, 0, 0>>}

\* An encoder without a choice of inputs has few runs and is unrolled further.
MCBounds(i) ==
  CASE i \in {Unconstrained(Wide), Swap, Load} -> Short \cup {<<1, 1, 2>>, <<2, 1, 3>>, <<3, 3, 3>>}
    [] i = Two -> Short
    [] OTHER -> Short \cup {<<0, 1, 0>>, <<1, 1, 0>>}

MCSplits(i) ==
  CASE Len(i.instr) = 0 -> {<<<<>>, <<>>>>}
    [] Len(i.instr) = 1 -> {<<i.instr, <<>>>>, <<<<>>, i.instr>>}
    [] Len(i.instr) = 2 -> {<<<<>>, i.instr>>, <<<<i.instr[2]>>, <<i.instr[1]>>>>}
=============================================================================
