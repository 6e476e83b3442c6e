---------------------------- MODULE UnrollMeaning ----------------------------
(***************************************************************************)
(* The clauses of a query against the assignments that Encoder says it     *)
(* has: the link between the variables of Unroll and the windows that the  *)
(* other modules work with.  Each instance carries its encoder.            *)
(***************************************************************************)
EXTENDS Unroll, Models

Enc == INSTANCE Encoder

enc == inst.encoder

-----------------------------------------------------------------------------
(***************************************************************************)
(* What a valuation of the variables of encoder i says of frame k: the     *)
(* state, the inputs, the next state, the outputs and the assertion.       *)
(***************************************************************************)
Register(i, n, off, v, k) ==
  [b \in 1 .. i.dffs[n].width |-> v[i.dffs[n].current + off + b - 1 + k * i.final_index_oneinst]]

StateIn(i, v, k) == [n \in DOMAIN i.dffs |-> Register(i, n, 0, v, k)]
NextIn(i, v, k) == [n \in DOMAIN i.dffs |-> Register(i, n, i.dffs[n].width, v, k)]

BitsIn(i, s, v, k) == [n \in DOMAIN s |-> v[s[n] + k * i.final_index_oneinst]]

AssertedIn(i, v, k) == \A n \in DOMAIN i.assertion : v[i.assertion[n] + k * i.final_index_oneinst]

(***************************************************************************)
(* The models of the clauses of one instance are the transitions of the    *)
(* encoder (see EncodeModule for how they come about).                     *)
(***************************************************************************)
ASSUME EncoderAssumption ==
  \A i \in Instances :
    LET Models1 == {u \in [1 .. (i.final_index_oneinst - 2) -> BOOLEAN] : SatisfiesAll(u, i.clause_list)}
        At(u) == <<StateIn(i, u, 0), BitsIn(i, i.instr, u, 0)>>
        Transitions == i.encoder.states \X i.encoder.inputs
    IN /\ i.encoder.nxt \in [Transitions -> i.encoder.states]
       /\ \A x \in Transitions : \E u \in Models1 : At(u) = x
       /\ \A u \in Models1 :
            /\ At(u) \in Transitions
            /\ i.encoder.nxt[At(u)] = NextIn(i, u, 0)
            /\ i.encoder.out[At(u)] = BitsIn(i, i.outstr, u, 0)
            /\ i.encoder.ok[At(u)] = AssertedIn(i, u, 0)

\* A partition is one of the protocol inputs.
ASSUME PartitionAssumption ==
  \A i \in Instances : \A s \in Splits(i) : \A m \in 1 .. 2 :
    \A n \in DOMAIN s[m] : \E j \in DOMAIN i.instr : s[m][n] = i.instr[j]

StateAt(v, k) == StateIn(inst, v, k)
InputAt(v, k) == BitsIn(inst, inst.instr, v, k)

FrameAt(v, k) ==
  [s1 |-> StateAt(v, k), i1 |-> InputAt(v, k),
   s2 |-> StateAt(v, k + size), i2 |-> InputAt(v, k + size)]

Decode(v) == [k \in 0 .. last |-> FrameAt(v, k)]

FreeVars ==
  {inst.instr[n] + k * F : n \in DOMAIN inst.instr, k \in 0 .. (2 * size - 1)}
    \cup UNION {{x + k * F : x \in d.current .. (d.current + d.width - 1)} :
                  d \in {inst.dffs[n] : n \in DOMAIN inst.dffs}, k \in 0 .. (2 * size - 1)}

\* Every model, with what it says of the target.
Answers == {<<Decode(v), v[target]>> : v \in ModelsOf(clause_list_multiple, FreeVars, last_index - 1)}

-----------------------------------------------------------------------------
States(s, inputs) ==
  LET at[k \in 0 .. last] == IF k = 0 THEN s ELSE enc.nxt[<<at[k - 1], inputs[k - 1]>>] IN at

Run(s, inputs) == LET at == States(s, inputs) IN [k \in 0 .. last |-> <<at[k], inputs[k]>>]

\* The runs of one copy, from any state, in which the assertion holds.
Runs ==
  {x \in {Run(s, inputs) : s \in enc.states, inputs \in [0 .. last -> enc.inputs]} :
     \A k \in 0 .. last : enc.ok[x[k]]}

\* Two runs side by side, and nothing said of their outputs.
TwoRuns ==
  {[k \in 0 .. last |-> [s1 |-> x[k][1], i1 |-> x[k][2], s2 |-> y[k][1], i2 |-> y[k][2]]] :
     x \in Runs, y \in Runs}

\* The bits of a list, by their places among the inputs.
PlacesOf(s) == {n \in DOMAIN inst.instr : \E m \in DOMAIN s : s[m] = inst.instr[n]}

OnSplit(x) ==
  split # <<>> =>
    /\ \A n \in PlacesOf(split[1]) : x[p + l].i1[n] = x[p + l].i2[n]
    /\ \E n \in PlacesOf(split[2]) : x[p + l].i1[n] # x[p + l].i2[n]

Hit(x) ==
  IF pc = "loop" THEN x \in Enc!LoopWindows(enc, p, l, r) ELSE x \in Enc!Windows(enc, p, last)

(***************************************************************************)
(* The clauses mean the query: their models are the pairs of runs in which *)
(* the assertion holds and the current inputs are as asked for, and a      *)
(* model makes the target true exactly if the outputs agree from frame p   *)
(* on and, in a query for loops, the states of all three regions repeat.   *)
(* Allsat_interp depends on either value of the target, the others on the  *)
(* models that make it true.                                               *)
(***************************************************************************)
MeansTheQuery ==
  AtRest /\ pc # "start" => Answers = {<<x, Hit(x)>> : x \in {y \in TwoRuns : OnSplit(y)}}
=============================================================================
