------------------------------ MODULE MCWindow ------------------------------
(***************************************************************************)
(* The windows themselves, enumerated assignment by assignment, for small  *)
(* encoders in which the assertion allows a few transitions: every encoder *)
(* of one register and one input bit, and some of two input bits.  The     *)
(* steps are the ways the program enlarges the unrolling it asks about:    *)
(* more prefix, more left, more right context.                             *)
(***************************************************************************)
EXTENDS PredicateFrames, FiniteSets

CONSTANTS
  NumAllowed,  \* how many transitions the assertion allows with one input bit
  MaxFrame,    \* cap on the last frame of a window
  MaxRuns      \* cap on the sequences of frames of an encoder of two input bits

Register == {<<<<FALSE>>>>, <<<<TRUE>>>>}

Encoder(words, nxt, out, T) ==
  [states |-> Register, inputs |-> words, nxt |-> nxt,
   out |-> [t \in Register \X words |-> t \in out],
   ok |-> [t \in Register \X words |-> t \in T]]

-----------------------------------------------------------------------------
Bit == {<<FALSE>>, <<TRUE>>}
BitTransition == Register \X Bit

AllowedBit == {T \in SUBSET BitTransition : T # {} /\ Cardinality(T) <= NumAllowed}

\* The tables of an encoder matter on the allowed transitions only.
OfOneBit ==
  UNION {{Encoder(Bit, [t \in BitTransition |-> IF t \in T THEN n[t] ELSE t[1]], O, T) :
             n \in [T -> Register], O \in SUBSET T} : T \in AllowedBit}

-----------------------------------------------------------------------------
Pair == {<<x, y>> : x, y \in BOOLEAN}
Off == <<<<FALSE>>>>
On1 == <<<<TRUE>>>>
PairTransition == Register \X Pair

\* One valuation of a bit only, one state only, or both.
AllowedPair ==
  {{t \in PairTransition : t[1] = Off /\ t[2][1]},
   {t \in PairTransition : t[1] = On1 /\ t[2][2]},
   {t \in PairTransition : t[1] = Off \/ t[2][1]} \ {<<Off, <<FALSE, FALSE>>>>},
   {t \in PairTransition : t[1] = Off}}

Moves ==
  {[t \in PairTransition |-> t[1]],
   [t \in PairTransition |-> <<<<t[2][2]>>>>],
   [t \in PairTransition |-> <<<<~t[1][1][1]>>>>],
   [t \in PairTransition |-> <<<<t[2][2] # t[1][1][1]>>>>]}

Outputs ==
  {{},
   {t \in PairTransition : t[2][1]},
   {t \in PairTransition : t[2][1] /\ t[2][2]},
   {t \in PairTransition : t[2][2] # t[1][1][1]}}

OfTwoBits == {Encoder(Pair, m, O, T) : m \in Moves, O \in Outputs, T \in AllowedPair}

-----------------------------------------------------------------------------
VARIABLES e, p, l, r

vars == <<e, p, l, r>>

Init == e \in OfOneBit \cup OfTwoBits /\ p = 0 /\ l = 0 /\ r = 0

\* The sequences of n frames of the two copies, linked or not.
NumRuns(n) == (Cardinality({t \in DOMAIN e.ok : e.ok[t]})^2)^n

Larger ==
  /\ p + l + r < MaxFrame
  /\ e.inputs = Pair => NumRuns(p + l + r + 2) <= MaxRuns

MorePrefix == Larger /\ p' = p + 1 /\ UNCHANGED <<e, l, r>>
MoreLeft   == Larger /\ l' = l + 1 /\ UNCHANGED <<e, p, r>>
MoreRight  == Larger /\ r' = r + 1 /\ UNCHANGED <<e, p, l>>

Next == MorePrefix \/ MoreLeft \/ MoreRight

Spec == Init /\ [][Next]_vars

-----------------------------------------------------------------------------
\* The ways to split the input bits into unique ones and others.
Splits == {U \in SUBSET Bits(e) : U # {} /\ U # Bits(e)}

(***************************************************************************)
(* What the runs of larger encoders compute frame by frame is what the     *)
(* clauses allow: of construct_nonloop and construct_loop, and, context by *)
(* context, of construct_nonloop_bitIs and construct_instance_loop; and of *)
(* findUniqDecidedList and genDecoderFunction, for some of the bits they   *)
(* may be asked for, in all windows but the largest.                       *)
(***************************************************************************)
FramesAgree ==
  /\ NonloopByFrame(e, p, l, r) = Nonloop(e, p, l, r)
  /\ LoopByFrame(e, p, l, r) = Loop(e, p, l, r)
  /\ \A U \in Splits :
       /\ NonloopQueryByFrame(e, U, p, l, r) = NonloopQuery(e, U, p, l, r)
       /\ LoopQueryByFrame(e, U, p, l, r) = LoopQuery(e, U, p, l, r)
  /\ l = 0 /\ p + r < MaxFrame =>
       \A valid \in {e.inputs, {CHOOSE i \in e.inputs : i[1]}} :
         \A u \in {OutBits, DffBit(1)} : \A d \in {DffBit(1), InBit(1)} :
           /\ DecidedByFrame(e, valid, p, r, {u}, p + r, d, p)
                <=> Decided(e, valid, p, r, {u}, p + r, d, p)
           /\ valid # e.inputs =>
                DeterminedByFrame(e, valid, p, r, {u}, p + r, d, p)
                  <=> Determined(e, valid, p, r, {u}, p + r, d, p)

(***************************************************************************)
(* What a window with loops confuses stays confused however much context   *)
(* is added: both copies must go round the same loop at the same time, in  *)
(* each of the three segments, for that to hold.                           *)
(***************************************************************************)
LoopLasts ==
  \A m \in Loop(e, p, l, r) : \A b \in {3, 4, 7} : m \in NonloopByFrame(e, b, b, b)

(***************************************************************************)
(* The bits outside a context are f alone, so that an unrolling is fixed   *)
(* by the two: no f both makes a target true and makes it false, and the   *)
(* interpolant that allsat_interp asks for exists.                         *)
(***************************************************************************)
Interpolable ==
  \A U \in Splits :
    \A z \in NonloopQuery(e, U, p, l, r) \cup LoopQuery(e, U, p, l, r) :
      z.must \subseteq z.may
=============================================================================
