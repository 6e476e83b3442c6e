------------------------------ MODULE Operators ------------------------------
(***************************************************************************)
(* The gates that encode_exp of vp/compsyn_pred/elabmod.ml writes for one  *)
(* operator of Verilog, given the variables of its operands.  Operators    *)
(* are named as in EncodeExp.                                              *)
(***************************************************************************)
EXTENDS Gates

Reductions == {"reduce_and", "reduce_nand", "reduce_or", "reduce_nor"}
Comparisons == {"logic_equ", "logic_ine", "lt", "le", "gt", "ge"}
BitOperators == {"bit_and2", "bit_or2", "bit_xor2", "bit_equ"}

(***************************************************************************)
(* The number of bits of an operator's result, of operands of w[1], w[2],  *)
(* ... bits, or 0 where encode_exp ends the program.  (A concatenation,    *)
(* which has no gates, is in EncodeExp.)                                   *)
(***************************************************************************)
ResultWidth(op, w) ==
  CASE op \in Reductions -> 1
    [] op = "bitneg" -> w[1]
    [] op = "logicneg" /\ w[1] = 1 -> 1
    [] op \in {"logic_and2", "logic_or2"} /\ w[1] = 1 /\ w[2] = 1 -> 1
    [] op \in Comparisons /\ w[1] = w[2] -> 1
    [] op \in BitOperators \cup {"add2"} /\ w[1] = w[2] -> w[1]
    [] op = "selection" /\ w[1] = w[2] /\ w[3] = 1 -> w[1]
    [] OTHER -> 0

-----------------------------------------------------------------------------
\* What the encoding of an expression returns; last is last_index after it.
Code(bits, clauses, last) == [bits |-> bits, clauses |-> clauses, last |-> last]

\* One gate for each of w bits, the variables of the results from n on.
BitByBit(n, w, Gate(_, _)) ==
  Code(Fresh(n, w), UNION {Gate(n + i - 1, i) : i \in 1 .. w}, n + w)

\* The gates of an operator on the vectors v; n is the first free variable.
Operator(op, v, n) ==
  LET a == v[1]
      b == v[2]
      w == Len(a)
  IN CASE op = "logicneg" -> Code(<<n>>, encode_NEQ(n, a[1]), n + 1)
       [] op = "bitneg" -> BitByBit(n, w, LAMBDA r, i : encode_NEQ(r, a[i]))
       [] op = "add2" -> Code(Fresh(n, w), encode_ADD(n, a, b), n + w + w)
       [] op = "logic_equ" -> Code(<<n + w>>, encode_EQUV_res(n, a, b), n + w + 1)
       [] op = "logic_ine" -> Code(<<n + w>>, encode_INEV_res(n, a, b), n + w + 1)
       [] op = "logic_and2" -> Code(<<n>>, encode_Red_AND(n, <<a[1], b[1]>>), n + 1)
       [] op = "logic_or2" -> Code(<<n>>, encode_Red_OR(n, <<a[1], b[1]>>), n + 1)
       [] op = "lt" -> Code(<<n>>, Less(n, a, b), n + w)
       [] op = "gt" -> Code(<<n>>, Greater(n, a, b), n + w)
       [] op = "bit_and2" -> BitByBit(n, w, LAMBDA r, i : encode_AND2_res(r, a[i], b[i]))
       [] op = "bit_or2" -> BitByBit(n, w, LAMBDA r, i : encode_OR2_res(r, a[i], b[i]))
       [] op = "bit_xor2" -> BitByBit(n, w, LAMBDA r, i : encode_INE_res(r, a[i], b[i]))
       [] op = "bit_equ" -> BitByBit(n, w, LAMBDA r, i : encode_EQU_res(r, a[i], b[i]))
       [] op = "selection" -> BitByBit(n, w, LAMBDA r, i : encode_SEL_res(r, a[i], b[i], v[3][1]))

Reduction(op, r, a) ==
  CASE op = "reduce_and" -> encode_Red_AND(r, a)
    [] op = "reduce_nand" -> encode_Red_NAND(r, a)
    [] op = "reduce_or" -> encode_Red_OR(r, a)
    [] op = "reduce_nor" -> encode_Red_NOR(r, a)
=============================================================================
