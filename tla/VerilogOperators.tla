--------------------------- MODULE VerilogOperators ---------------------------
(***************************************************************************)
(* What the operators of Verilog compute, as numbers and vectors of bits,  *)
(* most significant first, without variables or clauses.                   *)
(***************************************************************************)
EXTENDS Integers, Sequences

\* The number that a vector of bits stands for.
Number(bits) ==
  LET upto[k \in 0 .. Len(bits)] ==
        IF k = 0 THEN 0 ELSE 2 * upto[k - 1] + (IF bits[k] THEN 1 ELSE 0)
  IN upto[Len(bits)]

\* The lowest bits of the sum of two numbers: all but a carry in front of them.
Sum(a, b) ==
  CHOOSE s \in [1 .. Len(a) -> BOOLEAN] :
    \E carry \in BOOLEAN : Number(<<carry>> \o s) = Number(a) + Number(b)

Each(w, P(_)) == [k \in 1 .. w |-> P(k)]

\* The value of an operator whose operands have the values v.
Applied(op, v) ==
  LET a == v[1]
      b == v[2]
      w == Len(a)
  IN CASE op = "logicneg" -> <<~a[1]>>
       [] op = "bitneg" -> Each(w, LAMBDA k : ~a[k])
       [] op = "reduce_and" -> <<\A k \in 1 .. w : a[k]>>
       [] op = "reduce_nand" -> <<\E k \in 1 .. w : ~a[k]>>
       [] op = "reduce_or" -> <<\E k \in 1 .. w : a[k]>>
       [] op = "reduce_nor" -> <<\A k \in 1 .. w : ~a[k]>>
       [] op = "add2" -> Sum(a, b)
       [] op = "logic_equ" -> <<Number(a) = Number(b)>>
       [] op = "logic_ine" -> <<Number(a) # Number(b)>>
       [] op = "logic_and2" -> <<a[1] /\ b[1]>>
       [] op = "logic_or2" -> <<a[1] \/ b[1]>>
       [] op = "lt" -> <<Number(a) < Number(b)>>
       [] op = "le" -> <<Number(a) <= Number(b)>>
       [] op = "gt" -> <<Number(a) > Number(b)>>
       [] op = "ge" -> <<Number(a) >= Number(b)>>
       [] op = "bit_and2" -> Each(w, LAMBDA k : a[k] /\ b[k])
       [] op = "bit_or2" -> Each(w, LAMBDA k : a[k] \/ b[k])
       [] op = "bit_xor2" -> Each(w, LAMBDA k : a[k] # b[k])
       [] op = "bit_equ" -> Each(w, LAMBDA k : a[k] = b[k])
       [] op = "selection" -> IF v[3][1] THEN a ELSE b
=============================================================================
