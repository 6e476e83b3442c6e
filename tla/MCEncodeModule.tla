--------------------------- MODULE MCEncodeModule ---------------------------
(***************************************************************************)
(* EncodeModule on small modules: every operator on vectors of two bits    *)
(* with ranges in either direction, nested expressions, always blocks with *)
(* every statement, and modules that are refused.                          *)
(***************************************************************************)
EXTENDS EncodeModule

Bit == [left |-> -1, right |-> -1, dff |-> FALSE]
Vector(left, right) == [left |-> left, right |-> right, dff |-> FALSE]
Reg(d) == [d EXCEPT !.dff = TRUE]

Id(name) == [op |-> "primary_id", name |-> name]
At1(name, off) == [op |-> "primary_arrbit", name |-> name, off |-> off]
Part(name, left, right) == [op |-> "primary_arrrange", name |-> name, left |-> left, right |-> right]
Const(bits) == [op |-> "number", bits |-> bits]
Op1(op, x) == [op |-> op, args |-> <<x>>]
Op2(op, x, y) == [op |-> op, args |-> <<x, y>>]
Sel(pred, x, y) == [op |-> "selection", args |-> <<x, y, pred>>]
Concat(args) == [op |-> "primary_concat", args |-> args]

Zero == Const(<<FALSE>>)
One == Const(<<TRUE>>)
One2 == Const(<<FALSE, TRUE>>)

Set(lv, exp) == [kind |-> "non_blocking_assignment", lv |-> lv, exp |-> exp]
If(exp, then) == [kind |-> "if", exp |-> exp, then |-> then]
IfElse(exp, then, else) == [kind |-> "if_else", exp |-> exp, then |-> then, else |-> else]
Block(stats) == [kind |-> "seq_block", stats |-> stats]
Item(labels, stat) == [labels |-> labels, stat |-> stat]
Case(exp, items, default) == [kind |-> "case", exp |-> exp, items |-> items, default |-> default]

Module(d, seq, comb, cont) == [decl |-> d, seq |-> seq, comb |-> comb, cont |-> cont]

\* assign w = exp, for a[1:0], b[0:1] and w of the given range
Assigning(w, exp) ==
  Module([a |-> Vector(1, 0), b |-> Vector(0, 1), w |-> w], <<>>, <<>>, <<Set(Id("w"), exp)>>)

BitOps == {"bit_and2", "bit_or2", "bit_xor2", "bit_equ", "add2"}
Nested ==
  {Op2("lt", Op2("add2", Id("a"), Id("b")), Id("b")),
   Op2("logic_or2", Op2("ge", Id("a"), One2), Op1("logicneg", At1("b", 0))),
   Op2("logic_and2", Op1("reduce_or", Concat(<<At1("a", 1), Op2("logic_equ", Id("a"), Id("b"))>>)),
                     At1("b", 1)),
   Op1("reduce_nand", Op2("bit_xor2", Id("a"), Op1("bitneg", Id("b"))))}

Combinational ==
  {Assigning(Bit, Op2(op, Id("a"), Id("b"))) : op \in Comparisons}
    \cup {Assigning(Bit, Op1(op, Id("a"))) : op \in Reductions}
    \cup {Assigning(Vector(1, 0), Op2(op, Id("a"), Id("b"))) : op \in BitOps}
    \cup {Assigning(Bit, e) : e \in Nested}
    \cup {Assigning(Vector(2, 1), Sel(At1("b", 1), Id("a"), Part("b", 1, 0))),
          Assigning(Vector(0, 1), Op1("bitneg", Id("b"))),
          Assigning(Vector(0, 2), Op2("add2", Concat(<<Zero, Id("a")>>), Concat(<<Id("b"), One>>)))}

Q == Id("q")
Counter == [q |-> Reg(Vector(1, 0)), en |-> Bit, clr |-> Bit]
Clear == Set(Q, Const(<<FALSE, FALSE>>))
Count == Set(Q, Op2("add2", Q, One2))

Clocked ==
  {Module(Counter, <<IfElse(Id("clr"), Clear, IfElse(Id("en"), Count, Set(Q, Q)))>>, <<>>, <<>>),
   \* no else: the register keeps its value
   Module(Counter, <<IfElse(Id("clr"), Clear, If(Id("en"), Count))>>, <<>>, <<>>),
   \* a delay line, bit by bit and in a part, with an output next to it
   Module([q |-> Reg(Vector(0, 2)), d |-> Bit, o |-> Bit],
          <<Block(<<Set(At1("q", 0), Id("d")), Set(Part("q", 1, 2), Part("q", 0, 1))>>)>>,
          <<>>, <<Set(Id("o"), At1("q", 2))>>),
   \* two registers exchange their values
   Module([x |-> Reg(Bit), y |-> Reg(Bit), s |-> Bit],
          <<IfElse(Id("s"), Block(<<Set(Id("x"), Id("y")), Set(Id("y"), Id("x"))>>),
                            Block(<<Set(Id("x"), Id("x")), Set(Id("y"), Id("y"))>>))>>, <<>>, <<>>)}

Cases ==
  {Module([s |-> Vector(1, 0), d |-> Bit, w |-> Bit, q |-> Reg(Bit)], <<Set(Q, Id("w"))>>,
          <<Case(Id("s"), <<Item(<<Const(<<FALSE, FALSE>>), Const(<<TRUE, TRUE>>)>>, Set(Id("w"), Id("d"))),
                            Item(<<One2>>, If(One, Set(Id("w"), Zero)))>>,
                 Set(Id("w"), Q))>>, <<>>)}

Refused ==
  {Assigning(Bit, Id("a")), Assigning(Bit, Op2("add2", Id("a"), At1("b", 1))),
   Assigning(Bit, At1("a", 2)), Assigning(Bit, Op1("logicneg", Id("b"))),
   Module(Counter, <<Case(Q, <<Item(<<One2>>, Clear)>>, Count)>>, <<>>, <<>>),
   Module(Counter, <<IfElse(Q, Clear, Count)>>, <<>>, <<>>)}

MCModules == Combinational \cup Clocked \cup Cases \cup Refused
=============================================================================
