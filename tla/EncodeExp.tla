------------------------------ MODULE EncodeExp ------------------------------
(***************************************************************************)
(* encode_exp of vp/compsyn_pred/elabmod.ml: the clauses of a Verilog      *)
(* expression, and the variables that hold its bits, most significant      *)
(* first.                                                                  *)
(*                                                                         *)
(* A declaration is a record of left, right and dff: the range [left:right]*)
(* (-1:-1 without a range), and whether an always block assigns it at a    *)
(* clock edge.  An expression is a record of op, the constructor without   *)
(* its T_, and of                                                          *)
(*   bits                      of a number,                                *)
(*   name, off, left and right of a name, a bit or a part of it,           *)
(*   args                      of an operator, the predicate of a          *)
(*                             selection last, as they are encoded.        *)
(***************************************************************************)
EXTENDS Operators

LOCAL INSTANCE SequencesExt

Distance(x, y) == IF x > y THEN x - y ELSE y - x

get_rng_width(d) == Distance(d.left, d.right) + 1

lr2list(left, right) ==
  [k \in 1 .. Distance(left, right) + 1 |-> IF left > right THEN left - k + 1 ELSE left + k - 1]

is_inrange(d, off) ==
  (d.left >= off /\ off >= d.right) \/ (d.left <= off /\ off <= d.right)

offset2idx(d, base, off) == base + Distance(off, d.left)

\* T_primary_id, T_primary_arrbit, T_primary_arrrange, and the same of lvalues.
Names == {"primary_id", "primary_arrbit", "primary_arrrange"}

\* The offsets of a name that an expression or an lvalue is about, from left to right.
Offsets(d, e) ==
  CASE e.op = "primary_id" -> lr2list(d.left, d.right)
    [] e.op = "primary_arrbit" -> <<e.off>>
    [] e.op = "primary_arrrange" -> lr2list(e.left, e.right)

IndexOf(d, base, e) ==
  IF e.op = "primary_id" THEN Fresh(base, get_rng_width(d))
  ELSE [k \in DOMAIN Offsets(d, e) |-> offset2idx(d, base, Offsets(d, e)[k])]

NameWidth(d, e) ==
  IF \A k \in DOMAIN Offsets(d, e) : is_inrange(d, Offsets(d, e)[k]) THEN Len(Offsets(d, e)) ELSE 0

RECURSIVE Width(_, _)

Width(decl, e) ==
  CASE e.op = "number" -> Len(e.bits)
    [] e.op \in Names -> NameWidth(decl[e.name], e)
    [] OTHER -> LET w == [k \in DOMAIN e.args |-> Width(decl, e.args[k])]
                IN IF \E k \in DOMAIN w : w[k] = 0 THEN 0
                   ELSE IF e.op = "primary_concat" THEN SumFunction(w)
                   ELSE ResultWidth(e.op, w)

-----------------------------------------------------------------------------
\* T_le and T_ge
OrEqual(strict, e) ==
  [op |-> "logic_or2",
   args |-> <<[op |-> strict, args |-> e.args], [op |-> "logic_equ", args |-> e.args]>>]

(***************************************************************************)
(* The name's current state is used, even of a dff (name_index holds the   *)
(* first variable of each name).  A reduction takes the variable of its    *)
(* result before it encodes its operand, every other operator after.       *)
(***************************************************************************)
RECURSIVE encode_exp(_, _, _, _), encode_all(_, _, _, _)

encode_exp(decl, name_index, e, n) ==
  LET all(last) == encode_all(decl, name_index, e.args, last)
  IN CASE e.op = "number" ->
            Code([k \in DOMAIN e.bits |-> IF e.bits[k] THEN truepred ELSE falsepred], {}, n)
       [] e.op \in Names -> Code(IndexOf(decl[e.name], name_index[e.name][1], e), {}, n)
       [] e.op = "primary_concat" ->
            LET c == all(n) IN [c EXCEPT !.bits = FlattenSeq(c.bits)]
       [] e.op = "le" -> encode_exp(decl, name_index, OrEqual("lt", e), n)
       [] e.op = "ge" -> encode_exp(decl, name_index, OrEqual("gt", e), n)
       [] e.op \in Reductions ->
            LET c == all(n + 1)
            IN Code(<<n>>, c.clauses \cup Reduction(e.op, n, c.bits[1]), c.last)
       [] OTHER ->
            LET c == all(n)
                g == Operator(e.op, c.bits, c.last)
            IN Code(g.bits, c.clauses \cup g.clauses, g.last)

\* The expressions of a list, from left to right: bits holds a vector for each.
encode_all(decl, name_index, args, n) ==
  IF args = <<>> THEN Code(<<>>, {}, n)
  ELSE LET first == encode_exp(decl, name_index, Head(args), n)
           rest == encode_all(decl, name_index, Tail(args), first.last)
       IN Code(<<first.bits>> \o rest.bits, first.clauses \cup rest.clauses, rest.last)
=============================================================================
