------------------------------- MODULE Verilog -------------------------------
(***************************************************************************)
(* The reference that the encoding is compared with: the values of         *)
(* Verilog expressions and what nonblocking assignments write, in terms of *)
(* numbers and of offsets, without variables or clauses.  env gives each   *)
(* name a function from its offsets to bits.                               *)
(***************************************************************************)
EXTENDS EncodeExp, VerilogOperators

LOCAL INSTANCE SequencesExt

RECURSIVE Value(_, _, _)

Value(decl, env, e) ==
  CASE e.op = "number" -> e.bits
    [] e.op \in Names ->
         LET offsets == Offsets(decl[e.name], e)
         IN [k \in DOMAIN offsets |-> env[e.name][offsets[k]]]
    [] OTHER -> LET v == [k \in DOMAIN e.args |-> Value(decl, env, e.args[k])]
                IN IF e.op = "primary_concat" THEN FlattenSeq(v) ELSE Applied(e.op, v)

-----------------------------------------------------------------------------
Holds(decl, env, e) == Value(decl, env, e) = <<TRUE>>

Write(name, off, bit) == [name |-> name, off |-> off, bit |-> bit]

RECURSIVE Writes(_, _, _), WritesOfFirst(_, _, _, _)

\* The bits that a statement assigns in env, and the values it gives them.
Writes(decl, env, stat) ==
  CASE stat.kind = "non_blocking_assignment" ->
         LET offsets == Offsets(decl[stat.lv.name], stat.lv)
             value == Value(decl, env, stat.exp)
         IN {Write(stat.lv.name, offsets[k], value[k]) : k \in DOMAIN offsets}
    [] stat.kind = "if" ->
         IF Holds(decl, env, stat.exp) THEN Writes(decl, env, stat.then) ELSE {}
    [] stat.kind = "if_else" ->
         Writes(decl, env, IF Holds(decl, env, stat.exp) THEN stat.then ELSE stat.else)
    [] stat.kind = "case" -> WritesOfFirst(decl, env, stat, stat.items)
    [] stat.kind = "seq_block" ->
         UNION {Writes(decl, env, stat.stats[k]) : k \in DOMAIN stat.stats}

\* The first item of a case statement with a matching label, or its default.
WritesOfFirst(decl, env, stat, items) ==
  IF items = <<>> THEN Writes(decl, env, stat.default)
  ELSE IF \E k \in DOMAIN items[1].labels :
            Value(decl, env, stat.exp) = Value(decl, env, items[1].labels[k])
       THEN Writes(decl, env, items[1].stat)
       ELSE WritesOfFirst(decl, env, stat, Tail(items))
=============================================================================
