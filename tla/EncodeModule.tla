---------------------------- MODULE EncodeModule ----------------------------
(***************************************************************************)
(* encode_oneInstance2SAT_step1 of vp/compsyn_pred/elabmod.ml: the clauses *)
(* of the transition relation of one Verilog module.  First every name     *)
(* gets its variables, a register (dff) a second range for its next state; *)
(* then the always blocks and the assignments are encoded one statement    *)
(* after the other.                                                        *)
(*                                                                         *)
(* A module is a record of decl, its declarations by name, and of seq,     *)
(* comb and cont, the sequences of statements of its clocked always        *)
(* blocks, its other always blocks and its continuous assignments.         *)
(***************************************************************************)
EXTENDS Verilog, Models, FiniteSets

CONSTANT Modules

VARIABLES
  module,               \* the module that is encoded
  name_index_lst,       \* <<current, next>> of each name seen so far, next -1 if not a dff
  last_index,           \* the first variable not in use
  clause_list,
  work,                 \* the statements to encode, each with its envpred
  final_index_oneinst,  \* the distance of two instances, 0 before the end
  exit                  \* whether the program has ended with a fatal error

vars == <<module, name_index_lst, last_index, clause_list, work, final_index_oneinst, exit>>

decl == module.decl

-----------------------------------------------------------------------------
Guarded(envpred, clocked, stats) ==
  [k \in DOMAIN stats |-> [stat |-> stats[k], envpred |-> envpred, clocked |-> clocked]]

Init ==
  /\ module \in Modules
  /\ name_index_lst = <<>>
  /\ last_index = 3
  /\ clause_list = {{truepred}, {-falsepred}}
  /\ work = Guarded(truepred, TRUE, module.seq)
              \o Guarded(truepred, FALSE, module.comb \o module.cont)
  /\ final_index_oneinst = 0
  /\ exit = FALSE

Named == DOMAIN name_index_lst

\* Mutant: the next state of a dff gets no room.
EncodeExplictnameOneRange ==
  /\ \E name \in DOMAIN decl \ Named :
       LET width == get_rng_width(decl[name])
           indices == IF decl[name].dff THEN <<last_index, last_index + width>>
                      ELSE <<last_index, -1>>
       IN /\ name_index_lst' =
               [x \in Named \cup {name} |-> IF x = name THEN indices ELSE name_index_lst[x]]
          /\ last_index' = last_index + width
  /\ UNCHANGED <<module, clause_list, work, final_index_oneinst, exit>>

\* The next name in the order of the hash table, which may be any.
encode_explictname ==
  /\ \E name \in DOMAIN decl \ Named :
       LET width == get_rng_width(decl[name])
           indices == IF decl[name].dff THEN <<last_index, last_index + width>>
                      ELSE <<last_index, -1>>
       IN /\ name_index_lst' =
               [x \in Named \cup {name} |-> IF x = name THEN indices ELSE name_index_lst[x]]
          /\ last_index' = last_index + (IF decl[name].dff THEN width + width ELSE width)
  /\ UNCHANGED <<module, clause_list, work, final_index_oneinst, exit>>

-----------------------------------------------------------------------------
Now == Head(work)
Stat == Now.stat

At(kind) ==
  /\ Named = DOMAIN decl
  /\ ~exit
  /\ work # <<>>
  /\ Stat.kind = kind

\* For a dff the next state is assigned.
map_lv2index(lv) ==
  IndexOf(decl[lv.name], name_index_lst[lv.name][IF decl[lv.name].dff THEN 2 ELSE 1], lv)

Exp(e) == encode_exp(decl, name_index_lst, e, last_index)

Encodable(stat) ==
  CASE stat.kind = "non_blocking_assignment" ->
         /\ Width(decl, stat.exp) # 0
         /\ Width(decl, stat.exp) = NameWidth(decl[stat.lv.name], stat.lv)
    [] stat.kind \in {"if", "if_else"} -> Width(decl, stat.exp) = 1
    [] stat.kind = "case" -> ~Now.clocked /\ stat.items # <<>> /\ "default" \in DOMAIN stat
    [] stat.kind = "seq_block" -> TRUE
    [] OTHER -> FALSE

Emit(clauses, last, rest) ==
  /\ clause_list' = clause_list \cup clauses
  /\ last_index' = last
  /\ work' = rest \o Tail(work)
  /\ UNCHANGED <<module, name_index_lst, final_index_oneinst, exit>>

Under(envpred, stats) == Guarded(envpred, Now.clocked, stats)

\* Mutant: the value is implied by the target only.
AssignHalf(lv, bits) == UNION {{{-lv[i], bits[i]}} : i \in DOMAIN lv}

Assign(lv, bits) == UNION {encode_EQU(lv[i], bits[i]) : i \in DOMAIN lv}

\* encode_nba_inseq and encode_nba_incomb
encode_nba ==
  /\ At("non_blocking_assignment")
  /\ Encodable(Stat)
  /\ LET c == Exp(Stat.exp)
     IN Emit(c.clauses \cup addGuard(Assign(map_lv2index(Stat.lv), c.bits), Now.envpred),
             c.last, <<>>)

\* Mutant: the complement of a condition may be false with it.
EncodePredOneSided(c) == Code(<<c.bits[1], c.last>>, c.clauses \cup {{-c.bits[1], -c.last}}, c.last + 1)

\* Mutant: the complement of a condition has no variable of its own.
EncodePredUnallocated(c) ==
  Code(<<c.bits[1], c.last>>, c.clauses \cup encode_NEQ(c.bits[1], c.last), c.last)

\* The condition, and a variable for its complement, which an if does not use.
encode_pred(c) ==
  Code(<<c.bits[1], c.last>>, c.clauses \cup encode_NEQ(c.bits[1], c.last), c.last + 1)

encode_if ==
  /\ At("if")
  /\ Encodable(Stat)
  /\ LET c == encode_pred(Exp(Stat.exp))
         newpred == c.last
     IN Emit(c.clauses \cup encode_Red_AND(newpred, <<Now.envpred, c.bits[1]>>),
             newpred + 1, Under(newpred, <<Stat.then>>))

\* The operands of @ are evaluated from the right: the else branch is encoded first.
encode_if_else ==
  /\ At("if_else")
  /\ Encodable(Stat)
  /\ LET c == encode_pred(Exp(Stat.exp))
         thenpred == c.last
         elsepred == c.last + 1
     IN Emit(c.clauses \cup encode_Red_AND(thenpred, <<Now.envpred, c.bits[1]>>)
                       \cup encode_Red_AND(elsepred, <<Now.envpred, c.bits[2]>>),
             c.last + 2,
             Under(elsepred, <<Stat.else>>) \o Under(thenpred, <<Stat.then>>))

\* newexp of case2ifelse: one of the labels is equal to the expression.
OneOf(e, labels) ==
  [op |-> "reduce_or",
   args |-> <<[op |-> "primary_concat",
               args |-> [k \in DOMAIN labels |-> [op |-> "logic_equ", args |-> <<e, labels[k]>>]]]>>]

\* One round of case2ifelse; the rest of the items is a case statement again.
case2ifelse(stat) ==
  [kind |-> "if_else", exp |-> OneOf(stat.exp, stat.items[1].labels),
   then |-> stat.items[1].stat,
   else |-> IF Len(stat.items) = 1 THEN stat.default ELSE [stat EXCEPT !.items = Tail(@)]]

encode_case ==
  /\ At("case")
  /\ Encodable(Stat)
  /\ Emit({}, last_index, Under(Now.envpred, <<case2ifelse(Stat)>>))

encode_seq_block ==
  /\ At("seq_block")
  /\ Emit({}, last_index, Under(Now.envpred, Stat.stats))

FatalError ==
  /\ \E kind \in {"non_blocking_assignment", "if", "if_else", "case", "blocking_assignment"} :
       At(kind)
  /\ ~Encodable(Stat)
  /\ exit' = TRUE
  /\ UNCHANGED <<module, name_index_lst, last_index, clause_list, work, final_index_oneinst>>

\* set_last_index_oneinst, called by compsyn
Finish ==
  /\ Named = DOMAIN decl
  /\ work = <<>>
  /\ final_index_oneinst = 0
  /\ final_index_oneinst' = last_index + 1
  /\ UNCHANGED <<module, name_index_lst, last_index, clause_list, work, exit>>

Next ==
  \/ encode_explictname
  \/ encode_nba \/ encode_if \/ encode_if_else \/ encode_case \/ encode_seq_block
  \/ FatalError
  \/ Finish

Spec == Init /\ [][Next]_vars

-----------------------------------------------------------------------------
Encoded == final_index_oneinst # 0

\* The variables of a name, of its next state too.
VarsOf(name) ==
  LET width == get_rng_width(decl[name])
  IN {name_index_lst[name][1] + k : k \in 0 .. (width - 1)}
       \cup IF decl[name].dff THEN {name_index_lst[name][2] + k : k \in 0 .. (width - 1)} ELSE {}

(***************************************************************************)
(* The names have variables of their own, and the clauses are about the    *)
(* variables handed out so far (check_clslst_maxidx), which leaves room    *)
(* between instances for the index 0 of the next.                          *)
(***************************************************************************)
TypeOK ==
  /\ module \in Modules
  /\ \A x, y \in Named : x # y => VarsOf(x) \cap VarsOf(y) = {}
  /\ \A x \in Named : VarsOf(x) \subseteq 3 .. (last_index - 1)
  /\ \A c \in clause_list : IsClause(c, last_index - 1)
  /\ \A k \in DOMAIN work : work[k].envpred \in 1 .. (last_index - 1)
  /\ Encoded => clause_list # {} /\ last_index < final_index_oneinst

-----------------------------------------------------------------------------
OffsetSet(name) == {o \in -1 .. 3 : is_inrange(decl[name], o)}

Registers == {name \in DOMAIN decl : decl[name].dff}

\* The variable of an offset, by its place in the range.
VarAt(base, name, off) ==
  base + (CHOOSE k \in 1 .. get_rng_width(decl[name]) :
            lr2list(decl[name].left, decl[name].right)[k] = off) - 1

\* What a model of the clauses says of the names, and of the registers afterwards.
Decode(v) ==
  [env |-> [x \in DOMAIN decl |-> [o \in OffsetSet(x) |-> v[VarAt(name_index_lst[x][1], x, o)]]],
   next |-> [x \in Registers |-> [o \in OffsetSet(x) |-> v[VarAt(name_index_lst[x][2], x, o)]]]]

AllNamed == UNION {VarsOf(x) : x \in DOMAIN decl}
AllModels == ModelsOf(clause_list, AllNamed, last_index - 1)
Decoded == {Decode(v) : v \in AllModels}

Environments ==
  {f \in [DOMAIN decl -> UNION {[OffsetSet(x) -> BOOLEAN] : x \in DOMAIN decl}] :
     \A x \in DOMAIN decl : DOMAIN f[x] = OffsetSet(x)}

AllWrites(stats, env) == UNION {Writes(decl, env, stats[k]) : k \in DOMAIN stats}

Statements == module.seq \o module.comb \o module.cont

\* The wires have the values that are assigned to them.
Settled(env) ==
  \A w \in AllWrites(Statements, env) : w.name \in Registers \/ env[w.name][w.off] = w.bit

Written(env, name, off) ==
  \E w \in AllWrites(Statements, env) : w.name = name /\ w.off = off

\* A register keeps its bits where no assignment to it is reached.
NextState(env) ==
  [x \in Registers |->
     [o \in OffsetSet(x) |->
        IF Written(env, x, o)
        THEN \E w \in AllWrites(Statements, env) : w.name = x /\ w.off = o /\ w.bit
        ELSE env[x][o]]]

Steps == {[env |-> env, next |-> NextState(env)] : env \in {f \in Environments : Settled(f)}}

(***************************************************************************)
(* Whatever the module does in one step of Verilog is a model of its       *)
(* clauses: no operator, part select, nesting of conditions or order of    *)
(* the names makes the clauses contradict a real step.                     *)
(***************************************************************************)
StepsAreModels == Encoded => Steps \subseteq Decoded

\* Every bit of a register is assigned on every path through its always block.
Complete ==
  \A env \in Environments : \A x \in Registers : \A o \in OffsetSet(x) : Written(env, x, o)

(***************************************************************************)
(* Of a module that assigns its registers on every path, the clauses have  *)
(* no other models.  (An if without else leaves the next state of its      *)
(* registers free where its condition is false.)                           *)
(***************************************************************************)
ModelsAreSteps == Encoded /\ Complete => Decoded \subseteq Steps

(***************************************************************************)
(* The variables that the encoding adds are functions of the named ones:   *)
(* two models differ in a name.                                            *)
(***************************************************************************)
OneModelPerStep == Encoded => Cardinality(Decoded) = Cardinality(AllModels)
=============================================================================
