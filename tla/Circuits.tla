------------------------------ MODULE Circuits ------------------------------
(***************************************************************************)
(* The circuits of vp/share/interp.ml, type iterpCircuit, in arrays whose  *)
(* last entry is the result and whose entries refer to each other by their *)
(* places, from 0 on: how they are built along a proof, joined, inverted,  *)
(* simplified, and written as clauses for the next query.                  *)
(***************************************************************************)
EXTENDS Clauses, FiniteSets, Sequences, SequencesExt

LOCAL INSTANCE Gates

Circuit(op, n, of) == [op |-> op, n |-> n, of |-> of]

TiterpCircuit_none      == Circuit("none", 0, <<>>)
TiterpCircuit_true      == Circuit("true", 0, <<>>)
TiterpCircuit_false     == Circuit("false", 0, <<>>)
TiterpCircuit_refvar(x) == Circuit("refvar", x, <<>>)
TiterpCircuit_refcls(n) == Circuit("refcls", n, <<>>)
TiterpCircuit_not(c)    == Circuit("not", 0, <<c>>)
TiterpCircuit_and(of)   == Circuit("and", 0, of)
TiterpCircuit_or(of)    == Circuit("or", 0, of)

\* The entry at place n.
Entry(arr, n) == arr[n + 1]

LastPlace(arr) == Len(arr) - 1

-----------------------------------------------------------------------------
\* The circuit of a root of A: the disjunction of what B knows of its clause.
OrOfVariables(xs) ==
  CASE Len(xs) = 0 -> TiterpCircuit_false
    [] Len(xs) = 1 -> TiterpCircuit_refvar(xs[1])
    [] Len(xs) > 1 -> TiterpCircuit_or([n \in DOMAIN xs |-> TiterpCircuit_refvar(xs[n])])

RECURSIVE reduce_only1refcls(_, _)
reduce_only1refcls(arr, c) ==
  IF c.op # "refcls" THEN c
  ELSE LET next == Entry(arr, c.n)
       IN  CASE next.op = "refcls" -> reduce_only1refcls(arr, next)
             [] next.op \in {"true", "false", "refvar"} -> next
             [] OTHER -> c

\* What a conjunction, or a disjunction, can leave out.
Neutral(op) == IF op = "and" THEN TiterpCircuit_true ELSE TiterpCircuit_false

(***************************************************************************)
(* One step of do_varcls_lst: c with the circuit at place n.  Conjunctions *)
(* that are next to each other become one, and so do disjunctions.         *)
(***************************************************************************)
Join(arr, op, c, n) ==
  LET kept   == SelectSeq(<<c, reduce_only1refcls(arr, TiterpCircuit_refcls(n))>>,
                          LAMBDA d : d # Neutral(op))
      inner  == FlattenSeq([m \in DOMAIN kept |-> IF kept[m].op = op THEN kept[m].of ELSE <<>>])
      others == SelectSeq(kept, LAMBDA d : d.op # op)
      all    == inner \o others
  IN  CASE Len(kept) = 2 -> Circuit(op, 0, [m \in DOMAIN all |-> reduce_only1refcls(arr, all[m])])
        [] Len(kept) = 1 -> reduce_only1refcls(arr, kept[1])
        [] Len(kept) = 0 -> Neutral(op)

\* Mutant: the variables of A that the copy keeps do not count.
isBvarShifted(max, shared, x) == Var(x) > max

isBvar(max, shared, x) == Var(x) > max \/ Var(x) \in shared

(***************************************************************************)
(* find_dep: the circuit of an entry of the proof, once those it cites are *)
(* there.  Roots of B are told from those of A by their variables.         *)
(***************************************************************************)
find_dep(arr, e, max, shared) ==
  LET Op(x) == IF isBvar(max, shared, x) THEN "and" ELSE "or"
      first == reduce_only1refcls(arr, TiterpCircuit_refcls(e.start))
      known == SetToSortSeq({x \in e.clause : isBvar(max, shared, x)}, <)
  IN  CASE e.kind = "chain" ->
             FoldLeft(LAMBDA c, s : Join(arr, Op(s.pivot), c, s.id), first, e.steps)
        [] e.kind = "root" /\ (\E x \in e.clause : Var(x) > max) -> TiterpCircuit_true
        [] OTHER -> OrOfVariables(known)

(***************************************************************************)
(* characterization_interp_AB: one circuit for each entry.  The null       *)
(* clause at place 0 is not reached.                                       *)
(***************************************************************************)
characterization_interp_AB(entries, max, shared) ==
  FoldLeft(LAMBDA arr, e : Append(arr, find_dep(arr, e, max, shared)),
           <<TiterpCircuit_none>>, entries)

-----------------------------------------------------------------------------
(***************************************************************************)
(* construct_ITPLST: the arrays one behind the other, the last one first,  *)
(* and the place of the result of each.                                    *)
(***************************************************************************)
construct_ITPLST(arrs) == FlattenSeq(Reverse(arrs))

ResultPlaces(arrs) ==
  [n \in DOMAIN arrs |-> LastPlace(construct_ITPLST(SubSeq(arrs, n, Len(arrs))))]

Joined(op, arrs) ==
  Append(construct_ITPLST(arrs),
         Circuit(op, 0, [n \in DOMAIN arrs |-> TiterpCircuit_refcls(ResultPlaces(arrs)[n])]))

\* For arrays of one entry only, whose places need not move (FATAL : length).
or_assertion(arrs) == Joined("or", arrs)
and_assertion(arrs) == Joined("and", arrs)

invert_assertion(arr) == Append(arr, TiterpCircuit_not(TiterpCircuit_refcls(LastPlace(arr))))

RECURSIVE proc_sub(_, _)
proc_sub(c, shiftint) ==
  IF c.op = "refvar" THEN TiterpCircuit_refvar(IF c.n > 0 THEN c.n + shiftint ELSE c.n - shiftint)
  ELSE [c EXCEPT !.of = [n \in DOMAIN @ |-> proc_sub(@[n], shiftint)]]

\* The circuit about the same variables of another frame.
shiftAssertion(arr, shiftint) == [n \in DOMAIN arr |-> proc_sub(arr[n], shiftint)]

-----------------------------------------------------------------------------
(***************************************************************************)
(* A BDD is the set of the valuations, out of all of them, that make it    *)
(* true; bdds holds those of the entries before.  Place 0 of a proof has   *)
(* no circuit, and no entry refers to it (assert false).                   *)
(***************************************************************************)
RECURSIVE find_nonpos(_, _, _)
find_nonpos(all, bdds, c) ==
  LET Of(n) == find_nonpos(all, bdds, c.of[n])
  IN  CASE c.op = "none"   -> {}
        [] c.op = "true"   -> all
        [] c.op = "false"  -> {}
        [] c.op = "refcls" -> Entry(bdds, c.n)
        [] c.op = "refvar" -> {v \in all : True(v, c.n)}
        [] c.op = "and"    -> {v \in all : \A n \in DOMAIN c.of : v \in Of(n)}
        [] c.op = "or"     -> UNION {Of(n) : n \in DOMAIN c.of}
        [] c.op = "not"    -> all \ Of(1)

\* bddarray: every entry, though the code leaves out those nothing rests on.
bddarray(all, arr) ==
  FoldLeft(LAMBDA bdds, c : Append(bdds, find_nonpos(all, bdds, c)), <<>>, arr)

bddfinal(all, arr) == Last(bddarray(all, arr))

\* The valuations of F with this value of x, without x.
Cofactor(F, x, b) ==
  {[y \in DOMAIN v \ {x} |-> v[y]] : v \in {w \in F : w[x] = b}}

\* bddForeachCube: the paths to 1, one literal for every variable on it.
RECURSIVE Cubes(_, _)
Cubes(F, order) ==
  IF order = <<>> THEN {<<>> : v \in F}
  ELSE LET x    == Head(order)
           low  == Cofactor(F, x, FALSE)
           high == Cofactor(F, x, TRUE)
       IN  IF low = high THEN Cubes(low, Tail(order))
           ELSE {<<-x>> \o cube : cube \in Cubes(low, Tail(order))}
                  \cup {<<x>> \o cube : cube \in Cubes(high, Tail(order))}

CubeCircuit(cube) ==
  TiterpCircuit_and([n \in DOMAIN cube |-> TiterpCircuit_refvar(cube[n])])

(***************************************************************************)
(* simplify_withBDD: one entry, a disjunction of cubes.  The order of the  *)
(* variables is that of the BDD package, which may change it.              *)
(***************************************************************************)
simplify_withBDD(all, arr, order) ==
  IF Len(arr) = 1 THEN arr
  ELSE LET F     == bddfinal(all, arr)
           cubes == SetToSeq(Cubes(F, order))
       IN  CASE F = all -> <<TiterpCircuit_true>>
             [] F = {}  -> <<TiterpCircuit_false>>
             [] OTHER   ->
                  <<TiterpCircuit_or([n \in DOMAIN cubes |-> CubeCircuit(cubes[n])])>>

-----------------------------------------------------------------------------
(***************************************************************************)
(* encode_assertion: the variable of the entry at place n is base + n, the *)
(* others are allocated as they are needed.  What is written so far is     *)
(* [index, clauses, printed], and what a circuit adds comes with var.      *)
(***************************************************************************)
Allocated(s, clauses) ==
  [s EXCEPT !.var = s.index, !.index = @ + 1, !.clauses = @ \cup clauses]

RECURSIVE interpObj2str(_, _, _, _)
interpObj2str(arr, base, s, c) ==
  LET Argument(done, d) == LET u == interpObj2str(arr, base, done.state, d)
                           IN  [state |-> u, vars |-> Append(done.vars, u.var)]
      arguments == FoldLeft(Argument, [state |-> s, vars |-> <<>>], c.of)
      vars == arguments.vars
      t    == arguments.state
      next == Entry(arr, c.n)
      \* prt_trace_withInterp
      entry == interpObj2str(arr, base, s, next)
      printed == IF next.op = "none" THEN s
                 ELSE [entry EXCEPT !.clauses = @ \cup encode_EQU(entry.var, base + c.n)]
  IN  CASE c.op = "true"   -> Allocated(s, {{s.index}})
        [] c.op = "false"  -> Allocated(s, {{-s.index}})
        [] c.op = "refvar" -> [s EXCEPT !.var = c.n]
        [] c.op = "and"    -> Allocated(t, encode_Red_AND(t.index, vars))
        [] c.op = "or"     -> Allocated(t, encode_Red_OR(t.index, vars))
        [] c.op = "not"    -> Allocated(t, encode_NEQ(t.index, vars[1]))
        [] c.op = "refcls" ->
             IF c.n \in s.printed THEN [s EXCEPT !.var = base + c.n]
             ELSE IF next.op = "refcls" THEN interpObj2str(arr, base, s, next)
             ELSE [printed EXCEPT !.var = base + c.n, !.printed = @ \cup {c.n}]

encode_assertion(arr, last_index) ==
  LET base  == last_index + 1
      start == [index |-> base + Len(arr), clauses |-> {}, printed |-> {}, var |-> 0]
      top   == base + LastPlace(arr)
      end   == interpObj2str(arr, base, start, Last(arr))
  IN  [top |-> top, index |-> end.index, clauses |-> end.clauses \cup encode_EQU(end.var, top)]

force_assertion_alone(arr, last_index) ==
  LET e == encode_assertion(arr, last_index)
  IN  [index |-> e.index, clauses |-> e.clauses \cup {{e.top}}]
=============================================================================
