------------------------------ MODULE Predicate ------------------------------
(***************************************************************************)
(* The formulas behind the predicate valid(f), over the unrollings of      *)
(* Encoder: construct_nonloop_bitIs and construct_instance_loop of         *)
(* vp/compsyn_pred/elabmod.ml, cut into contexts the way allsat_interp of  *)
(* vp/share/interp.ml explores them.                                       *)
(*                                                                         *)
(* U is the set of unique input bits, and f a valuation of them.           *)
(***************************************************************************)
EXTENDS Encoder

On(S, i) == [k \in S |-> i[k]]

Bits(e) == DOMAIN (CHOOSE i \in e.inputs : TRUE)

Values(e, U) == {On(U, i) : i \in e.inputs}

(***************************************************************************)
(* The unrollings of frames 0..last, whatever they put out, whose current  *)
(* inputs agree on the unique bits and differ on the others.               *)
(***************************************************************************)
Runs(e, U, c, last) ==
  {x \in Windows(e, last + 1, last) :
      /\ On(U, x[c].i1) = On(U, x[c].i2)
      /\ On(Bits(e) \ U, x[c].i1) # On(Bits(e) \ U, x[c].i2)}

\* The f of an unrolling.
Known(U, c, x) == On(U, x[c].i1)

\* Mutant: the first state of the second copy is left out.
ContextOneState(e, U, c, x) ==
  <<x[0].s1,
    [k \in DOMAIN x |-> IF k = c THEN <<On(Bits(e) \ U, x[k].i1), On(Bits(e) \ U, x[k].i2)>>
                                 ELSE <<x[k].i1, x[k].i2>>]>>

(***************************************************************************)
(* construct_varlst2assumption: everything that, with f, determines the    *)
(* unrolling.  The first states, the other bits of the current inputs, and *)
(* the inputs of all other frames.                                         *)
(***************************************************************************)
Context(e, U, c, x) ==
  <<x[0].s1, x[0].s2,
    [k \in DOMAIN x |-> IF k = c THEN <<On(Bits(e) \ U, x[k].i1), On(Bits(e) \ U, x[k].i2)>>
                                 ELSE <<x[k].i1, x[k].i2>>]>>

(***************************************************************************)
(* characterization_interp in each context of a target: an interpolant     *)
(* holds of every f that must make the target true, and of no f that makes *)
(* it false.  Those that contradict the context are up to the solver.      *)
(***************************************************************************)
Cut(e, U, c, X) == {<<Context(e, U, c, x), Known(U, c, x)>> : x \in X}

Contexts(e, U, c, runs, targets) ==
  LET true  == Cut(e, U, c, targets)
      false == Cut(e, U, c, runs \ targets)
  IN {[must |-> {f \in Values(e, U) : <<z, f>> \in true},
       may  |-> {f \in Values(e, U) : <<z, f>> \notin false}] :
         z \in {Context(e, U, c, x) : x \in targets}}

\* construct_nonloop_bitIs p l r: some f leaves the other bits open.
NonloopQuery(e, U, p, l, r) ==
  LET runs == Runs(e, U, p + l, p + l + r)
  IN Contexts(e, U, p + l, runs, runs \cap Windows(e, p, p + l + r))

\* construct_instance_loop p l r: the same in an unrolling with loops.
LoopQuery(e, U, p, l, r) ==
  LET runs == Runs(e, U, p + l, p + l + r)
  IN Contexts(e, U, p + l, runs, runs \cap LoopWindows(e, p, l, r))
=============================================================================
