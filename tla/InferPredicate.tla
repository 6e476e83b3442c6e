--------------------------- MODULE InferPredicate ---------------------------
(***************************************************************************)
(* inferPredicateUniq of vp/compsyn_pred/elabmod.ml with the allsat_interp *)
(* of vp/share/interp.ml that it calls: find the predicate valid(f), the   *)
(* valuations f of the unique input bits for which the output determines   *)
(* the other bits as well.                                                 *)
(*                                                                         *)
(* For bound maxN, maxN+1, ... allsat_interp covers the f that some window *)
(* leaves open; they replace the list of the previous bound.  Then those   *)
(* that a window with loops leaves open are covered, and excluded for      *)
(* good.  The search ends at the first bound where nothing is left open.   *)
(*                                                                         *)
(* allsat_interp takes a model, and enlarges it: an interpolant over f, in *)
(* the context of the model, joins the cover.  A context is a record       *)
(*   must  the f for which the context makes the formula's target true     *)
(*   may   those for which it does not make it false: f that contradict    *)
(*         the context, or the predicates forced, are the solver's choice  *)
(***************************************************************************)
EXTENDS Integers

CONSTANTS
  Encoder,             \* the encoders, each with its unique input bits
  Value(_),            \* the valuations of the unique bits
  MaxN(_),             \* the largest window that made a bit unique
  NonloopContexts(_, _), \* the contexts of construct_nonloop_bitIs at a bound
  LoopContexts(_, _),  \* those of construct_instance_loop
  MaxB                 \* cap on the bound, for model checking only

Targets(Q) == UNION {c.must : c \in Q}

ASSUME BoundAssumption ==
  MaxB \in Nat /\ \A e \in Encoder : MaxN(e) \in Nat /\ MaxN(e) >= 2

(***************************************************************************)
(* Contexts are about valuations of the unique bits, an interpolant exists *)
(* in each of them, and more context leaves nothing open that was not.     *)
(***************************************************************************)
ASSUME ContextAssumption ==
  \A e \in Encoder : \A n \in MaxN(e) .. MaxB :
    /\ \A c \in NonloopContexts(e, n) \cup LoopContexts(e, n) :
         c.must \subseteq c.may /\ c.may \subseteq Value(e)
    /\ n < MaxB => Targets(NonloopContexts(e, n + 1)) \subseteq Targets(NonloopContexts(e, n))

VARIABLES
  enc,      \* the encoder the program was given
  b,        \* the bound
  nonloop,  \* infered_assertion_array_lst_old_nonloop, the f it covers
  loops,    \* infered_assertion_array_lst_old_loop, the f it covers
  query,    \* the contexts of the clauses allsat_interp works on
  found,    \* infered_assertion_array_lst_new of allsat_interp
  pc        \* the method that runs

vars == <<enc, b, nonloop, loops, query, found, pc>>

(***************************************************************************)
(* The predicates forced on the current input: one of nonloop, if there    *)
(* are any, and none of loops.                                             *)
(***************************************************************************)
Forced(keep, drop) == (IF keep = {} THEN Value(enc) ELSE keep) \ drop

\* Mutant: the predicates are forced in the negated copy of the clauses only.
RestrictHalf(Q, C) == {[must |-> c.must, may |-> c.may \cap C] : c \in Q}

Restrict(Q, C) ==
  {[must |-> c.must \cap C, may |-> c.may \cup (Value(enc) \ C)] : c \in Q}

TypeOK ==
  /\ enc \in Encoder
  /\ b \in Nat
  /\ nonloop \subseteq Value(enc)
  /\ loops \subseteq Value(enc)
  /\ found \subseteq Value(enc)
  /\ \A c \in query : c.must \subseteq c.may /\ c.may \subseteq Value(enc)
  /\ pc \in {"while", "nonloop", "loop", "done"}

Init ==
  /\ enc \in Encoder
  /\ b = MaxN(enc) - 1
  /\ nonloop = {}
  /\ loops = {}
  /\ query = {}
  /\ found = {}
  /\ pc = "while"

-----------------------------------------------------------------------------
\* The next bound: construct_nonloop_bitIs with the predicates of the last.
NextBound ==
  /\ pc = "while"
  /\ b < MaxB
  /\ b' = b + 1
  /\ query' = Restrict(NonloopContexts(enc, b'), Forced(nonloop, loops))
  /\ found' = {}
  /\ pc' = "nonloop"
  /\ UNCHANGED <<enc, nonloop, loops>>

\* Mutant: the search ends when the formula with loops is unsatisfiable.
UniqueLoop ==
  /\ pc = "loop"
  /\ Targets(query) = {}
  /\ pc' = "done"
  /\ UNCHANGED <<enc, b, nonloop, loops, query, found>>

\* The first solver call of inferSATFormula_plr_nonloop is unsatisfiable.
Unique ==
  /\ pc = "nonloop"
  /\ Targets(query) = {}
  /\ pc' = "done"
  /\ UNCHANGED <<enc, b, nonloop, loops, query, found>>

\* One round of allsat_interp: a model outside the cover, its context, and
\* the interpolant the proof of the context happens to give.
Enlarge ==
  /\ pc \in {"nonloop", "loop"}
  /\ \E c \in query :
       /\ c.must \ found # {}
       /\ \E more \in SUBSET (c.may \ c.must) : found' = found \cup c.must \cup more
  /\ UNCHANGED <<enc, b, nonloop, loops, query, pc>>

\* Mutant: allsat_interp stops after its first model.
EndNonloopFirst ==
  /\ pc = "nonloop"
  /\ found # {}
  /\ nonloop' = found
  /\ query' = Restrict(LoopContexts(enc, b), Forced(found, loops))
  /\ found' = {}
  /\ pc' = "loop"
  /\ UNCHANGED <<enc, b, loops>>

\* allsat_interp ran dry: the cover replaces nonloop, and
\* inferSATFormula_plr_loop starts on the formula with loops.
EndNonloop ==
  /\ pc = "nonloop"
  /\ Targets(query) # {}
  /\ Targets(query) \subseteq found
  /\ nonloop' = found
  /\ query' = Restrict(LoopContexts(enc, b), Forced(found, loops))
  /\ found' = {}
  /\ pc' = "loop"
  /\ UNCHANGED <<enc, b, loops>>

\* Mutant: the cover is not added to loops.
EndLoopForget ==
  /\ pc = "loop"
  /\ Targets(query) \subseteq found
  /\ query' = {}
  /\ found' = {}
  /\ pc' = "while"
  /\ UNCHANGED <<enc, b, nonloop, loops>>

\* It ran dry again: the cover joins loops.
EndLoop ==
  /\ pc = "loop"
  /\ Targets(query) \subseteq found
  /\ loops' = loops \cup found
  /\ query' = {}
  /\ found' = {}
  /\ pc' = "while"
  /\ UNCHANGED <<enc, b, nonloop>>

Next ==
  \/ NextBound
  \/ Unique
  \/ Enlarge
  \/ EndNonloop
  \/ EndLoop

Spec == Init /\ [][Next]_vars

\* The program is sequential: it keeps running while it can.
FairSpec == Spec /\ WF_vars(Next)

-----------------------------------------------------------------------------
\* The f some window of the bound leaves open.
Open(n) == Targets(NonloopContexts(enc, n))

(***************************************************************************)
(* valid(f), the complement of loops, holds of no f that a window of the   *)
(* final bound leaves open, though each bound looked only at the f the     *)
(* bound before had covered, and the cover was replaced every time.        *)
(***************************************************************************)
Covered == pc = "done" => Open(b) \subseteq loops

(***************************************************************************)
(* Between two bounds every open f is in the list that will be forced or   *)
(* in the one that is excluded.                                            *)
(***************************************************************************)
NothingForgotten ==
  pc = "while" /\ b >= MaxN(enc) => Open(b) \subseteq nonloop \cup loops

\* The inference ends.
Ends == <>(pc = "done")
=============================================================================
