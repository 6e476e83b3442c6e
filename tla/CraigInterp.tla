----------------------------- MODULE CraigInterp -----------------------------
(***************************************************************************)
(* characterization_interp of vp/share/interp.ml: a circuit over the       *)
(* variables oidxlst that is true wherever the formula clslst makes the    *)
(* variable iidx true, and false wherever it makes iidx false.             *)
(*                                                                         *)
(* The clauses with iidx (A) and a renamed copy of them with its negation  *)
(* (B) are refuted by the solver.  read_proof_classfyAB reads the clauses  *)
(* of its proof back, tells those of A from those of B by their variables, *)
(* and characterization_interp_AB builds a circuit for every entry of the  *)
(* proof; the one of the empty clause is the result.                       *)
(*                                                                         *)
(* A circuit is the set of the valuations of oidxlst that make it true.    *)
(***************************************************************************)
EXTENDS Clauses, FiniteSets

CONSTANTS
  Query,       \* the calls: clauses, target, shared, and max, the largest index
  MaxChains(_) \* cap on the chains of a proof, for model checking only

(***************************************************************************)
(* The clauses are about the variables 1..max, as max_index is computed    *)
(* from them, and so are the target and the shared variables.              *)
(***************************************************************************)
ASSUME QueryAssumption ==
  \A q \in Query :
    /\ q.max \in Nat
    /\ q.target \in 1 .. q.max
    /\ q.shared \subseteq 1 .. q.max
    /\ \A c \in q.clauses : IsClause(c, q.max)

VARIABLES
  query,  \* the call that is answered
  proof,  \* the entries of the proof read so far, each with its circuit
  chain,  \* the chain that is followed, or {}
  pc

vars == <<query, proof, chain, pc>>

-----------------------------------------------------------------------------
\* shiftint: variables outside dontShiftIdxLst move up by shiftnum.
ShiftLit(q, x) ==
  IF Var(x) \in q.shared THEN x
  ELSE IF x > 0 THEN x + q.max ELSE x - q.max

ShiftClause(q, c) == {ShiftLit(q, x) : x \in c}

\* clslst_1A and clslst_0B of characterization_interp.
ClausesA(q) == q.clauses \cup {{q.target}}

\* Mutant: the target of the copy is one past its index.
ClausesBPastEnd(q) == {ShiftClause(q, c) : c \in q.clauses} \cup {{-q.target - q.max - 1}}

ClausesB(q) == {ShiftClause(q, c) : c \in q.clauses} \cup {{-q.target - q.max}}

\* isBvar
IsBVar(q, x) == Var(x) > q.max \/ Var(x) \in q.shared

\* Mutant: off by one.
IsBSimpleLate(q, c) == \E x \in c : Var(x) > q.max + 1

\* is_B_simple, which cannot tell a clause of shared variables only.
IsBSimple(q, c) == \E x \in c : Var(x) > q.max

Valuations(q) == [1 .. q.max + q.max -> BOOLEAN]
SharedValuations(q) == [q.shared -> BOOLEAN]

OnShared(q, v) == [x \in q.shared |-> v[x]]

Models(q, C) == {v \in Valuations(q) : SatisfiesAll(v, C)}

\* The disjunction of the shared literals of a clause of A.
OrOfShared(q, c) ==
  {g \in SharedValuations(q) : \E x \in c : IsBVar(q, x) /\ Var(x) \in q.shared /\ True(g, x)}

\* A root of the proof: Tproofitem_0B is true, Tproofitem_1A the disjunction.
Root(q, c) ==
  [clause |-> c, circuit |-> IF IsBSimple(q, c) THEN SharedValuations(q) ELSE OrOfShared(q, c)]

Roots(q) == {Root(q, c) : c \in ClausesA(q) \cup ClausesB(q)}

Init ==
  /\ query \in Query
  /\ proof = Roots(query)
  /\ chain = {}
  /\ pc = "proof"

-----------------------------------------------------------------------------
\* The first clause of a chain (original_clsix).
BeginChain ==
  /\ pc = "proof"
  /\ chain = {}
  /\ Cardinality(proof) < Cardinality(Roots(query)) + MaxChains(query)
  /\ \E e \in proof : chain' = {e}
  /\ UNCHANGED <<query, proof, pc>>

\* The clause that e and d give when they are resolved on the variable n.
Resolvent(e, d, x) == (e.clause \ {x}) \cup (d.clause \ {-x})

\* Mutant: the rules for the two kinds of pivots are swapped.
CombineSwapped(q, e, d, x) ==
  IF IsBVar(q, x) THEN e.circuit \cup d.circuit ELSE e.circuit \cap d.circuit

\* do_varcls_lst: conjunction at a pivot that B knows, disjunction at others.
Combine(q, e, d, x) ==
  IF IsBVar(q, x) THEN e.circuit \cap d.circuit ELSE e.circuit \cup d.circuit

(***************************************************************************)
(* The next pair of a pivot and a clause of the chain (varcls_lst).  The   *)
(* solver's clauses never hold a literal and its negation.                 *)
(***************************************************************************)
Resolve ==
  /\ pc = "proof"
  /\ \E e \in chain : \E d \in proof : \E x \in e.clause :
       /\ -x \in d.clause
       /\ \A y \in Resolvent(e, d, x) : -y \notin Resolvent(e, d, x)
       /\ chain' = {[clause |-> Resolvent(e, d, x), circuit |-> Combine(query, e, d, x)]}
  /\ UNCHANGED <<query, proof, pc>>

\* The end of a chain: its circuit is stored for the entry (Array.set arr_itpo).
EndChain ==
  /\ pc = "proof"
  /\ chain # {}
  /\ proof' = proof \cup chain
  /\ chain' = {}
  /\ pc' = IF \E e \in chain : e.clause = {} THEN "done" ELSE pc
  /\ UNCHANGED query

Next == BeginChain \/ Resolve \/ EndChain

Spec == Init /\ [][Next]_vars

-----------------------------------------------------------------------------
Entries == proof \cup chain

TypeOK ==
  /\ query \in Query
  /\ \A e \in Entries : /\ IsClause(e.clause, query.max + query.max)
                        /\ e.circuit \subseteq SharedValuations(query)
  /\ pc \in {"proof", "done"}

LocalHolds(q, v, c) == \E x \in c : ~IsBVar(q, x) /\ True(v, x)
BHolds(q, v, c) == \E x \in c : IsBVar(q, x) /\ True(v, x)

(***************************************************************************)
(* Every entry of a proof, in whatever order and by whatever resolutions   *)
(* the solver derives it: where A holds, its circuit is true unless its    *)
(* clause holds by a variable of A alone; where B holds and the circuit is *)
(* true, its clause holds by a variable B knows.  A root clause is told    *)
(* from its copy by its variables only.                                    *)
(***************************************************************************)
PartialInterpolant ==
  \A e \in Entries :
    /\ \A v \in Models(query, ClausesA(query)) :
         OnShared(query, v) \in e.circuit \/ LocalHolds(query, v, e.clause)
    /\ \A v \in Models(query, ClausesB(query)) :
         OnShared(query, v) \in e.circuit => BHolds(query, v, e.clause)

(***************************************************************************)
(* What the caller, allsat_interp, takes the circuit for: true of every    *)
(* valuation with which the clauses make the target true, and of none with *)
(* which they make it false.                                               *)
(***************************************************************************)
Makes(q, literal) ==
  {OnShared(q, v) : v \in Models(q, q.clauses \cup {{literal}})}

Interpolates ==
  \A e \in Entries : e.clause = {} =>
    /\ Makes(query, query.target) \subseteq e.circuit
    /\ e.circuit \cap Makes(query, -query.target) = {}
=============================================================================
