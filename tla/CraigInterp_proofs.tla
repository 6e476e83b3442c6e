------------------------- MODULE CraigInterp_proofs -------------------------
(***************************************************************************)
(* The circuit read off any resolution proof is an interpolant, for every  *)
(* clause list and every set of shared variables.                          *)
(***************************************************************************)
EXTENDS CraigInterp, Sequences, FiniteSetTheorems, WellFoundedInduction, TLAPS

Log == INSTANCE ResolutionLog

\* The type of a query, from the assumption on the constant.
LEMMA QueryType ==
  ASSUME NEW q \in Query
  PROVE  /\ q.max \in Nat
         /\ q.target \in 1 .. q.max
         /\ q.shared \subseteq 1 .. q.max
         /\ \A c \in q.clauses : IsClause(c, q.max)
  BY QueryAssumption

\* The literals of A are about the variables 1..max.
LEMMA LiteralsOfA ==
  ASSUME NEW q \in Query, NEW c \in ClausesA(q)
  PROVE  IsClause(c, q.max)
<1>1. CASE c \in q.clauses
  BY <1>1, QueryType
<1>2. CASE c = {q.target}
  <2>1. q.max \in Nat /\ q.target \in 1 .. q.max
    BY QueryType
  <2> QED BY <1>2, <2>1 DEF IsClause
<1> QED BY <1>1, <1>2 DEF ClausesA

\* Shifting moves a literal to a variable that B knows.
LEMMA ShiftType ==
  ASSUME NEW q \in Query, NEW x \in Int, x # 0, -q.max <= x, x <= q.max
  PROVE  /\ ShiftLit(q, x) \in Int /\ ShiftLit(q, x) # 0
         /\ -(q.max + q.max) <= ShiftLit(q, x) /\ ShiftLit(q, x) <= q.max + q.max
         /\ IsBVar(q, ShiftLit(q, x))
         /\ Var(ShiftLit(q, x)) <= q.max => ShiftLit(q, x) = x /\ Var(x) \in q.shared
<1>1. q.max \in Nat
  BY QueryType
<1>2. CASE Var(x) \in q.shared
  <2>1. ShiftLit(q, x) = x
    BY <1>2 DEF ShiftLit
  <2> QED BY <1>1, <1>2, <2>1 DEF IsBVar, Var
<1>3. CASE Var(x) \notin q.shared /\ x > 0
  <2>1. ShiftLit(q, x) = x + q.max
    BY <1>3 DEF ShiftLit
  <2> QED BY <1>1, <1>3, <2>1 DEF IsBVar, Var
<1>4. CASE Var(x) \notin q.shared /\ ~(x > 0)
  <2>1. ShiftLit(q, x) = x - q.max
    BY <1>4 DEF ShiftLit
  <2> QED BY <1>1, <1>4, <2>1 DEF IsBVar, Var
<1> QED BY <1>2, <1>3, <1>4

\* The literals of B are about the variables 1..2*max, all known to B.
LEMMA LiteralsOfB ==
  ASSUME NEW q \in Query, NEW c \in ClausesB(q)
  PROVE  IsClause(c, q.max + q.max) /\ \A x \in c : IsBVar(q, x)
<1>1. ASSUME NEW d \in q.clauses, c = ShiftClause(q, d)
      PROVE  IsClause(c, q.max + q.max) /\ \A x \in c : IsBVar(q, x)
  <2>1. \A y \in d : y \in Int /\ y # 0 /\ -q.max <= y /\ y <= q.max
    BY QueryType DEF IsClause
  <2>2. \A x \in c : \E y \in d : x = ShiftLit(q, y)
    BY <1>1 DEF ShiftClause
  <2> QED BY <2>1, <2>2, ShiftType DEF IsClause
<1>2. CASE c = {-q.target - q.max}
  <2>1. q.max \in Nat /\ q.target \in 1 .. q.max
    BY QueryType
  <2> QED BY <1>2, <2>1 DEF IsClause, IsBVar, Var
<1> QED BY <1>1, <1>2 DEF ClausesB

(***************************************************************************)
(* is_B_simple takes a clause of B for one of A only if it is both.        *)
(***************************************************************************)
LEMMA NotSimpleIsA ==
  ASSUME NEW q \in Query, NEW c \in ClausesB(q), ~IsBSimple(q, c)
  PROVE  c \in ClausesA(q)
<1>1. ASSUME NEW d \in q.clauses, c = ShiftClause(q, d)
      PROVE  c \in ClausesA(q)
  <2>1. \A y \in d : y \in Int /\ y # 0 /\ -q.max <= y /\ y <= q.max
    BY QueryType DEF IsClause
  <2>2. q.max \in Nat
    BY QueryType
  <2>3. ASSUME NEW y \in d
        PROVE  ShiftLit(q, y) = y
    <3>1. ShiftLit(q, y) \in c
      BY <1>1 DEF ShiftClause
    <3>2. ~(Var(ShiftLit(q, y)) > q.max)
      BY <3>1 DEF IsBSimple
    <3>3. ShiftLit(q, y) \in Int
      BY <2>1, ShiftType
    <3>4. Var(ShiftLit(q, y)) <= q.max
      BY <2>2, <3>2, <3>3 DEF Var
    <3> QED BY <2>1, <3>4, ShiftType
  <2>4. c = d
    BY <1>1, <2>3 DEF ShiftClause
  <2> QED BY <2>4 DEF ClausesA
<1>2. CASE c = {-q.target - q.max}
  <2>1. q.max \in Nat /\ q.target \in 1 .. q.max
    BY QueryType
  <2>2. Var(-q.target - q.max) > q.max
    BY <2>1 DEF Var
  <2> QED BY <1>2, <2>2 DEF IsBSimple
<1> QED BY <1>1, <1>2 DEF ClausesB

-----------------------------------------------------------------------------
(***************************************************************************)
(* The literals of a clause and of its circuit under a valuation.          *)
(***************************************************************************)
LEMMA OnSharedType ==
  ASSUME NEW q \in Query, NEW v \in Valuations(q)
  PROVE  OnShared(q, v) \in SharedValuations(q)
<1>1. q.max \in Nat /\ q.shared \subseteq 1 .. q.max
  BY QueryType
<1>2. q.shared \subseteq 1 .. q.max + q.max
  BY <1>1
<1> QED BY <1>2 DEF OnShared, SharedValuations, Valuations

LEMMA TrueOnShared ==
  ASSUME NEW q \in Query, NEW v, NEW x \in Int, Var(x) \in q.shared
  PROVE  True(OnShared(q, v), x) <=> True(v, x)
<1>1. CASE x > 0
  <2>1. OnShared(q, v)[x] = v[x]
    BY <1>1 DEF OnShared, Var
  <2> QED BY <1>1, <2>1 DEF True
<1>2. CASE ~(x > 0)
  <2>1. OnShared(q, v)[-x] = v[-x]
    BY <1>2 DEF OnShared, Var
  <2> QED BY <1>2, <2>1 DEF True
<1> QED BY <1>1, <1>2

\* A literal and its negation are about the same variable, and not both true.
LEMMA Opposite ==
  ASSUME NEW q, NEW v, NEW x \in Int, x # 0
  PROVE  /\ IsBVar(q, -x) <=> IsBVar(q, x)
         /\ ~(True(v, x) /\ True(v, -x))
<1>1. Var(-x) = Var(x)
  BY DEF Var
<1>2. -(-x) = x
  OBVIOUS
<1>3. CASE x > 0
  <2>1. ~(-x > 0)
    BY <1>3
  <2> QED BY <1>1, <1>2, <1>3, <2>1 DEF IsBVar, True
<1>4. CASE ~(x > 0)
  <2>1. -x > 0
    BY <1>4
  <2> QED BY <1>1, <1>2, <1>4, <2>1 DEF IsBVar, True
<1> QED BY <1>3, <1>4

-----------------------------------------------------------------------------
(***************************************************************************)
(* One entry of a proof with a circuit that interpolates as far as its     *)
(* clause allows.                                                          *)
(***************************************************************************)
Sound(q, e) ==
  /\ IsClause(e.clause, q.max + q.max)
  /\ e.circuit \subseteq SharedValuations(q)
  /\ \A v \in Models(q, ClausesA(q)) :
       OnShared(q, v) \in e.circuit \/ LocalHolds(q, v, e.clause)
  /\ \A v \in Models(q, ClausesB(q)) :
       OnShared(q, v) \in e.circuit => BHolds(q, v, e.clause)

LEMMA OrOfSharedSound ==
  ASSUME NEW q \in Query, NEW c \in ClausesA(q), ~IsBSimple(q, c)
  PROVE  Sound(q, [clause |-> c, circuit |-> OrOfShared(q, c)])
<1>1. q.max \in Nat /\ \A x \in c : x \in Int /\ x # 0 /\ -q.max <= x /\ x <= q.max
  BY QueryType, LiteralsOfA DEF IsClause
<1>2. IsClause(c, q.max + q.max)
  BY <1>1 DEF IsClause
<1>3. OrOfShared(q, c) \subseteq SharedValuations(q)
  BY DEF OrOfShared
<1>4. \A x \in c : IsBVar(q, x) => Var(x) \in q.shared
  BY DEF IsBSimple, IsBVar
<1>5. ASSUME NEW v \in Models(q, ClausesA(q))
      PROVE  OnShared(q, v) \in OrOfShared(q, c) \/ LocalHolds(q, v, c)
  <2>1. v \in Valuations(q) /\ Satisfies(v, c)
    BY <1>5 DEF Models, SatisfiesAll
  <2>2. PICK x \in c : True(v, x)
    BY <2>1 DEF Satisfies
  <2>3. CASE IsBVar(q, x)
    <3>1. Var(x) \in q.shared
      BY <1>4, <2>3
    <3>2. True(OnShared(q, v), x)
      BY <1>1, <2>2, <3>1, TrueOnShared
    <3>3. OnShared(q, v) \in SharedValuations(q)
      BY <2>1, OnSharedType
    <3> QED BY <2>3, <3>1, <3>2, <3>3 DEF OrOfShared
  <2>4. CASE ~IsBVar(q, x)
    BY <2>2, <2>4 DEF LocalHolds
  <2> QED BY <2>3, <2>4
<1>6. ASSUME NEW v \in Models(q, ClausesB(q)), OnShared(q, v) \in OrOfShared(q, c)
      PROVE  BHolds(q, v, c)
  <2>1. PICK x \in c : IsBVar(q, x) /\ Var(x) \in q.shared /\ True(OnShared(q, v), x)
    BY <1>6 DEF OrOfShared
  <2>2. True(v, x)
    BY <1>1, <2>1, TrueOnShared
  <2> QED BY <2>1, <2>2 DEF BHolds
<1> QED BY <1>2, <1>3, <1>5, <1>6 DEF Sound

LEMMA RootSound ==
  ASSUME NEW q \in Query, NEW c \in ClausesA(q) \cup ClausesB(q)
  PROVE  Sound(q, Root(q, c))
<1>1. CASE IsBSimple(q, c)
  <2>1. c \notin ClausesA(q)
    <3>1. SUFFICES ASSUME c \in ClausesA(q) PROVE FALSE
      OBVIOUS
    <3>2. PICK x \in c : Var(x) > q.max
      BY <1>1 DEF IsBSimple
    <3>3. x \in Int /\ -q.max <= x /\ x <= q.max /\ q.max \in Nat
      BY <3>1, LiteralsOfA, QueryType DEF IsClause
    <3> QED BY <3>2, <3>3 DEF Var
  <2>2. IsClause(c, q.max + q.max) /\ \A x \in c : IsBVar(q, x)
    BY <2>1, LiteralsOfB
  <2>3. ASSUME NEW v \in Models(q, ClausesA(q))
        PROVE  OnShared(q, v) \in SharedValuations(q)
    BY <2>3, OnSharedType DEF Models, SatisfiesAll
  <2>4. ASSUME NEW v \in Models(q, ClausesB(q))
        PROVE  BHolds(q, v, c)
    <3>1. Satisfies(v, c)
      BY <2>1, <2>4 DEF Models, SatisfiesAll
    <3> QED BY <2>2, <3>1 DEF Satisfies, BHolds
  <2> QED BY <1>1, <2>2, <2>3, <2>4 DEF Sound, Root
<1>2. CASE ~IsBSimple(q, c)
  <2>1. c \in ClausesA(q)
    BY <1>2, NotSimpleIsA
  <2> QED BY <1>2, <2>1, OrOfSharedSound DEF Root
<1> QED BY <1>1, <1>2

\* The two rules for a pivot.
LEMMA ResolveSound ==
  ASSUME NEW q \in Query, NEW e, NEW d, Sound(q, e), Sound(q, d),
         NEW x \in e.clause, -x \in d.clause
  PROVE  Sound(q, [clause |-> Resolvent(e, d, x), circuit |-> Combine(q, e, d, x)])
<1>1. x \in Int /\ x # 0
  BY DEF Sound, IsClause
<1> DEFINE r == Resolvent(e, d, x)
<1>2. /\ \A y \in e.clause : y # x => y \in r
      /\ \A y \in d.clause : y # -x => y \in r
  BY DEF Resolvent
<1>3. IsClause(r, q.max + q.max)
  BY DEF Sound, IsClause, Resolvent
<1>4. Combine(q, e, d, x) \subseteq SharedValuations(q)
  BY DEF Sound, Combine
<1> HIDE DEF r
<1>5. ASSUME NEW v \in Models(q, ClausesA(q))
      PROVE  OnShared(q, v) \in Combine(q, e, d, x) \/ LocalHolds(q, v, r)
  <2>1. OnShared(q, v) \in e.circuit \/ \E y \in e.clause : ~IsBVar(q, y) /\ True(v, y)
    BY DEF Sound, LocalHolds
  <2>2. OnShared(q, v) \in d.circuit \/ \E y \in d.clause : ~IsBVar(q, y) /\ True(v, y)
    BY DEF Sound, LocalHolds
  <2>3. CASE IsBVar(q, x)
    <3>1. IsBVar(q, -x)
      BY <1>1, <2>3, Opposite
    <3> QED BY <1>2, <2>1, <2>2, <2>3, <3>1 DEF Combine, LocalHolds
  <2>4. CASE ~IsBVar(q, x)
    <3>1. ~(True(v, x) /\ True(v, -x))
      BY <1>1, Opposite
    <3> QED BY <1>2, <2>1, <2>2, <2>4, <3>1 DEF Combine, LocalHolds
  <2> QED BY <2>3, <2>4
<1>6. ASSUME NEW v \in Models(q, ClausesB(q)), OnShared(q, v) \in Combine(q, e, d, x)
      PROVE  BHolds(q, v, r)
  <2>1. OnShared(q, v) \in e.circuit => \E y \in e.clause : IsBVar(q, y) /\ True(v, y)
    BY DEF Sound, BHolds
  <2>2. OnShared(q, v) \in d.circuit => \E y \in d.clause : IsBVar(q, y) /\ True(v, y)
    BY DEF Sound, BHolds
  <2>3. CASE IsBVar(q, x)
    <3>1. ~(True(v, x) /\ True(v, -x))
      BY <1>1, Opposite
    <3>2. OnShared(q, v) \in e.circuit /\ OnShared(q, v) \in d.circuit
      BY <1>6, <2>3 DEF Combine
    <3> QED BY <1>2, <2>1, <2>2, <3>1, <3>2 DEF BHolds
  <2>4. CASE ~IsBVar(q, x)
    <3>1. ~IsBVar(q, -x)
      BY <1>1, <2>4, Opposite
    <3>2. OnShared(q, v) \in e.circuit \/ OnShared(q, v) \in d.circuit
      BY <1>6, <2>4 DEF Combine
    <3> QED BY <1>2, <2>1, <2>2, <2>4, <3>1, <3>2 DEF BHolds
  <2> QED BY <2>3, <2>4
<1> QED BY <1>3, <1>4, <1>5, <1>6 DEF Sound, r

-----------------------------------------------------------------------------
Inv ==
  /\ query \in Query
  /\ \A e \in Entries : Sound(query, e)
  /\ pc \in {"proof", "done"}

LEMMA InitInv == Init => Inv
<1> SUFFICES ASSUME Init PROVE Inv
  OBVIOUS
<1>1. query \in Query /\ pc \in {"proof", "done"}
  BY DEF Init
<1>2. \A e \in Entries : \E c \in ClausesA(query) \cup ClausesB(query) : e = Root(query, c)
  BY DEF Init, Entries, Roots
<1> QED BY <1>1, <1>2, RootSound DEF Inv

LEMMA NextInv == Inv /\ [Next]_vars => Inv'
<1> SUFFICES ASSUME Inv, [Next]_vars PROVE Inv'
  OBVIOUS
<1>1. CASE BeginChain
  <2>1. Entries' \subseteq Entries /\ query' = query /\ pc' = pc
    BY <1>1 DEF BeginChain, Entries
  <2> QED BY <2>1 DEF Inv
<1>2. CASE Resolve
  <2>0. PICK e \in chain, d \in proof : \E x \in e.clause :
          /\ -x \in d.clause
          /\ chain' = {[clause |-> Resolvent(e, d, x), circuit |-> Combine(query, e, d, x)]}
    BY <1>2 DEF Resolve
  <2>1. PICK x \in e.clause :
          /\ -x \in d.clause
          /\ chain' = {[clause |-> Resolvent(e, d, x), circuit |-> Combine(query, e, d, x)]}
    BY <2>0
  <2>2. Sound(query, e) /\ Sound(query, d) /\ query \in Query
    BY DEF Inv, Entries
  <2>3. Sound(query, [clause |-> Resolvent(e, d, x), circuit |-> Combine(query, e, d, x)])
    BY <2>1, <2>2, ResolveSound
  <2>4. query' = query /\ proof' = proof /\ pc' = pc
    BY <1>2 DEF Resolve
  <2> QED BY <2>1, <2>3, <2>4 DEF Inv, Entries
<1>3. CASE EndChain
  <2>1. Entries' = Entries /\ query' = query /\ pc' \in {"proof", "done"}
    BY <1>3 DEF EndChain, Entries, Inv
  <2> QED BY <2>1 DEF Inv
<1>4. CASE UNCHANGED vars
  BY <1>4 DEF Inv, Entries, vars
<1> QED BY <1>1, <1>2, <1>3, <1>4 DEF Next

(***************************************************************************)
(* Whatever the solver resolves, every circuit built is sound.             *)
(***************************************************************************)
THEOREM SpecInv == Spec => []Inv
<1> QED BY InitInv, NextInv, PTL DEF Spec

(***************************************************************************)
(* Clauses keep to the variables of the two copies, circuits to the shared *)
(* ones.                                                                   *)
(***************************************************************************)
THEOREM SpecTypeOK == Spec => []TypeOK
<1>1. Inv => TypeOK
  BY DEF Inv, TypeOK, Sound
<1> QED BY <1>1, SpecInv, PTL

(***************************************************************************)
(* The rules of characterization_interp_AB: each entry of the proof has a  *)
(* partial interpolant.                                                    *)
(***************************************************************************)
THEOREM SpecPartialInterpolant == Spec => []PartialInterpolant
<1>1. Inv => PartialInterpolant
  BY DEF Inv, PartialInterpolant, Sound
<1> QED BY <1>1, SpecInv, PTL

-----------------------------------------------------------------------------
(***************************************************************************)
(* A valuation of the clauses is one of their copy: moved to the shifted   *)
(* variables, and left where it is on the shared ones.                     *)
(***************************************************************************)
Copy(q, v) == [n \in 1 .. q.max + q.max |-> IF n <= q.max THEN v[n] ELSE v[n - q.max]]

LEMMA CopyType ==
  ASSUME NEW q \in Query, NEW v \in Valuations(q)
  PROVE  Copy(q, v) \in Valuations(q) /\ OnShared(q, Copy(q, v)) = OnShared(q, v)
<1>1. q.max \in Nat /\ q.shared \subseteq 1 .. q.max
  BY QueryType
<1>2. ASSUME NEW n \in 1 .. q.max + q.max
      PROVE  (IF n <= q.max THEN v[n] ELSE v[n - q.max]) \in BOOLEAN
  <2>1. CASE n <= q.max
    BY <2>1 DEF Valuations
  <2>2. CASE ~(n <= q.max)
    <3>1. n - q.max \in 1 .. q.max + q.max
      BY <1>1, <2>2
    <3> QED BY <2>2, <3>1 DEF Valuations
  <2> QED BY <2>1, <2>2
<1>3. Copy(q, v) \in Valuations(q)
  BY <1>2 DEF Copy, Valuations
<1>4. ASSUME NEW n \in q.shared
      PROVE  Copy(q, v)[n] = v[n]
  <2>1. n \in 1 .. q.max + q.max /\ n <= q.max
    BY <1>1
  <2> QED BY <2>1 DEF Copy
<1> QED BY <1>3, <1>4 DEF OnShared

LEMMA CopyTrue ==
  ASSUME NEW q \in Query, NEW v \in Valuations(q),
         NEW x \in Int, x # 0, -q.max <= x, x <= q.max
  PROVE  /\ True(v, x) => True(Copy(q, v), ShiftLit(q, x))
         /\ True(v, x) => x > 0 \/ True(Copy(q, v), x - q.max)
<1>1. q.max \in Nat
  BY QueryType
<1>2. CASE x > 0
  <2>1. x \in 1 .. q.max + q.max /\ x <= q.max
    BY <1>1, <1>2
  <2>2. x + q.max \in 1 .. q.max + q.max /\ ~(x + q.max <= q.max) /\ (x + q.max) - q.max = x
    BY <1>1, <1>2
  <2>3. Copy(q, v)[x] = v[x]
    BY <2>1 DEF Copy
  <2>4. Copy(q, v)[x + q.max] = v[x]
    BY <2>2 DEF Copy
  <2>5. x + q.max > 0
    BY <1>1, <1>2
  <2> QED BY <1>2, <2>3, <2>4, <2>5 DEF True, ShiftLit
<1>3. CASE ~(x > 0)
  <2>1. -x \in 1 .. q.max + q.max /\ -x <= q.max
    BY <1>1, <1>3
  <2>2. /\ -(x - q.max) \in 1 .. q.max + q.max
        /\ ~(-(x - q.max) <= q.max)
        /\ -(x - q.max) - q.max = -x
    BY <1>1, <1>3
  <2>3. Copy(q, v)[-x] = v[-x]
    BY <2>1 DEF Copy
  <2>4. Copy(q, v)[-(x - q.max)] = v[-x]
    BY <2>2 DEF Copy
  <2>5. ~(x - q.max > 0)
    BY <1>1, <1>3
  <2> QED BY <1>3, <2>3, <2>4, <2>5 DEF True, ShiftLit
<1> QED BY <1>2, <1>3

LEMMA CopyModels ==
  ASSUME NEW q \in Query, NEW v \in Models(q, q.clauses \cup {{-q.target}})
  PROVE  Copy(q, v) \in Models(q, ClausesB(q))
<1>1. v \in Valuations(q) /\ \A c \in q.clauses \cup {{-q.target}} : Satisfies(v, c)
  BY DEF Models, SatisfiesAll
<1>2. ASSUME NEW d \in q.clauses
      PROVE  Satisfies(Copy(q, v), ShiftClause(q, d))
  <2>1. PICK x \in d : True(v, x)
    BY <1>1 DEF Satisfies
  <2>2. x \in Int /\ x # 0 /\ -q.max <= x /\ x <= q.max
    BY QueryType DEF IsClause
  <2>3. True(Copy(q, v), ShiftLit(q, x))
    BY <1>1, <2>1, <2>2, CopyTrue
  <2>4. ShiftLit(q, x) \in ShiftClause(q, d)
    BY DEF ShiftClause
  <2> QED BY <2>3, <2>4 DEF Satisfies
<1>3. Satisfies(Copy(q, v), {-q.target - q.max})
  <2>1. q.max \in Nat /\ q.target \in 1 .. q.max
    BY QueryType
  <2>2. True(v, -q.target)
    <3>1. Satisfies(v, {-q.target})
      BY <1>1
    <3> QED BY <3>1 DEF Satisfies
  <2>3. True(Copy(q, v), -q.target - q.max)
    <3> DEFINE x == -q.target
    <3>1. x \in Int /\ x # 0 /\ -q.max <= x /\ x <= q.max /\ ~(x > 0)
      BY <2>1
    <3> HIDE DEF x
    <3>2. True(v, x) => True(Copy(q, v), x - q.max)
      BY <1>1, <3>1, CopyTrue
    <3> QED BY <2>2, <3>2 DEF x
  <2> QED BY <2>3 DEF Satisfies
<1>4. Copy(q, v) \in Valuations(q)
  BY <1>1, CopyType
<1> QED BY <1>2, <1>3, <1>4 DEF Models, SatisfiesAll, ClausesB

(***************************************************************************)
(* Between what makes the target true and what makes it false.             *)
(***************************************************************************)
Between(q, circuit) ==
  /\ Makes(q, q.target) \subseteq circuit
  /\ circuit \cap Makes(q, -q.target) = {}

LEMMA SoundIsBetween ==
  ASSUME NEW q \in Query, NEW e, Sound(q, e), e.clause = {}
  PROVE  Between(q, e.circuit)
<1>1. ASSUME NEW v \in Models(q, q.clauses \cup {{q.target}})
      PROVE  OnShared(q, v) \in e.circuit
  BY DEF Sound, LocalHolds, ClausesA
<1>2. ASSUME NEW v \in Models(q, q.clauses \cup {{-q.target}})
      PROVE  OnShared(q, v) \notin e.circuit
  <2>1. Copy(q, v) \in Models(q, ClausesB(q))
    BY CopyModels
  <2>2. OnShared(q, Copy(q, v)) = OnShared(q, v)
    BY CopyType DEF Models, SatisfiesAll
  <2> QED BY <2>1, <2>2 DEF Sound, BHolds
<1> QED BY <1>1, <1>2 DEF Makes, Between

(***************************************************************************)
(* The circuit of the empty clause, which characterization_interp returns, *)
(* lies between what makes the target true and what makes it false: this   *)
(* is all that InferPredicate assumes of an interpolant.                   *)
(***************************************************************************)
THEOREM SpecInterpolates == Spec => []Interpolates
<1>1. Inv => Interpolates
  BY SoundIsBetween DEF Inv, Interpolates, Between
<1> QED BY <1>1, SpecInv, PTL

-----------------------------------------------------------------------------
(***************************************************************************)
(* The circuits of a given log, as characterization_interp_AB fills        *)
(* arr_itpo: entry by entry, a root by its variables, a chain by one rule  *)
(* after the other.                                                        *)
(***************************************************************************)
Follows(q, circuit, e, k) ==
  /\ k[0] = circuit[e.start]
  /\ \A i \in 1 .. Len(e.steps) :
       k[i] = Combine(q, [circuit |-> k[i - 1]], [circuit |-> circuit[e.steps[i].id]], e.steps[i].pivot)

CircuitRight(q, log, circuit, n) ==
  IF log[n].kind = "root" THEN circuit[n] = Root(q, log[n].clause).circuit
  ELSE \E k : Follows(q, circuit, log[n], k) /\ circuit[n] = k[Len(log[n].steps)]

CircuitsOf(q, log, circuit) == \A n \in DOMAIN log : CircuitRight(q, log, circuit, n)

LEMMA LeastMember ==
  ASSUME NEW T \in SUBSET Nat, T # {}
  PROVE  \E m \in T : \A n \in T : m <= n
<1> DEFINE I == {0 .. n : n \in T}
<1>1. I \subseteq FiniteSubsetsOf(Nat) /\ I # {}
  <2>1. ASSUME NEW n \in T PROVE IsFiniteSet(0 .. n) /\ 0 .. n \subseteq Nat
    BY FS_Interval
  <2>2. QED
    BY <2>1 DEF FiniteSubsetsOf
<1>2. \E x \in I : \A y \in I : ~(<<y, x>> \in StrictSubsetOrdering(Nat))
  BY <1>1, FS_StrictSubsetOrderingWellFounded, WFMin
<1>3. PICK m \in T : \A n \in T : ~(<<0 .. n, 0 .. m>> \in StrictSubsetOrdering(Nat))
  BY <1>2
<1>4. ASSUME NEW n \in T PROVE m <= n
  <2>1. SUFFICES ASSUME n < m PROVE FALSE
    OBVIOUS
  <2>2. 0 .. n \subseteq 0 .. m /\ m \in 0 .. m /\ m \notin 0 .. n
    BY <2>1
  <2>3. <<0 .. n, 0 .. m>> \in (SUBSET Nat) \X (SUBSET Nat)
    OBVIOUS
  <2>4. QED
    BY <1>3, <2>2, <2>3 DEF StrictSubsetOrdering
<1>5. QED
  BY <1>4

\* One step of a chain, whichever of the two clauses holds the variable.
LEMMA StepSound ==
  ASSUME NEW q \in Query, NEW e, NEW d, Sound(q, e), Sound(q, d), NEW x \in Int,
         ~Log!IsTautology(e.clause), ~Log!IsTautology(d.clause),
         Log!IsPivot(e.clause, d.clause, x)
  PROVE  Sound(q, [clause |-> Log!Resolvent(e.clause, d.clause, x), circuit |-> Combine(q, e, d, x)])
<1>1. -(-x) = x
  OBVIOUS
<1>2. /\ x \in e.clause => -x \notin e.clause
      /\ x \in d.clause => -x \notin d.clause
  BY DEF Log!IsTautology
<1>3. CASE x \in e.clause /\ -x \in d.clause
  <2>1. Resolvent(e, d, x) = Log!Resolvent(e.clause, d.clause, x)
    BY <1>2, <1>3 DEF Resolvent, Log!Resolvent
  <2>2. QED
    BY <1>3, <2>1, ResolveSound
<1>4. CASE -x \in e.clause /\ x \in d.clause
  <2> DEFINE y == -x
  <2>1. y \in e.clause /\ -y \in d.clause /\ -y = x
    BY <1>1, <1>4
  <2>2. Resolvent(e, d, y) = Log!Resolvent(e.clause, d.clause, x)
    BY <1>2, <1>4, <2>1 DEF Resolvent, Log!Resolvent
  <2>3. Combine(q, e, d, y) = Combine(q, e, d, x)
    <3>1. x # 0
      BY <1>4 DEF Sound, IsClause
    <3>2. IsBVar(q, y) <=> IsBVar(q, x)
      BY <3>1, Opposite
    <3>3. QED
      BY <3>2 DEF Combine
  <2> HIDE DEF y
  <2>4. QED
    BY <2>1, <2>2, <2>3, ResolveSound
<1>5. QED
  BY <1>3, <1>4 DEF Log!IsPivot

\* The entries before one, and those that it may cite.
LEMMA BeforeEntry ==
  ASSUME NEW S, NEW log \in Seq(S), NEW n \in DOMAIN log
  PROVE  /\ n \in Nat /\ n # 0 /\ DOMAIN log = 1 .. Len(log)
         /\ Log!LastId(SubSeq(log, 1, n - 1)) = n - 1
         /\ \A id \in 1 .. n - 1 : /\ id \in DOMAIN log
                                   /\ Log!ClauseOf(SubSeq(log, 1, n - 1), id) = log[id].clause
<1> DEFINE before == SubSeq(log, 1, n - 1)
<1>1. Len(log) \in Nat /\ DOMAIN log = 1 .. Len(log) /\ n \in 1 .. Len(log)
  OBVIOUS
<1>2. before = [i \in 1 .. n - 1 |-> log[i]]
  BY <1>1
<1>3. before \in Seq(S) /\ Len(before) = n - 1
  BY <1>1
<1>4. \A id \in 1 .. n - 1 : before[id] = log[id] /\ id \in 1 .. Len(log)
  BY <1>1, <1>2
<1> HIDE DEF before
<1>5. QED
  BY <1>1, <1>3, <1>4 DEF Log!LastId, Log!ClauseOf, before

Good(q, clause, circuit) ==
  Sound(q, [clause |-> clause, circuit |-> circuit]) /\ ~Log!IsTautology(clause)

\* A right chain keeps what its clauses have, by the two rules alone.
LEMMA ChainSound ==
  ASSUME NEW q \in Query, NEW S, NEW log \in Seq(S), NEW n \in DOMAIN log, NEW circuit,
         NEW F, Log!RightEntry(log, F, n), log[n].kind # "root", CircuitRight(q, log, circuit, n),
         \A m \in 1 .. n - 1 : Good(q, log[m].clause, circuit[m])
  PROVE  Good(q, log[n].clause, circuit[n])
<1> DEFINE e      == log[n]
           before == SubSeq(log, 1, n - 1)
           steps  == e.steps
           N      == Len(steps)
<1>1. PICK k : Follows(q, circuit, e, k) /\ circuit[n] = k[N]
  BY DEF CircuitRight
<1>2. /\ e.start \in 1 .. Log!LastId(before)
      /\ Log!Resolves(before, Log!ClauseOf(before, e.start), steps, e.clause)
  BY DEF Log!RightEntry
<1>3. /\ steps \in Seq([id : Nat, pivot : Nat])
      /\ \E w : /\ w[0] = Log!ClauseOf(before, e.start) /\ w[N] = e.clause
                /\ \A i \in 1 .. N :
                     /\ steps[i].id \in 1 .. Log!LastId(before)
                     /\ w[i] = Log!Resolvent(w[i - 1], Log!ClauseOf(before, steps[i].id), steps[i].pivot)
                     /\ Log!IsPivot(w[i - 1], Log!ClauseOf(before, steps[i].id), steps[i].pivot)
                     /\ ~Log!IsTautology(w[i])
  BY <1>2 DEF Log!Resolves
<1>4. PICK w : /\ w[0] = Log!ClauseOf(before, e.start) /\ w[N] = e.clause
               /\ \A i \in 1 .. N :
                    /\ steps[i].id \in 1 .. Log!LastId(before)
                    /\ w[i] = Log!Resolvent(w[i - 1], Log!ClauseOf(before, steps[i].id), steps[i].pivot)
                    /\ Log!IsPivot(w[i - 1], Log!ClauseOf(before, steps[i].id), steps[i].pivot)
                    /\ ~Log!IsTautology(w[i])
  BY <1>3
<1>5. N \in Nat /\ \A i \in 1 .. N : steps[i].pivot \in Int
  <2> DEFINE R == [id : Nat, pivot : Nat]
  <2>1. steps \in Seq(R)
    BY <1>3
  <2>2. \A r \in R : r.pivot \in Int
    OBVIOUS
  <2> HIDE DEF R, steps
  <2>3. QED
    BY <2>1, <2>2
<1>6. \A id \in 1 .. Log!LastId(before) :
        Log!ClauseOf(before, id) = log[id].clause /\ Good(q, log[id].clause, circuit[id])
  BY BeforeEntry
<1>7. /\ k[0] = circuit[e.start]
      /\ \A i \in 1 .. N :
           k[i] = Combine(q, [circuit |-> k[i - 1]], [circuit |-> circuit[steps[i].id]], steps[i].pivot)
  BY <1>1 DEF Follows
<1> HIDE DEF e, before, steps, N
<1> DEFINE T == {i \in 0 .. N : ~Good(q, w[i], k[i])}
<1>8. T = {}
  <2>1. SUFFICES ASSUME T # {} PROVE FALSE
    OBVIOUS
  <2>2. T \in SUBSET Nat
    BY <1>5
  <2>3. PICK i \in T : \A j \in T : i <= j
    <3> HIDE DEF T
    <3>1. QED
      BY <2>1, <2>2, LeastMember
  <2>4. i \in 0 .. N /\ ~Good(q, w[i], k[i]) /\ \A j \in 0 .. N : ~Good(q, w[j], k[j]) => i <= j
    BY <2>3
  <2> HIDE DEF T
  <2>5. i # 0
    BY <1>2, <1>4, <1>6, <1>7, <2>4
  <2>6. i \in 1 .. N /\ i - 1 \in 0 .. N /\ ~(i <= i - 1)
    BY <1>5, <2>4, <2>5
  <2> DEFINE a == [clause |-> w[i - 1], circuit |-> k[i - 1]]
             b == [clause |-> log[steps[i].id].clause, circuit |-> circuit[steps[i].id]]
             x == steps[i].pivot
  <2>7. /\ Sound(q, a) /\ ~Log!IsTautology(a.clause)
        /\ Sound(q, b) /\ ~Log!IsTautology(b.clause)
    BY <1>4, <1>6, <2>4, <2>6 DEF Good
  <2>8. /\ Log!IsPivot(a.clause, b.clause, x) /\ x \in Int
        /\ w[i] = Log!Resolvent(a.clause, b.clause, x) /\ ~Log!IsTautology(w[i])
    BY <1>4, <1>5, <1>6, <2>6
  <2>9. k[i] = Combine(q, a, b, x)
    BY <1>7, <2>6 DEF Combine
  <2> HIDE DEF a, b, x
  <2>10. Sound(q, [clause |-> Log!Resolvent(a.clause, b.clause, x), circuit |-> Combine(q, a, b, x)])
    BY <2>7, <2>8, StepSound
  <2>11. QED
    BY <2>4, <2>8, <2>9, <2>10 DEF Good
<1>9. Good(q, w[N], k[N])
  BY <1>5, <1>8
<1>10. QED
  BY <1>1, <1>4, <1>9 DEF e, N

\* Entry by entry.
LEMMA EntriesGood ==
  ASSUME NEW q \in Query, NEW S, NEW log \in Seq(S), NEW circuit, CircuitsOf(q, log, circuit),
         Log!RightLog(log, ClausesA(q) \cup ClausesB(q))
  PROVE  \A n \in DOMAIN log : Good(q, log[n].clause, circuit[n])
<1> DEFINE F == ClausesA(q) \cup ClausesB(q)
           T == {n \in DOMAIN log : ~Good(q, log[n].clause, circuit[n])}
<1>1. SUFFICES ASSUME T # {} PROVE FALSE
  OBVIOUS
<1>2. T \in SUBSET Nat
  BY BeforeEntry
<1>3. PICK n \in T : \A m \in T : n <= m
  <2> HIDE DEF T
  <2>1. QED
    BY <1>1, <1>2, LeastMember
<1>4. n \in DOMAIN log /\ ~Good(q, log[n].clause, circuit[n])
  BY <1>3
<1>5. ASSUME NEW m \in 1 .. n - 1 PROVE Good(q, log[m].clause, circuit[m])
  <2>1. m \in DOMAIN log /\ ~(n <= m)
    BY <1>4, BeforeEntry
  <2>2. QED
    BY <1>3, <2>1
<1> HIDE DEF T
<1>6. Log!RightEntry(log, F, n) /\ CircuitRight(q, log, circuit, n)
  BY <1>4 DEF Log!RightLog, CircuitsOf
<1>7. CASE log[n].kind = "root"
  <2>1. log[n].clause \in F /\ ~Log!IsTautology(log[n].clause)
    BY <1>6, <1>7 DEF Log!RightEntry
  <2>2. circuit[n] = Root(q, log[n].clause).circuit
    BY <1>6, <1>7 DEF CircuitRight
  <2>3. [clause |-> log[n].clause, circuit |-> circuit[n]] = Root(q, log[n].clause)
    BY <2>2 DEF Root
  <2>4. QED
    BY <1>4, <2>1, <2>3, RootSound DEF Good
<1>8. CASE log[n].kind # "root"
  <2> HIDE DEF F
  <2>1. QED
    BY <1>4, <1>5, <1>6, <1>8, ChainSound
<1>9. QED
  BY <1>7, <1>8

\* Every chain can be followed, once its clauses have their circuits.
LEMMA Followed ==
  ASSUME NEW q, NEW circuit, NEW e, Len(e.steps) \in Nat
  PROVE  \E k : Follows(q, circuit, e, k)
<1> DEFINE N       == Len(e.steps)
           G(a, i) == Combine(q, [circuit |-> a], [circuit |-> circuit[e.steps[i].id]], e.steps[i].pivot)
           Upto(k, n) == k[0] = circuit[e.start] /\ \A i \in 1 .. n : k[i] = G(k[i - 1], i)
           T       == {n \in 0 .. N : ~\E k : Upto(k, n)}
<1> HIDE DEF G
<1>1. T = {}
  <2>1. SUFFICES ASSUME T # {} PROVE FALSE
    OBVIOUS
  <2>2. T \in SUBSET Nat
    OBVIOUS
  <2>3. PICK n \in T : \A m \in T : n <= m
    <3> HIDE DEF T
    <3>1. QED
      BY <2>1, <2>2, LeastMember
  <2>4. n \in 0 .. N /\ ~\E k : Upto(k, n)
    BY <2>3
  <2>5. n # 0
    <3>1. SUFFICES ASSUME n = 0 PROVE \E k : Upto(k, 0)
      BY <2>4
    <3> DEFINE k == [i \in 0 .. 0 |-> circuit[e.start]]
    <3>2. k[0] = circuit[e.start] /\ \A i \in 1 .. 0 : FALSE
      OBVIOUS
    <3> HIDE DEF k
    <3>3. QED
      BY <3>2
  <2>6. n \in 1 .. N /\ n - 1 \in 0 .. N /\ ~(n <= n - 1)
    BY <2>4, <2>5
  <2>7. PICK k : Upto(k, n - 1)
    BY <2>3, <2>6
  <2> DEFINE l == [i \in 0 .. n |-> IF i = n THEN G(k[n - 1], n) ELSE k[i]]
  <2>8. \A i \in 0 .. n - 1 : i \in 0 .. n /\ i # n
    BY <2>6
  <2>9. l[n] = G(k[n - 1], n) /\ \A i \in 0 .. n - 1 : l[i] = k[i]
    BY <2>6, <2>8
  <2> HIDE DEF l
  <2>10. \A i \in 1 .. n : i - 1 \in 0 .. n - 1 /\ (i = n \/ (i \in 1 .. n - 1 /\ i \in 0 .. n - 1))
    BY <2>6
  <2>11. 0 \in 0 .. n - 1
    BY <2>6
  <2>12. Upto(l, n)
    BY <2>7, <2>9, <2>10, <2>11
  <2>13. QED
    BY <2>4, <2>12
<1>2. PICK k : Upto(k, N)
  BY <1>1
<1>3. QED
  BY <1>2 DEF Follows, G

\* Hence every log has circuits.
LEMMA CircuitsExist ==
  ASSUME NEW q, NEW S, NEW log \in Seq(S), NEW F, Log!RightLog(log, F)
  PROVE  \E circuit : CircuitsOf(q, log, circuit)
<1> DEFINE N == Len(log)
           T == {n \in 0 .. N : ~\E circuit : \A m \in 1 .. n : CircuitRight(q, log, circuit, m)}
<1>1. N \in Nat /\ DOMAIN log = 1 .. N
  OBVIOUS
<1>2. T = {}
  <2>1. SUFFICES ASSUME T # {} PROVE FALSE
    OBVIOUS
  <2>2. T \in SUBSET Nat
    BY <1>1
  <2>3. PICK n \in T : \A m \in T : n <= m
    <3> HIDE DEF T
    <3>1. QED
      BY <2>1, <2>2, LeastMember
  <2>4. n \in 0 .. N /\ ~\E circuit : \A m \in 1 .. n : CircuitRight(q, log, circuit, m)
    BY <2>3
  <2>5. n # 0
    <3>1. \A m \in 1 .. 0 : FALSE
      OBVIOUS
    <3>2. QED
      BY <2>4, <3>1
  <2>6. n \in 1 .. N /\ n - 1 \in 0 .. N /\ ~(n <= n - 1) /\ \A m \in 1 .. n : m = n \/ m \in 1 .. n - 1
    BY <1>1, <2>4, <2>5
  <2>7. PICK old : \A m \in 1 .. n - 1 : CircuitRight(q, log, old, m)
    BY <2>3, <2>6
  <2> HIDE DEF T, N
  \* An entry needs the circuits of earlier ones only.
  <2>8. ASSUME NEW m \in 1 .. n, log[m].kind # "root"
        PROVE  /\ log[m].start \in 1 .. m - 1
               /\ Len(log[m].steps) \in Nat
               /\ \A i \in 1 .. Len(log[m].steps) : log[m].steps[i].id \in 1 .. m - 1
    <3> DEFINE before == SubSeq(log, 1, m - 1)
    <3>1. m \in DOMAIN log
      BY <1>1, <2>6
    <3>2. Log!LastId(before) = m - 1
      BY <3>1, BeforeEntry
    <3>3. Log!RightEntry(log, F, m)
      BY <3>1 DEF Log!RightLog
    <3>4. /\ log[m].start \in 1 .. Log!LastId(before)
          /\ Log!Resolves(before, Log!ClauseOf(before, log[m].start), log[m].steps, log[m].clause)
      BY <2>8, <3>3 DEF Log!RightEntry
    <3> HIDE DEF before
    <3>5. log[m].steps \in Seq([id : Nat, pivot : Nat])
      BY <3>4 DEF Log!Resolves
    <3>6. \A i \in 1 .. Len(log[m].steps) : log[m].steps[i].id \in 1 .. Log!LastId(before)
      BY <3>4 DEF Log!Resolves
    <3>7. Len(log[m].steps) \in Nat
      BY <3>5
    <3>8. QED
      BY <3>2, <3>4, <3>6, <3>7
  <2>9. PICK c : /\ log[n].kind = "root" => c = Root(q, log[n].clause).circuit
                 /\ log[n].kind # "root" =>
                      \E k : Follows(q, old, log[n], k) /\ c = k[Len(log[n].steps)]
    <3>1. CASE log[n].kind = "root"
      BY <3>1
    <3>2. CASE log[n].kind # "root"
      <4>1. Len(log[n].steps) \in Nat
        BY <2>6, <2>8, <3>2
      <4>2. \E k : Follows(q, old, log[n], k)
        BY <4>1, Followed
      <4>3. QED
        BY <3>2, <4>2
    <3>3. QED
      BY <3>1, <3>2
  <2> DEFINE new == [m \in 1 .. n |-> IF m = n THEN c ELSE old[m]]
  <2>10. new[n] = c /\ \A m \in 1 .. n - 1 : new[m] = old[m]
    <3>1. \A m \in 1 .. n - 1 : m \in 1 .. n /\ m # n
      BY <2>6
    <3>2. n \in 1 .. n
      BY <2>6
    <3>3. QED
      BY <3>1, <3>2
  <2> HIDE DEF new
  <2>11. ASSUME NEW m \in 1 .. n, log[m].kind # "root", NEW k, Follows(q, old, log[m], k)
         PROVE  Follows(q, new, log[m], k)
    <3>1. \A id \in 1 .. m - 1 : new[id] = old[id]
      BY <2>6, <2>10
    <3>2. /\ new[log[m].start] = old[log[m].start]
          /\ \A i \in 1 .. Len(log[m].steps) : new[log[m].steps[i].id] = old[log[m].steps[i].id]
      BY <2>8, <2>11, <3>1
    <3>3. QED
      BY <2>11, <3>2 DEF Follows
  <2>12. ASSUME NEW m \in 1 .. n PROVE CircuitRight(q, log, new, m)
    <3>1. CASE m = n
      <4>1. CASE log[n].kind = "root"
        BY <2>9, <2>10, <3>1, <4>1 DEF CircuitRight
      <4>2. CASE log[n].kind # "root"
        BY <2>9, <2>10, <2>11, <3>1, <4>2 DEF CircuitRight
      <4>3. QED
        BY <4>1, <4>2
    <3>2. CASE m \in 1 .. n - 1
      <4>1. CircuitRight(q, log, old, m) /\ new[m] = old[m]
        BY <2>7, <2>10, <3>2
      <4>2. QED
        BY <2>11, <4>1 DEF CircuitRight
    <3>3. QED
      BY <2>6, <3>1, <3>2
  <2>13. QED
    BY <2>4, <2>12
<1>3. N \in 0 .. N
  BY <1>1
<1>4. \E circuit : \A m \in 1 .. N : CircuitRight(q, log, circuit, m)
  BY <1>2, <1>3
<1>5. QED
  BY <1>1, <1>4 DEF CircuitsOf

\* The rules do not look at the clauses that chains derive.
LEMMA SameCircuits ==
  ASSUME NEW q, NEW entries, NEW log, Log!SameEntries(entries, log), NEW circuit
  PROVE  CircuitsOf(q, entries, circuit) <=> CircuitsOf(q, log, circuit)
<1>1. DOMAIN entries = DOMAIN log
  BY DEF Log!SameEntries, Log!IsSeq
<1>2. ASSUME NEW n \in DOMAIN log
      PROVE  CircuitRight(q, entries, circuit, n) <=> CircuitRight(q, log, circuit, n)
  <2>1. /\ entries[n].kind = log[n].kind
        /\ IF log[n].kind = "root" THEN entries[n].clause = log[n].clause
           ELSE entries[n].start = log[n].start /\ entries[n].steps = log[n].steps
    BY DEF Log!SameEntries
  <2>2. QED
    BY <2>1 DEF CircuitRight, Follows
<1>3. QED
  BY <1>1, <1>2 DEF CircuitsOf

(***************************************************************************)
(* Whatever refutation of the two copies the solver leaves in its log, the *)
(* rules of characterization_interp_AB give every entry a circuit, and     *)
(* that of the last one is an interpolant.  That the entries are such a    *)
(* refutation is what SpecKeptRefutes of SolverAnswers_proofs says of      *)
(* those that checkProof keeps.                                            *)
(***************************************************************************)
THEOREM LogInterpolates ==
  ASSUME NEW q \in Query, NEW entries, Log!Refutes(entries, ClausesA(q) \cup ClausesB(q))
  PROVE  /\ \E circuit : CircuitsOf(q, entries, circuit)
         /\ \A circuit : CircuitsOf(q, entries, circuit) => Between(q, circuit[Len(entries)])
<1> DEFINE F == ClausesA(q) \cup ClausesB(q)
<1>1. PICK log : /\ Log!SameEntries(entries, log)
                 /\ Log!RightLog(log, F) /\ Log!EndsEmpty(log)
  BY DEF Log!Refutes
<1> DEFINE S == {log[n] : n \in DOMAIN log}
           N == Len(entries)
<1>2. log \in Seq(S) /\ Len(log) = N
  BY <1>1 DEF Log!SameEntries, Log!IsSeq
<1> HIDE DEF S
<1>3. \E circuit : CircuitsOf(q, entries, circuit)
  <2> HIDE DEF F
  <2>1. \E circuit : CircuitsOf(q, log, circuit)
    BY <1>1, <1>2, CircuitsExist
  <2>2. QED
    BY <1>1, <2>1, SameCircuits
<1>4. ASSUME NEW circuit, CircuitsOf(q, entries, circuit)
      PROVE  Between(q, circuit[N])
  <2>1. CircuitsOf(q, log, circuit)
    BY <1>1, <1>4, SameCircuits
  <2>2. N \in DOMAIN log /\ log[N].clause = {}
    BY <1>1, <1>2 DEF Log!EndsEmpty, Log!LastId, Log!ClauseOf
  <2> HIDE DEF N
  <2>3. Good(q, log[N].clause, circuit[N])
    BY <1>1, <1>2, <2>1, <2>2, EntriesGood
  <2> DEFINE e == [clause |-> log[N].clause, circuit |-> circuit[N]]
  <2>4. Sound(q, e) /\ e.clause = {} /\ e.circuit = circuit[N]
    BY <2>2, <2>3 DEF Good
  <2> HIDE DEF e
  <2>5. QED
    BY <2>4, SoundIsBetween
<1>5. QED
  BY <1>3, <1>4
=============================================================================
