------------------------------- MODULE Clauses -------------------------------
(***************************************************************************)
(* Clauses as the programs hand them to the solver: a literal is a         *)
(* non-zero integer, the negation of the variable if negative, and a       *)
(* clause a set of literals (a list of integers in the code).  A           *)
(* valuation v gives every variable a Boolean.                             *)
(***************************************************************************)
EXTENDS Integers

Var(x) == IF x > 0 THEN x ELSE -x

\* A clause about the variables 1..n (get_largest_varindex_inclslst).
IsClause(c, n) == \A x \in c : x \in Int /\ x # 0 /\ -n <= x /\ x <= n

True(v, x) == IF x > 0 THEN v[x] ELSE ~v[-x]

Satisfies(v, c) == \E x \in c : True(v, x)

SatisfiesAll(v, C) == \A c \in C : Satisfies(v, c)
=============================================================================
