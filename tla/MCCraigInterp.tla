---------------------------- MODULE MCCraigInterp ----------------------------
(***************************************************************************)
(* CraigInterp on the clauses of small gates: the target is variable 3,    *)
(* the others are its inputs, shared or fixed by an assumption.            *)
(***************************************************************************)
EXTENDS CraigInterp

And  == {{-3, 1}, {-3, 2}, {3, -1, -2}}
Or   == {{3, -1}, {3, -2}, {-3, 1, 2}}
Xor  == {{-3, 1, 2}, {-3, -1, -2}, {3, -1, 2}, {3, 1, -2}}

Call(clauses, shared) == [clauses |-> clauses, target |-> 3, shared |-> shared, max |-> 3]

\* Its copies contradict each other, but not in one chain.
BothOfXor == Call(Xor, {1, 2})

MCMaxChains(q) == IF q = BothOfXor THEN 2 ELSE 1

MCQuery ==
  {\* one input fixed, the other shared
   Call(And \cup {{2}}, {1}), Call(And \cup {{1}}, {2}), Call(Or \cup {{-1}}, {2}),
   Call(Xor \cup {{1}}, {2}),
   \* both shared
   Call(And, {1, 2}), BothOfXor,
   \* a clause of shared variables only, in both copies
   Call(Or \cup {{1, -2}}, {1, 2}), Call(And \cup {{-1}, {2}}, {1}),
   \* the copies contradict themselves, one or both
   Call(Or \cup {{1}}, {2}), Call(And \cup {{-2}}, {1}), Call(And \cup {{2}, {-2}}, {1})}
=============================================================================
