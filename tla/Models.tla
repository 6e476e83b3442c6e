------------------------------- MODULE Models -------------------------------
(***************************************************************************)
(* What the solver answers about a list of clauses, for model checking:    *)
(* the valuations of 1..n that satisfy all of C.  The variables of vars    *)
(* and those that C mentions are free, the others are left FALSE.  A       *)
(* clause is looked at once its largest variable has a value.              *)
(***************************************************************************)
EXTENDS Clauses, Sequences

Closing(C, i) == {c \in C : (i \in c \/ -i \in c) /\ \A x \in c : Var(x) <= i}

ModelsOf(C, vars, n) ==
  LET free == vars \cup {Var(x) : x \in UNION C}
      values == [i \in 1 .. n |-> IF i \in free THEN BOOLEAN ELSE {FALSE}]
      closing == [i \in 1 .. n |-> Closing(C, i)]
      models[i \in 0 .. n] ==
        IF i = 0 THEN {v \in {<<>>} : {} \notin C}
        ELSE {v \in {Append(u, b) : u \in models[i - 1], b \in values[i]} :
                SatisfiesAll(v, closing[i])}
  IN models[n]
=============================================================================
