----------------------------- MODULE SatSession -----------------------------
(***************************************************************************)
(* What the programs take the solver behind MiniSAT.ml to be: clauses are  *)
(* added, then each query is answered, by a model of all the clauses and   *)
(* of the assumptions, or by UNSAT if there is none.                       *)
(***************************************************************************)
EXTENDS Clauses, Sequences

CONSTANT Session

VARIABLES session, given, answers

vars == <<session, given, answers>>

Init ==
  /\ session \in Session
  /\ given = 0
  /\ answers = <<>>

AddClause ==
  /\ given < Len(session.clauses)
  /\ given' = given + 1
  /\ UNCHANGED <<session, answers>>

Formula == {session.clauses[n] : n \in 1 .. given}

\* The models, as what value_of says of each variable.
Models(query) ==
  {v \in [1 .. session.vars -> BOOLEAN] :
     SatisfiesAll(v, Formula \cup {{query[n]} : n \in DOMAIN query})}

TrueLiterals(v) == {IF v[x] THEN x ELSE -x : x \in DOMAIN v}

Solve ==
  LET models == Models(session.queries[Len(answers) + 1])
  IN  /\ given = Len(session.clauses)
      /\ Len(answers) < Len(session.queries)
      /\ IF models = {}
         THEN answers' = Append(answers, [result |-> "UNSAT", model |-> {}])
         ELSE \E v \in models :
                answers' = Append(answers, [result |-> "SAT", model |-> TrueLiterals(v)])
      /\ UNCHANGED <<session, given>>

Next == AddClause \/ Solve

Spec == Init /\ [][Next]_vars /\ WF_vars(Next)
=============================================================================
