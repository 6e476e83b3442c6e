------------------------------ MODULE MCSolver ------------------------------
(***************************************************************************)
(* Solver on small formulas: those it is asked to refute with the log on,  *)
(* and those that are queried under assumptions.                           *)
(***************************************************************************)
EXTENDS Solver, ProofTrace, Circuits

NoCap(q) == 0

\* The formulas of MCCraigInterp, and how interp.ml turns a proof into a circuit.
Craig == INSTANCE MCCraigInterp WITH
  Query <- {}, MaxChains <- NoCap, query <- session, chain <- {}

Logged(n, clauses) == [vars |-> n, clauses |-> clauses, queries |-> <<<<>>>>, logged |-> TRUE]
Plain(n, clauses, queries) == [vars |-> n, clauses |-> clauses, queries |-> queries, logged |-> FALSE]


\* The clauses of these that are in C, in their order.
Chosen(clauses, C) == SelectSeq(clauses, LAMBDA c : c \in C)
Parts(clauses, least) ==
  {Chosen(clauses, C) : C \in {D \in SUBSET ToSet(clauses) : Cardinality(D) >= least}}

\* All the clauses over these two variables, or three.
Square(a, b) == <<{a, b}, {a, -b}, {-a, b}, {-a, -b}>>
Cube(a, b, c) ==
  [n \in 1 .. 4 |-> Square(a, b)[n] \cup {c}] \o [n \in 1 .. 4 |-> Square(a, b)[n] \cup {-c}]

\* Nearly every clause of three variables: the search learns most here.
Dense ==
  {Logged(3, SubSeq(Cube(1, 2, 3), 1, 7)),
   Logged(3, SubSeq(Cube(1, 2, 3), 1, 4) \o <<{1, 2, -3}, {-2, -3}, {-1, -3}>>)}

\* Implications, with a unit clause before and one after them.
Chains == {Logged(3, clauses) : clauses \in
  Parts(<<{2}, {1, 3}, {-1, 2, 3}, {-1, -2}, {1, -3}, {-2, -3}, {2, -3}, {3}>>, 5)}

\* Queries one after the other, as procDetermineUniqueInputs asks them.
Queries ==
  {Plain(4, clauses, <<q, r>>) :
     clauses \in Parts(<<{-1, 2}, {-2, 3, 4}, {-1, -3, 4}, {2, -4}, {-2, -4}, {1, 3}>>, 3),
     q \in {<<>>, <<1>>, <<-4, 1>>}, r \in {<<-2, 1>>, <<3>>, <<-3, -4>>}}

\* What takes more than that: a reason to shorten the learnt clause, learnt
\* clauses of three literals to forget, facts learnt under an assumption.
Special ==
  {Logged(4, <<{1, 2}, {1, -2, 3, 4}, {1, -2, 3, -4}, {-1, 3}, {-3, 4}, {-3, -4}>>),
   Logged(4, <<{1, 2, 3, 4}, {1, 2, 3, -4}, {1, -2}, {-1, 4}, {-1, -4}>>),
   Plain(4, <<{1, 2, 3, 4}, {1, 2, 3, -4}, {1, -2, 3, 4}, {1, -2, 3, -4}>>, <<<<>>, <<1>>>>),
   Plain(4, <<{1, 2}, {-2, 3, 4}, {-2, 3, -4}>>, <<<<>>>>),
   Plain(5, <<{1, 2, 3, 4}, {1, 2, 3, -4}, {1, 4, 5}, {1, -4, 5}>>, <<<<-1>>>>),
   Plain(4, <<{2, 3}, {2, -3}, {-2, 3, 4}>>, <<<<1>>, <<-2>>, <<-3, 1>>, <<2>>>>),
   Logged(2, <<{1}, {-1}, {2}>>),
   Logged(3, <<{-1, 2}, {-2, 3}, {-3, -1, -2}, {1}>>),
   Logged(4, <<{1, 2, 3}, {1}, {-1, 4, 2}>> \o Square(2, 3))}

\* The clauses of a set, one after the other.
Listed(C) == FoldSet(LAMBDA c, s : Append(s, c), <<>>, C)

\* What interp.ml asks to be refuted for these formulas.
Refutation(q) == Logged(2 * q.max, Listed(Craig!ClausesA(q)) \o Listed(Craig!ClausesB(q)))
Interpolations == {Refutation(q) : q \in Craig!MCQuery}

MCSession == Interpolations \cup Dense \cup Chains \cup Queries \cup Special

\* The solver keeps its promise: the answers are right, and every query gets one.
Promise == Oracle!Spec

-----------------------------------------------------------------------------
\* interp.ml asked for a refutation and gets it, by save_proof.
Refuted == session.logged /\ Over /\ Last(answers).result = "UNSAT"

\* The refutation that OCaml reads.
Received == Tail(ReadProof(Saved(Traverse(File(proof, deletions), LastId(proof)))))

(***************************************************************************)
(* What is left of the log once checkProof threw the unused entries away   *)
(* and renumbered the others is a refutation of the clauses: it cites what *)
(* comes before, resolves right and ends with the empty clause.            *)
(***************************************************************************)
SavedRefutes ==
  Refuted =>
    LET entries == Received
        log     == Rederived(entries)
    IN  /\ \A n \in DOMAIN entries : Cited(entries[n]) \subseteq 1 .. n - 1
        /\ \A n \in DOMAIN log :
             IF log[n].kind = "root" THEN log[n].clause \in Formula
             ELSE RightChain(SubSeq(log, 1, n - 1), log[n].start, log[n].steps)
        /\ Last(log).clause = {}

\* What follows from these literals, one clause at a time.
RECURSIVE Consequences(_, _)
Consequences(C, L) ==
  LET new == {x \in UNION C : x \notin L /\ \E c \in C : x \in c /\ \A y \in c \ {x} : -y \in L}
  IN  IF new = {} THEN L ELSE Consequences(C, L \cup new)

LiteralsOf(v) == {x \in DOMAIN v : v[x]} \cup {-x : x \in {y \in DOMAIN v : ~v[y]}}

\* These clauses hold in no model with v, or in one that follows from v.
Excludes(C, v) ==
  \E L \in {Consequences(C, LiteralsOf(v))} : \E c \in C : \A x \in c : -x \in L
Allows(C, v) ==
  \E L \in {Consequences(C, LiteralsOf(v))} : (\A x \in L : -x \notin L) /\ \A c \in C : c \cap L # {}

\* allsat_interp_BDD_loop: the circuit is excluded from the next query.
Excluding(q, arr) == force_assertion_alone(invert_assertion(arr), 2 * q.max).clauses

(***************************************************************************)
(* The clauses that keep a circuit out of the next query rule out every    *)
(* valuation that makes the target true, and none that makes it false.     *)
(***************************************************************************)
ExcludesTarget(q, arr) ==
  \A C \in {Excluding(q, arr)} :
    /\ \A v \in Craig!Makes(q, q.target) : Excludes(C, v)
    /\ \A v \in Craig!Makes(q, -q.target) : Allows(C, v)

(***************************************************************************)
(* What the callers do with circuits: one is shifted to another frame, and *)
(* a list is joined and inverted.  Two circuits of which one is the        *)
(* inverse of the other cover all the valuations and share none, and one   *)
(* that is inverted twice is what it was.                                  *)
(***************************************************************************)
Moved(v, n) == [x \in {y + n : y \in DOMAIN v} |-> v[x - n]]

JoinsRight(all, arr, variables) ==
  \A yes \in {simplify_withBDD(all, arr, variables)} :
  \A no \in {simplify_withBDD(all, invert_assertion(yes), variables)} :
    /\ bddfinal(all, or_assertion(<<no, yes, no>>)) = all
    /\ bddfinal(all, and_assertion(<<yes, no>>)) = {}
    /\ bddfinal(all, invert_assertion(or_assertion(<<no, no>>))) = bddfinal(all, arr)
    /\ bddfinal({Moved(v, 5) : v \in all}, shiftAssertion(yes, 5))
         = {Moved(v, 5) : v \in bddfinal(all, arr)}

(***************************************************************************)
(* From the solver to the next query: whatever the solver decided, learnt  *)
(* and forgot, and whatever order the BDD package keeps its variables in,  *)
(* the circuit read from the proof, as it is and simplified, excludes what *)
(* it is to exclude and keeps what it is to keep.                          *)
(***************************************************************************)
SavedInterpolates ==
  \A q \in Craig!MCQuery : (Refuted /\ session = Refutation(q)) =>
    \A arr \in {characterization_interp_AB(Received, q.max, q.shared)} :
      /\ ExcludesTarget(q, arr)
      /\ \A variables \in SetToSeqs(q.shared) :
           LET all == Craig!SharedValuations(q)
           IN  /\ ExcludesTarget(q, simplify_withBDD(all, arr, variables))
               /\ JoinsRight(all, arr, variables)
=============================================================================
