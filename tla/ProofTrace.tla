----------------------------- MODULE ProofTrace -----------------------------
(***************************************************************************)
(* The way of a refutation from the solver to the interpolation: the       *)
(* numbers that Proof.C writes to its file, their read-back (traverse),    *)
(* the selection of the entries that the last one rests on (checkProof),   *)
(* the array of integers that is handed to OCaml, and the entries that     *)
(* read_proof_classfyAB of vp/share/interp.ml finds in it.                 *)
(*                                                                         *)
(* A number is kept as an integer: the bytes of putUInt are left out.      *)
(***************************************************************************)
EXTENDS ResolutionLog, FiniteSetsExt, SequencesExt

\* index(Lit): the sign in the lowest bit.
Index(x) == 2 * Var(x) + (IF x < 0 THEN 1 ELSE 0)

\* toLit
ToLit(i) == IF i % 2 = 0 THEN i \div 2 ELSE -(i \div 2)

\* sortUnique: the indices of the literals of a clause.
Indices(c) == SetToSortSeq({Index(x) : x \in c}, <)

-----------------------------------------------------------------------------
\* addRoot: the first index, then the distances.
RootNumbers(c) ==
  LET i == Indices(c)
  IN  <<2 * i[1]>> \o [n \in 1 .. Len(i) - 1 |-> i[n + 1] - i[n]] \o <<0>>

\* endChain: each clause as a distance from the id of the new one.
ChainNumbers(id, r) ==
  <<2 * (id - r.start) + 1>>
    \o FlattenSeq([n \in DOMAIN r.steps |-> <<r.steps[n].pivot + 1, id - r.steps[n].id>>])
    \o <<0>>

\* deleted
DeletionNumbers(r) == <<2 * (r.after + 1 - r.gone) + 1, 0>>

\* The numbers of the clause with this id.
Numbers(log, id) ==
  IF log[id].kind = "root" THEN RootNumbers(log[id].clause) ELSE ChainNumbers(id, log[id])

\* What was thrown away before the next clause was written.
DeletedAfter(deletions, id) ==
  FoldSet(LAMBDA r, numbers : numbers \o DeletionNumbers(r), <<>>,
          {r \in deletions : r.after = id})

File(log, deletions) ==
  FoldLeft(LAMBDA file, id : file \o Numbers(log, id) \o DeletedAfter(deletions, id),
           <<>>, [id \in DOMAIN log |-> id])

-----------------------------------------------------------------------------
\* The numbers between the zeros.
Sections(numbers) ==
  LET Cut(r, x) ==
        IF x = 0 THEN [done |-> Append(r.done, r.open), open |-> <<>>]
        ELSE [r EXCEPT !.open = Append(@, x)]
  IN  FoldLeft(Cut, [done |-> <<>>, open |-> <<>>], numbers).done

\* traverse, a root: what is read is a literal more than the one before.
ReadRoot(s) ==
  LET index[n \in DOMAIN s] == IF n = 1 THEN s[1] \div 2 ELSE index[n - 1] + s[n]
  IN  [kind |-> "root", clause |-> {ToLit(index[n]) : n \in DOMAIN s}]

ReadChain(s, id) ==
  [kind |-> "chain", start |-> id - s[1] \div 2,
   steps |-> [n \in 1 .. Len(s) \div 2 |-> [pivot |-> s[2 * n] - 1, id |-> id - s[2 * n + 1]]]]

\* traverse: a deletion brings no new clause, the loop stops after the last id.
Traverse(numbers, last) ==
  LET Read(entries, s) ==
        LET id == Len(entries) + 1
        IN  IF id > last \/ (s[1] % 2 = 1 /\ Len(s) = 1) THEN entries
            ELSE Append(entries, IF s[1] % 2 = 0 THEN ReadRoot(s) ELSE ReadChain(s, id))
  IN  FoldLeft(Read, <<>>, Sections(numbers))

-----------------------------------------------------------------------------
\* The entries that one entry cites.
Cited(e) == IF e.kind = "root" THEN {} ELSE {e.start} \cup {e.steps[n].id : n \in DOMAIN e.steps}

\* Mutant: only what the last entry cites itself.
VisitedDirectly(entries) == {Len(entries)} \cup Cited(Last(entries))

(***************************************************************************)
(* checkProof, visited: the entries that the last one rests on, found with *)
(* a work list, frontie, of which the first entry is taken each time.  At  *)
(* most as many as there are entries are taken, which the bound stands for *)
(* (VisitedClosed of SolverAnswers_proofs).                                *)
(***************************************************************************)
Visited(entries) ==
  LET loop[n \in 0 .. Len(entries)] ==
        IF n = 0 THEN [visited |-> {}, frontie |-> {Len(entries)}]
        ELSE LET r       == loop[n - 1]
                 pos     == Min(r.frontie)
                 visited == r.visited \cup {pos}
             IN  IF r.frontie = {} THEN r
                 ELSE [visited |-> visited,
                       frontie |-> (r.frontie \ {pos}) \cup (Cited(entries[pos]) \ visited)]
  IN  loop[Len(entries)].visited

\* newpos: the place of an entry among those kept, and the entry at a place.
Rank(visited, a) == Cardinality({b \in visited : b <= a})

Ranked(visited, n) == CHOOSE a \in visited : Rank(visited, a) = n

(***************************************************************************)
(* idx1toidx2 when the entry at pos is written: the new place of a cited   *)
(* one, or 0 if it has none yet (assert newante > 0).                      *)
(***************************************************************************)
NewPlace(visited, pos, a) == IF a \in visited /\ a < pos THEN Rank(visited, a) ELSE 0

\* checkProof, the loop over visited: the entries kept, by their new places.
Renumbered(entries) ==
  LET visited == Visited(entries)
      New(pos, e) ==
        IF e.kind = "root" THEN e
        ELSE [kind |-> "chain", start |-> NewPlace(visited, pos, e.start),
              steps |-> [n \in DOMAIN e.steps |->
                           [pivot |-> e.steps[n].pivot,
                            id |-> NewPlace(visited, pos, e.steps[n].id)]]]
  IN  [n \in 1 .. Cardinality(visited) |->
         New(Ranked(visited, n), entries[Ranked(visited, n)])]

\* esc_int: never 0, which ends an entry.
Esc(x) == 2 * x + 1

\* The numbers of an entry in ssylog: 1 for a root, 2 for a chain.
Escaped(e) ==
  LET ints == IF e.kind = "root"
              THEN <<1>> \o [n \in DOMAIN Indices(e.clause) |-> ToLit(Indices(e.clause)[n])]
              ELSE <<2, e.start>>
                     \o FlattenSeq([n \in DOMAIN e.steps |-> <<e.steps[n].pivot, e.steps[n].id>>])
  IN  [n \in DOMAIN ints |-> Esc(ints[n])] \o <<0>>

\* save_proof: the null clause takes place 0.
Saved(entries) ==
  FoldLeft(LAMBDA array, e : array \o Escaped(e), <<Esc(1), 0>>, Renumbered(entries))

-----------------------------------------------------------------------------
\* asr 1, on both sides of zero.
Unescaped(s) == [n \in DOMAIN s |-> s[n] \div 2]

\* buildChain and build_var_cls_idx_lst, or the clause of a root.
ReadEntry(s) ==
  IF s[1] = 1 THEN [kind |-> "root", clause |-> ToSet(Tail(s))]
  ELSE [kind |-> "chain", start |-> s[2],
        steps |-> [n \in 1 .. Len(s) \div 2 - 1 |-> [pivot |-> s[2 * n + 1], id |-> s[2 * n + 2]]]]

\* read_proof_classfyAB: the entries from place 0, here at 1, on.
ReadProof(array) ==
  LET sections == Sections(array)
  IN  [n \in DOMAIN sections |-> ReadEntry(Unescaped(sections[n]))]

-----------------------------------------------------------------------------
(***************************************************************************)
(* The entries read back, without the null clause, as a log of clauses.    *)
(***************************************************************************)
Rederived(entries) ==
  FoldLeft(LAMBDA log, e : IF e.kind = "root" THEN addRoot(log, e.clause)
                           ELSE endChain(log, e.start, e.steps),
           <<>>, entries)
=============================================================================
