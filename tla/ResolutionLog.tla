---------------------------- MODULE ResolutionLog ----------------------------
(***************************************************************************)
(* The log of Proof.C: the clauses the solver was given (roots) and those  *)
(* it derived by a chain of resolutions, in the order in which they were   *)
(* written.  A clause is named by its position (ClauseId, from 1; 0 is     *)
(* ClauseId_NULL).                                                         *)
(*                                                                         *)
(* The code writes the chains only.  The clause that a chain derives is    *)
(* kept here as well, as the checker of Proof.C would recompute it.  The   *)
(* records of the clauses thrown away, which come in between and name no   *)
(* clause, are kept apart, with the number of clauses before them.         *)
(***************************************************************************)
EXTENDS Clauses, Sequences

ClauseOf(log, id) == log[id].clause

\* id_counter, and last()
LastId(log) == Len(log)

\* resolve: both clauses without the variable x.
Resolvent(c, d, x) == (c \cup d) \ {x, -x}

\* The clauses met on the way along a chain, the first one before any step.
Along(log, start, steps) ==
  LET along[n \in 0 .. Len(steps)] ==
        IF n = 0 THEN ClauseOf(log, start)
        ELSE Resolvent(along[n - 1], ClauseOf(log, steps[n].id), steps[n].pivot)
  IN  along

ChainClause(log, start, steps) == Along(log, start, steps)[Len(steps)]

addRoot(log, c) == Append(log, [kind |-> "root", clause |-> c])

deleted(log, id) == [after |-> LastId(log), gone |-> id]

\* A chain without a step is the clause it starts from: nothing is written.
endChain(log, start, steps) ==
  IF steps = <<>> THEN log
  ELSE Append(log, [kind |-> "chain", start |-> start, steps |-> steps,
                    clause |-> ChainClause(log, start, steps)])

\* The id that endChain returns.
ChainId(log, start, steps) ==
  IF steps = <<>> THEN start ELSE LastId(log) + 1

-----------------------------------------------------------------------------
\* What the messages "PROOF ERROR" of resolve are about.
IsPivot(c, d, x) == \/ x \in c /\ -x \in d
                    \/ -x \in c /\ x \in d

IsTautology(c) == \E x \in c : -x \in c

(***************************************************************************)
(* A chain that may follow these entries: it cites earlier clauses only,   *)
(* each step removes one variable that the two clauses disagree on, and no *)
(* clause on the way holds a literal and its negation.                     *)
(***************************************************************************)
RightChain(log, start, steps) ==
  LET along == Along(log, start, steps)
  IN  /\ start \in 1 .. LastId(log)
      /\ \A n \in 1 .. Len(steps) :
           /\ steps[n].id \in 1 .. LastId(log)
           /\ IsPivot(along[n - 1], ClauseOf(log, steps[n].id), steps[n].pivot)
           /\ ~IsTautology(along[n])

(***************************************************************************)
(* The same said with the clauses w met on the way: from c the steps lead  *)
(* to d.                                                                   *)
(***************************************************************************)
Resolves(log, c, steps, d) ==
  /\ steps \in Seq([id : Nat, pivot : Nat])
  /\ \E w :
       /\ w[0] = c /\ w[Len(steps)] = d
       /\ \A n \in 1 .. Len(steps) :
            /\ steps[n].id \in 1 .. LastId(log)
            /\ w[n] = Resolvent(w[n - 1], ClauseOf(log, steps[n].id), steps[n].pivot)
            /\ IsPivot(w[n - 1], ClauseOf(log, steps[n].id), steps[n].pivot)
            /\ ~IsTautology(w[n])

(***************************************************************************)
(* A derivation from the clauses of F: an entry is one of them, or what    *)
(* its chain leads to from the entries before it.                          *)
(***************************************************************************)
RightEntry(log, F, n) ==
  LET e      == log[n]
      before == SubSeq(log, 1, n - 1)
  IN  IF e.kind = "root" THEN e.clause \in F /\ ~IsTautology(e.clause)
      ELSE /\ e.kind = "chain" /\ e.start \in 1 .. LastId(before)
           /\ Resolves(before, ClauseOf(before, e.start), e.steps, e.clause)

RightLog(log, F) == \A n \in DOMAIN log : RightEntry(log, F, n)

\* The last clause of the log is the empty one: the log is a refutation.
EndsEmpty(log) == LastId(log) # 0 /\ ClauseOf(log, LastId(log)) = {}

(***************************************************************************)
(* The chains are kept without the clauses they derive.  Entries refute F  *)
(* if these can be filled in so that the last one is the empty clause.     *)
(***************************************************************************)
IsSeq(s) == s \in Seq({s[n] : n \in DOMAIN s})

SameEntries(entries, log) ==
  /\ IsSeq(entries) /\ IsSeq(log) /\ Len(entries) = Len(log)
  /\ \A n \in DOMAIN log :
       /\ entries[n].kind = log[n].kind
       /\ IF log[n].kind = "root" THEN entries[n].clause = log[n].clause
          ELSE entries[n].start = log[n].start /\ entries[n].steps = log[n].steps

Refutes(entries, F) ==
  \E log : SameEntries(entries, log) /\ RightLog(log, F) /\ EndsEmpty(log)
=============================================================================
