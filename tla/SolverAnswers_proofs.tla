------------------------ MODULE SolverAnswers_proofs ------------------------
(***************************************************************************)
(* What the solver answers, asserts and logs, for all clauses, queries and *)
(* choices: propagation misses nothing, the answers are right, the         *)
(* assertions hold, the state has the types it should.                     *)
(***************************************************************************)
EXTENDS Solver_proofs, ProofTrace

(***************************************************************************)
(* The literals that are true for good since the last simplifyDB: nothing  *)
(* takes them back, and no clause watches their variables any more.        *)
(***************************************************************************)
Settled == {trail[n] : n \in 1 .. simpDB_assigns}

Bottom ==
  /\ simpDB_assigns \in 0 .. qhead
  /\ \A k \in DOMAIN trail_lim : simpDB_assigns <= trail_lim[k]
  /\ ~ok /\ pc \notin {"idle", "assert"} => confl # 0 /\ decisionLevel = 0

(***************************************************************************)
(* A clause watches two literals of its own.  It is in their lists, but    *)
(* for lists that are cleared for good; a clause that is true for good     *)
(* is so by its first literal.                                             *)
(***************************************************************************)
Lists ==
  /\ \A a \in DOMAIN db : db[a].first # db[a].second
  /\ \A x \in Literal : x \in Settled \/ -x \in Settled => watches[x] = {}
  /\ \A a \in DOMAIN db : \A w \in {db[a].first, db[a].second} :
       w \in Settled \/ -w \in Settled \/ a \in watches[-w]
  /\ \A a \in DOMAIN db : (\E x \in db[a].lits : x \in Settled) => db[a].first \in Settled

\* The clause at a was visited for the m-th literal of the trail, or need not be.
Done(a, m) ==
  IF confl # 0 THEN \E k \in DOMAIN trail_lim : m <= trail_lim[k]
  ELSE m < qhead \/ (m = qhead /\ a \notin todo)

(***************************************************************************)
(* The m-th literal of the trail is taken back if the n-th is, wherever    *)
(* the solver may go back to: the top level, or the assumptions and above. *)
(***************************************************************************)
Outlives(n, m) ==
  \A k \in DOMAIN trail_lim :
    (k = 1 \/ k > root_level) /\ trail_lim[k] < n => trail_lim[k] < m

\* Where a watched literal is false, the other is true, and for as long.
Guarded ==
  ok => \A a \in DOMAIN db : \A w, u \in Literal : \A m \in DOMAIN trail :
    {w, u} = {db[a].first, db[a].second} /\ trail[m] = -w /\ Done(a, m) =>
      \E n \in DOMAIN trail : trail[n] = u /\ Outlives(n, m)

WInv == Bottom /\ Lists /\ Guarded

-----------------------------------------------------------------------------
\* What the steps below start from.
LEMMA StateFacts ==
  ASSUME IInv
  PROVE  /\ session \in Session /\ Assigned
         /\ Len(trail) \in Nat /\ DOMAIN trail = 1 .. Len(trail)
         /\ \A n \in DOMAIN trail : trail[n] \in Literal /\ Var(trail[n]) \in Variable
         /\ \A m, n \in DOMAIN trail : Var(trail[m]) = Var(trail[n]) => m = n
         /\ trail_lim \in Seq(Nat)
         /\ decisionLevel \in Nat /\ DOMAIN trail_lim = 1 .. decisionLevel
         /\ \A k \in DOMAIN trail_lim : trail_lim[k] \in Nat /\ trail_lim[k] <= Len(trail)
         /\ root_level \in Nat
         /\ qhead \in Nat /\ qhead <= Len(trail)
<1>1. session \in Session /\ Assigned
  BY DEF IInv, Calls
<1>2. qhead \in 0 .. Len(trail)
  BY DEF IInv, Queue
<1>3. QED
  BY <1>1, <1>2, TrailFacts DEF Divided

LEMMA ClauseFacts ==
  ASSUME IInv, NEW a \in DOMAIN db
  PROVE  /\ a \in Nat \ {0}
         /\ db[a].lits \subseteq Literal
         /\ db[a].first \in db[a].lits /\ db[a].second \in db[a].lits
         /\ db[a].first \in Literal /\ db[a].second \in Literal
  BY DEF IInv, Memory

\* A literal that is settled is on the trail, before any decision.
LEMMA SettledFacts ==
  ASSUME IInv, Bottom
  PROVE  /\ simpDB_assigns \in Nat /\ simpDB_assigns <= qhead
         /\ 1 .. simpDB_assigns \subseteq DOMAIN trail
         /\ Settled \subseteq Literal
         /\ \A n \in DOMAIN trail : trail[n] \in Settled \/ -trail[n] \in Settled => n <= simpDB_assigns
         /\ \A x \in Literal : x \in Settled => IsTrue(x)
         /\ \A x \in Literal : -x \in Settled => IsFalse(x)
<1>1. simpDB_assigns \in Nat /\ simpDB_assigns <= qhead
  BY StateFacts DEF Bottom
<1>2. 1 .. simpDB_assigns \subseteq DOMAIN trail
  BY <1>1, StateFacts
<1>3. Settled \subseteq Literal
  BY <1>2, StateFacts DEF Settled
<1>4. ASSUME NEW n \in DOMAIN trail, trail[n] \in Settled \/ -trail[n] \in Settled
      PROVE  n <= simpDB_assigns
  <2>1. PICK m \in 1 .. simpDB_assigns : trail[m] = trail[n] \/ trail[m] = -trail[n]
    BY <1>4 DEF Settled
  <2>2. trail[n] \in Literal /\ session \in Session /\ m \in DOMAIN trail
    BY <1>2, StateFacts
  <2>3. Var(trail[m]) = Var(trail[n])
    BY <2>1, <2>2, LiteralFacts
  <2>4. m = n
    BY <2>2, <2>3, StateFacts
  <2>5. QED
    BY <2>4
<1>5. \A x : x \in Settled => x \in ToSet(trail)
  BY <1>2 DEF Settled, ToSet
<1>6. QED
  BY <1>1, <1>2, <1>3, <1>4, <1>5 DEF IsTrue, IsFalse

\* The trail up to there is as it was.
LEMMA SettledNext ==
  ASSUME simpDB_assigns' = simpDB_assigns,
         \A n \in 1 .. simpDB_assigns : trail'[n] = trail[n]
  PROVE  Settled' = Settled
  BY DEF Settled

LEMMA KeepLists ==
  ASSUME Lists, Settled' = Settled, UNCHANGED <<session, db, watches>>
  PROVE  Lists'
<1>1. Literal' = Literal
  BY DEF Literal, Variable
<1>2. QED
  BY <1>1 DEF Lists

(***************************************************************************)
(* What is to be shown of a step: a watched literal that is false and done *)
(* with has a true one beside it, or was done with before, and what was    *)
(* true beside it stays so.                                                *)
(***************************************************************************)
Stays(n, m) ==
  Outlives(n, m) => n \in DOMAIN trail' /\ trail'[n] = trail[n] /\ Outlives(n, m)'

LEMMA GuardedNext ==
  ASSUME Guarded, session' = session, ok' => ok,
         ASSUME NEW a \in DOMAIN db', NEW w \in Literal, NEW u \in Literal, NEW m \in DOMAIN trail',
                {w, u} = {db'[a].first, db'[a].second}, trail'[m] = -w, Done(a, m)', ok'
         PROVE  \/ \E n \in DOMAIN trail' : trail'[n] = u /\ Outlives(n, m)'
                \/ /\ a \in DOMAIN db /\ {w, u} = {db[a].first, db[a].second}
                   /\ m \in DOMAIN trail /\ trail[m] = -w /\ Done(a, m)
                   /\ \A n \in DOMAIN trail : Stays(n, m)
  PROVE  Guarded'
<1>1. Literal' = Literal
  BY DEF Literal, Variable
<1>2. SUFFICES ASSUME ok', NEW a \in DOMAIN db', NEW w \in Literal, NEW u \in Literal,
                      NEW m \in DOMAIN trail',
                      {w, u} = {db'[a].first, db'[a].second}, trail'[m] = -w, Done(a, m)'
               PROVE  \E n \in DOMAIN trail' : trail'[n] = u /\ Outlives(n, m)'
  BY <1>1 DEF Guarded
<1>3. CASE \E n \in DOMAIN trail' : trail'[n] = u /\ Outlives(n, m)'
  BY <1>3
<1>4. CASE /\ a \in DOMAIN db /\ {w, u} = {db[a].first, db[a].second}
           /\ m \in DOMAIN trail /\ trail[m] = -w /\ Done(a, m)
           /\ \A n \in DOMAIN trail : Stays(n, m)
  <2>1. PICK n \in DOMAIN trail : trail[n] = u /\ Outlives(n, m)
    BY <1>2, <1>4 DEF Guarded
  <2>2. QED
    BY <1>4, <2>1 DEF Stays
<1>5. QED
  BY <1>2, <1>3, <1>4

-----------------------------------------------------------------------------
LEMMA InitWInv == Init => WInv
<1> SUFFICES ASSUME Init PROVE WInv
  OBVIOUS
<1> USE DEF Init
<1>1. Bottom
  BY DEF Bottom
<1>2. Settled = {}
  BY DEF Settled
<1>3. Lists
  BY <1>2 DEF Lists
<1>4. Guarded
  BY DEF Guarded
<1>5. QED
  BY <1>1, <1>3, <1>4 DEF WInv

\* Steps that propagation does not see.
LEMMA QuietWInv ==
  ASSUME IInv, WInv,
         UNCHANGED <<session, db, watches, trail, trail_lim, qhead, todo, simpDB_assigns>>,
         ok' => ok /\ confl' = confl,
         root_level' = root_level \/ decisionLevel = 0,
         ~ok' /\ pc' \notin {"idle", "assert"} => confl' # 0 /\ decisionLevel = 0
  PROVE  WInv'
<1>1. Bottom'
  BY DEF WInv, Bottom, decisionLevel
<1>2. Lists'
  BY SettledNext, KeepLists DEF WInv
<1>3. Guarded'
  <2>1. ASSUME NEW n \in DOMAIN trail, NEW m, Outlives(n, m)
        PROVE  Outlives(n, m)'
    BY <2>1, StateFacts DEF Outlives
  <2>2. \A n \in DOMAIN trail : \A m : Stays(n, m)
    BY <2>1 DEF Stays
  <2>3. ASSUME NEW a, NEW m, ok', Done(a, m)' PROVE Done(a, m)
    BY <2>3 DEF Done
  <2>4. Guarded /\ session' = session /\ (ok' => ok)
    BY DEF WInv
  <2>5. QED
    BY <2>2, <2>3, <2>4, GuardedNext
<1>4. QED
  BY <1>1, <1>2, <1>3 DEF WInv

LEMMA SolveWInv == IInv /\ WInv /\ Solve => WInv'
<1> SUFFICES ASSUME IInv, WInv, Solve PROVE WInv'
  OBVIOUS
<1>1. decisionLevel = 0
  BY DEF IInv, Calls, Solve
<1>2. QED
  BY <1>1, QuietWInv DEF Solve, memory, assignment, propagation, Answer

LEMMA SimplifyConflictWInv == IInv /\ WInv /\ SimplifyConflict => WInv'
<1> SUFFICES ASSUME IInv, WInv, SimplifyConflict PROVE WInv'
  OBVIOUS
<1>1. QED
  BY QuietWInv DEF SimplifyConflict, assignment, Answer

LEMMA StartSearchWInv == IInv /\ WInv /\ StartSearch => WInv'
<1> SUFFICES ASSUME IInv, WInv, StartSearch PROVE WInv'
  OBVIOUS
<1>1. ~ok => confl # 0
  BY DEF WInv, Bottom, StartSearch, At
<1>2. QED
  BY <1>1, QuietWInv DEF StartSearch, memory, assignment, propagation

LEMMA StutterWInv == IInv /\ WInv /\ UNCHANGED vars => WInv'
<1> SUFFICES ASSUME IInv, WInv, UNCHANGED vars PROVE WInv'
  OBVIOUS
<1>1. ~ok /\ pc \notin {"idle", "assert"} => confl # 0 /\ decisionLevel = 0
  BY DEF WInv, Bottom
<1>2. QED
  BY <1>1, QuietWInv DEF vars, memory, assignment, propagation

-----------------------------------------------------------------------------
\* A literal enters propagation: the clauses not to visit do not watch it.
LEMMA TakeNextWInv == IInv /\ WInv /\ TakeNext => WInv'
<1> SUFFICES ASSUME IInv, WInv, TakeNext PROVE WInv'
  OBVIOUS
<1> USE DEF TakeNext, memory
<1>0. Bottom /\ Lists /\ Guarded
  BY DEF WInv
<1>1. qhead \in Nat /\ qhead' = qhead + 1 /\ qhead + 1 \in DOMAIN trail /\ simpDB_assigns \in Nat
      /\ simpDB_assigns <= qhead
  BY <1>0, StateFacts, SettledFacts
<1>2. Bottom'
  BY <1>0, <1>1 DEF Bottom, decisionLevel
<1>3. Lists'
  BY <1>0, SettledNext, KeepLists
<1>4. confl = 0
  BY <1>1, StateFacts DEF IInv, Queue
<1>5. ASSUME NEW a \in DOMAIN db, NEW w \in Literal, NEW m \in DOMAIN trail,
             w \in {db[a].first, db[a].second}, trail[m] = -w, Done(a, m)'
      PROVE  Done(a, m)
  <2>1. m \in Nat /\ (m < qhead + 1 \/ (m = qhead + 1 /\ a \notin watches[trail[qhead + 1]]))
    BY <1>1, <1>4, <1>5, StateFacts DEF Done
  <2>2. ASSUME m = qhead + 1, a \notin watches[trail[qhead + 1]] PROVE FALSE
    <3>1. trail[m] = -w /\ -trail[m] = w /\ trail[m] \in Literal
      BY <1>5, StateFacts, LiteralFacts
    <3>2. w \in Settled \/ -w \in Settled
      BY <1>0, <1>5, <2>2, <3>1 DEF Lists
    <3>3. m <= simpDB_assigns
      BY <1>0, <3>1, <3>2, SettledFacts
    <3>4. QED
      BY <1>1, <2>2, <3>3
  <2>3. m <= qhead
    BY <1>1, <2>1, <2>2
  <2>4. QED
    BY <1>1, <1>4, <2>1, <2>3 DEF Done
<1>6. \A n \in DOMAIN trail : \A m : Stays(n, m)
  BY DEF Stays, Outlives
<1>7. Guarded'
  BY <1>0, <1>5, <1>6, GuardedNext
<1>8. QED
  BY <1>2, <1>3, <1>7 DEF WInv

\* The clause visited, with its false watch in second place.
LEMMA TurnedFacts ==
  ASSUME IInv, WInv, NEW a \in todo, NEW f, NEW s, f = Turned(a).first, s = Turned(a).second
  PROVE  /\ a \in DOMAIN db /\ f \in db[a].lits /\ s \in db[a].lits
         /\ f \in Literal /\ s \in Literal /\ f # s
         /\ {f, s} = {db[a].first, db[a].second}
         /\ s = -trail[qhead] /\ trail[qhead] = -s
         /\ qhead \in DOMAIN trail /\ confl = 0
         /\ IsFalse(s) /\ ~IsTrue(s)
         /\ \A k \in DOMAIN trail_lim : trail_lim[k] < qhead
         /\ \A m \in DOMAIN trail : trail[m] = -s => m = qhead
         /\ (\E x \in db[a].lits : x \in Settled) => f \in Settled
         /\ f \in Settled => IsTrue(f)
<1>1. /\ a \in DOMAIN db /\ {f, s} = {db[a].first, db[a].second}
      /\ s = -trail[qhead] /\ IsFalse(s) /\ qhead \in DOMAIN trail /\ confl = 0
      /\ trail[qhead] \in Literal
  BY VisitFacts
<1>2. f \in db[a].lits /\ s \in db[a].lits /\ f \in Literal /\ s \in Literal
  BY <1>1, ClauseFacts
<1>3. trail[qhead] = -s /\ session \in Session
  BY <1>1, LiteralFacts, StateFacts
<1>4. \A m \in DOMAIN trail : trail[m] = -s => m = qhead
  BY <1>1, <1>3, StateFacts
<1>5. Bottom /\ Lists
  BY DEF WInv
<1>6. f # s
  BY <1>1, <1>5 DEF Lists
<1>7. ~IsTrue(s)
  <2>1. SUFFICES ASSUME NEW m \in DOMAIN trail, trail[m] = s PROVE FALSE
    BY DEF IsTrue, ToSet
  <2>2. Var(trail[m]) = Var(trail[qhead])
    BY <1>2, <1>3, <2>1, LiteralFacts
  <2>3. m = qhead
    BY <1>1, <2>2, StateFacts
  <2>4. QED
    BY <1>2, <1>3, <2>1, <2>3, LiteralFacts
<1>8. (\E x \in db[a].lits : x \in Settled) => f \in Settled
  <2>1. (\E x \in db[a].lits : x \in Settled) => db[a].first \in Settled
    BY <1>1, <1>5 DEF Lists
  <2>2. s \notin Settled
    BY <1>2, <1>5, <1>7, SettledFacts
  <2>3. QED
    BY <1>1, <2>1, <2>2
<1>9. f \in Settled => IsTrue(f)
  BY <1>2, <1>5, SettledFacts
<1>10. \A k \in DOMAIN trail_lim : trail_lim[k] < qhead
  BY DEF IInv, Queue
<1>11. QED
  BY <1>1, <1>2, <1>3, <1>4, <1>6, <1>7, <1>8, <1>9, <1>10

\* The clauses that are not visited are done with as before.
LEMMA OthersDone ==
  ASSUME confl = 0, confl' = 0, qhead' = qhead, NEW a, todo' = todo \ {a},
         NEW b, b # a, NEW m, Done(b, m)'
  PROVE  Done(b, m)
  BY DEF Done

LEMMA VisitSatisfiedWInv == IInv /\ WInv /\ VisitSatisfied => WInv'
<1> SUFFICES ASSUME IInv, WInv, VisitSatisfied PROVE WInv'
  OBVIOUS
<1>1. PICK a \in todo :
        /\ IsTrue(Turned(a).first)
        /\ db' = [db EXCEPT ![a] = Turned(a)]
        /\ todo' = todo \ {a}
        /\ UNCHANGED <<session, given, answers, ok, watches, simpDB_assigns, assignment, confl,
                       root_level, pc>>
  BY DEF VisitSatisfied
<1> USE DEF assignment
<1> DEFINE f == Turned(a).first
           s == Turned(a).second
<1>2. db' = [db EXCEPT ![a] = Clause(db[a].learnt, f, s, db[a].lits, db[a].id)]
  BY <1>1, VisitFacts
<1>3. IsTrue(f)
  BY <1>1
<1>4. /\ a \in DOMAIN db /\ f \in db[a].lits /\ s \in db[a].lits
      /\ f \in Literal /\ s \in Literal /\ f # s
      /\ {f, s} = {db[a].first, db[a].second}
      /\ trail[qhead] = -s /\ qhead \in DOMAIN trail /\ confl = 0
      /\ \A k \in DOMAIN trail_lim : trail_lim[k] < qhead
      /\ \A m \in DOMAIN trail : trail[m] = -s => m = qhead
      /\ (\E x \in db[a].lits : x \in Settled) => f \in Settled
  BY TurnedFacts
<1> HIDE DEF f, s
<1>5. /\ DOMAIN db' = DOMAIN db /\ \A b \in DOMAIN db : b # a => db'[b] = db[b]
      /\ db'[a].first = f /\ db'[a].second = s /\ db'[a].lits = db[a].lits
  BY <1>2, <1>4 DEF Clause
<1>6. Bottom /\ Lists /\ Guarded
  BY DEF WInv
<1>7. Bottom'
  BY <1>1, <1>6 DEF Bottom, decisionLevel
<1>8. Settled' = Settled /\ Literal' = Literal
  BY <1>1, SettledNext DEF Literal, Variable
<1>9. Lists'
  <2>1. \A b \in DOMAIN db : db'[b].first # db'[b].second
    BY <1>4, <1>5, <1>6 DEF Lists
  <2>2. \A b \in DOMAIN db : \A w \in {db'[b].first, db'[b].second} :
          w \in Settled \/ -w \in Settled \/ b \in watches[-w]
    BY <1>4, <1>5, <1>6 DEF Lists
  <2>3. \A b \in DOMAIN db : (\E x \in db'[b].lits : x \in Settled) => db'[b].first \in Settled
    BY <1>4, <1>5, <1>6 DEF Lists
  <2>4. QED
    BY <1>1, <1>5, <1>6, <1>8, <2>1, <2>2, <2>3 DEF Lists
<1>10. PICK p \in DOMAIN trail : trail[p] = f
  BY <1>3 DEF IsTrue, ToSet
<1>11. \A n \in DOMAIN trail : \A m : Stays(n, m)
  BY <1>1 DEF Stays, Outlives
<1>12. \A m : m = qhead => Outlives(p, m)'
  BY <1>1, <1>4 DEF Outlives
<1>13. ASSUME NEW b \in DOMAIN db', NEW w \in Literal, NEW u \in Literal, NEW m \in DOMAIN trail',
              {w, u} = {db'[b].first, db'[b].second}, trail'[m] = -w, Done(b, m)', ok'
       PROVE  \/ \E n \in DOMAIN trail' : trail'[n] = u /\ Outlives(n, m)'
              \/ /\ b \in DOMAIN db /\ {w, u} = {db[b].first, db[b].second}
                 /\ m \in DOMAIN trail /\ trail[m] = -w /\ Done(b, m)
                 /\ \A n \in DOMAIN trail : Stays(n, m)
  <2>1. m \in DOMAIN trail /\ trail[m] = -w /\ trail' = trail
    BY <1>1, <1>13
  <2>2. CASE b # a
    BY <1>1, <1>4, <1>5, <1>11, <1>13, <2>1, <2>2, OthersDone
  <2>3. CASE b = a
    <3>1. w \in {f, s} /\ u \in {f, s} /\ (w = f => u = s) /\ (w = s => u = f)
      BY <1>4, <1>5, <1>13, <2>3
    <3>2. w # f
      <4>1. SUFFICES ASSUME w = f PROVE FALSE
        OBVIOUS
      <4>2. Var(trail[m]) = Var(trail[p]) /\ trail[m] # trail[p]
        <5>1. session \in Session
          BY StateFacts
        <5>2. Var(-f) = Var(f) /\ -f # f
          BY <1>4, <5>1, LiteralFacts
        <5>3. QED
          BY <1>10, <2>1, <4>1, <5>2
      <4>3. QED
        BY <2>1, <4>2, StateFacts
    <3>3. m = qhead /\ u = f
      BY <1>4, <2>1, <3>1, <3>2
    <3>4. QED
      BY <1>10, <1>12, <2>1, <3>3
  <2>4. QED
    BY <2>2, <2>3
<1>14. Guarded'
  <2>1. session' = session /\ (ok' => ok)
    BY <1>1
  <2>2. QED
    BY <1>6, <1>13, <2>1, GuardedNext
<1>15. QED
  BY <1>7, <1>9, <1>14 DEF WInv

LEMMA VisitNewWatchWInv == IInv /\ WInv /\ VisitNewWatch => WInv'
<1> SUFFICES ASSUME IInv, WInv, VisitNewWatch PROVE WInv'
  OBVIOUS
<1>1. PICK a \in todo : \E x \in NewWatch(Turned(a)) :
        /\ ~IsTrue(Turned(a).first)
        /\ db' = [db EXCEPT ![a] = [Turned(a) EXCEPT !.second = x]]
        /\ watches' = [watches EXCEPT ![trail[qhead]] = @ \ {a}, ![-x] = @ \cup {a}]
        /\ todo' = todo \ {a}
        /\ UNCHANGED <<session, given, answers, ok, simpDB_assigns, assignment, confl, root_level, pc>>
  BY DEF VisitNewWatch
<1>2. PICK x \in NewWatch(Turned(a)) :
        /\ ~IsTrue(Turned(a).first)
        /\ db' = [db EXCEPT ![a] = [Turned(a) EXCEPT !.second = x]]
        /\ watches' = [watches EXCEPT ![trail[qhead]] = @ \ {a}, ![-x] = @ \cup {a}]
        /\ todo' = todo \ {a}
        /\ UNCHANGED <<session, given, answers, ok, simpDB_assigns, assignment, confl, root_level, pc>>
  BY <1>1
<1> USE DEF assignment
<1> DEFINE f == Turned(a).first
           s == Turned(a).second
<1>3. Turned(a) = Clause(db[a].learnt, f, s, db[a].lits, db[a].id)
  BY VisitFacts
<1>4. ~IsTrue(f)
  BY <1>2
<1>5. /\ a \in DOMAIN db /\ f \in db[a].lits /\ s \in db[a].lits
      /\ f \in Literal /\ s \in Literal /\ f # s
      /\ {f, s} = {db[a].first, db[a].second}
      /\ trail[qhead] = -s /\ qhead \in DOMAIN trail /\ confl = 0
      /\ ~IsTrue(s)
      /\ (\E y \in db[a].lits : y \in Settled) => f \in Settled
      /\ f \in Settled => IsTrue(f)
  BY TurnedFacts
<1> HIDE DEF f, s
<1>6. x \in db[a].lits /\ x # f /\ ~IsFalse(x)
  BY <1>3 DEF NewWatch, Clause
<1>7. /\ DOMAIN db' = DOMAIN db /\ \A b \in DOMAIN db : b # a => db'[b] = db[b]
      /\ db'[a].first = f /\ db'[a].second = x /\ db'[a].lits = db[a].lits
  BY <1>2, <1>3, <1>5 DEF Clause
<1>8. Bottom /\ Lists /\ Guarded /\ session \in Session
  BY StateFacts DEF WInv
<1>9. Bottom'
  BY <1>2, <1>8 DEF Bottom, decisionLevel
<1>10. Settled' = Settled /\ Literal' = Literal
  BY <1>2, SettledNext DEF Literal, Variable
<1>11. x \in Literal /\ -x \in Literal
  BY <1>5, <1>6, <1>8, ClauseFacts, LiteralFacts
<1>12. x \notin Settled /\ -x \notin Settled /\ f \notin Settled
  BY <1>4, <1>5, <1>6, <1>8, <1>11, SettledFacts
<1>13. /\ watches \in [Literal -> SUBSET DOMAIN db] /\ trail[qhead] \in Literal
       /\ -x # trail[qhead] /\ -f # trail[qhead]
  <2>1. watches \in [Literal -> SUBSET DOMAIN db]
    BY DEF IInv, Memory
  <2>2. trail[qhead] \in Literal
    BY <1>5, StateFacts
  <2>3. -x # trail[qhead]
    BY <1>5, <1>6 DEF IsFalse, ToSet
  <2>4. -f # -s
    BY <1>5, <1>8, LiteralFacts
  <2>5. QED
    BY <1>5, <2>1, <2>2, <2>3, <2>4
<1>14. \A y \in Literal : \A b \in DOMAIN db :
         b \in watches'[y] <=> IF y = -x THEN b \in watches[y] \/ b = a
                               ELSE b \in watches[y] /\ (b # a \/ y # trail[qhead])
  BY <1>2, <1>11, <1>13
<1>15. Lists'
  <2>1. \A b \in DOMAIN db : db'[b].first # db'[b].second
    BY <1>6, <1>7, <1>8 DEF Lists
  <2>2. ASSUME NEW b \in DOMAIN db, NEW w \in {db'[b].first, db'[b].second}
        PROVE  w \in Settled \/ -w \in Settled \/ b \in watches'[-w]
    <3>1. CASE b # a
      <4>1. w \in {db[b].first, db[b].second}
        BY <1>7, <2>2, <3>1
      <4>2. w \in Settled \/ -w \in Settled \/ b \in watches[-w]
        BY <1>8, <4>1 DEF Lists
      <4>3. w \in Literal /\ -w \in Literal
        BY <1>8, <4>1, ClauseFacts, LiteralFacts
      <4>4. QED
        BY <1>14, <3>1, <4>2, <4>3
    <3>2. CASE b = a
      <4>1. w = f \/ w = x
        BY <1>7, <2>2, <3>2
      <4>2. CASE w = f
        <5>1. f \in Settled \/ -f \in Settled \/ a \in watches[-f]
          BY <1>5, <1>8 DEF Lists
        <5>2. -f \in Literal
          BY <1>5, <1>8, LiteralFacts
        <5>3. QED
          BY <1>5, <1>13, <1>14, <3>2, <4>2, <5>1, <5>2
      <4>3. CASE w = x
        BY <1>5, <1>11, <1>14, <3>2, <4>3
      <4>4. QED
        BY <4>1, <4>2, <4>3
    <3>3. QED
      BY <3>1, <3>2
  <2>3. ASSUME NEW y \in Literal, y \in Settled \/ -y \in Settled PROVE watches'[y] = {}
    <3>1. y # -x
      BY <1>8, <1>11, <1>12, <2>3, LiteralFacts
    <3>2. watches[y] = {}
      BY <1>8, <2>3 DEF Lists
    <3>3. QED
      BY <1>2, <1>11, <1>13, <3>1, <3>2
  <2>4. \A b \in DOMAIN db : (\E y \in db'[b].lits : y \in Settled) => db'[b].first \in Settled
    BY <1>5, <1>7, <1>8 DEF Lists
  <2>5. QED
    BY <1>7, <1>10, <2>1, <2>2, <2>3, <2>4 DEF Lists
<1>16. \A n \in DOMAIN trail : \A m : Stays(n, m)
  BY <1>2 DEF Stays, Outlives
<1>17. ASSUME NEW b \in DOMAIN db', NEW w \in Literal, NEW u \in Literal, NEW m \in DOMAIN trail',
              {w, u} = {db'[b].first, db'[b].second}, trail'[m] = -w, Done(b, m)', ok'
       PROVE  \/ \E n \in DOMAIN trail' : trail'[n] = u /\ Outlives(n, m)'
              \/ /\ b \in DOMAIN db /\ {w, u} = {db[b].first, db[b].second}
                 /\ m \in DOMAIN trail /\ trail[m] = -w /\ Done(b, m)
                 /\ \A n \in DOMAIN trail : Stays(n, m)
  <2>1. m \in DOMAIN trail /\ trail[m] = -w /\ trail' = trail
    BY <1>2, <1>17
  <2>2. CASE b # a
    BY <1>2, <1>5, <1>7, <1>16, <1>17, <2>1, <2>2, OthersDone
  <2>3. CASE b = a
    <3>1. w \in {f, x} /\ (w = x \/ w = f)
      BY <1>7, <1>17, <2>3
    <3>2. w # x
      BY <1>6, <2>1 DEF IsFalse, ToSet
    <3>3. w = f
      BY <3>1, <3>2
    <3>4. m # qhead
      BY <1>13, <2>1, <3>3
    <3>5. Done(a, m)
      BY <1>2, <1>5, <1>17, <2>3, <3>4 DEF Done
    <3>6. \E n \in DOMAIN trail : trail[n] = s
      BY <1>2, <1>5, <1>8, <1>17, <2>1, <3>3, <3>5 DEF Guarded
    <3>7. QED
      BY <1>5, <3>6 DEF IsTrue, ToSet
  <2>4. QED
    BY <2>2, <2>3
<1>18. Guarded'
  <2>1. session' = session /\ (ok' => ok)
    BY <1>2
  <2>2. QED
    BY <1>8, <1>17, <2>1, GuardedNext
<1>19. QED
  BY <1>9, <1>15, <1>18 DEF WInv

LEMMA VisitUnitWInv == IInv /\ WInv /\ VisitUnit => WInv'
<1> SUFFICES ASSUME IInv, WInv, VisitUnit PROVE WInv'
  OBVIOUS
<1>1. PICK a \in todo :
        LET c == Turned(a)
        IN  /\ ~IsTrue(c.first)
            /\ db' = [db EXCEPT ![a] = c]
            /\ IF IsFalse(c.first)
               THEN /\ ok' = (ok /\ decisionLevel # 0)
                    /\ confl' = a
                    /\ qhead' = Len(trail)
                    /\ trail' = trail
               ELSE /\ trail' = Append(trail, c.first)
                    /\ todo' = todo \ {a}
                    /\ UNCHANGED <<ok, confl, qhead>>
            /\ pc' \in {pc, "assert"}
      /\ UNCHANGED <<session, watches, simpDB_assigns, trail_lim, root_level>>
  BY DEF VisitUnit
<1> DEFINE f == Turned(a).first
           s == Turned(a).second
<1>2. db' = [db EXCEPT ![a] = Clause(db[a].learnt, f, s, db[a].lits, db[a].id)]
  BY <1>1, VisitFacts
<1>3. /\ ~IsTrue(f)
      /\ IsFalse(f) => /\ ok' = (ok /\ decisionLevel # 0)
                       /\ confl' = a
                       /\ qhead' = Len(trail)
                       /\ trail' = trail
      /\ ~IsFalse(f) => /\ trail' = Append(trail, f)
                        /\ todo' = todo \ {a}
                        /\ UNCHANGED <<ok, confl, qhead>>
      /\ pc' \in {pc, "assert"}
      /\ UNCHANGED <<session, watches, simpDB_assigns, trail_lim, root_level>>
  BY <1>1
<1>4. /\ a \in DOMAIN db /\ f \in db[a].lits /\ s \in db[a].lits
      /\ f \in Literal /\ s \in Literal /\ f # s
      /\ {f, s} = {db[a].first, db[a].second}
      /\ trail[qhead] = -s /\ qhead \in DOMAIN trail /\ confl = 0
      /\ \A k \in DOMAIN trail_lim : trail_lim[k] < qhead
      /\ \A m \in DOMAIN trail : trail[m] = -s => m = qhead
      /\ (\E x \in db[a].lits : x \in Settled) => f \in Settled
  BY TurnedFacts
<1> HIDE DEF f, s
<1>5. /\ DOMAIN db' = DOMAIN db /\ \A b \in DOMAIN db : b # a => db'[b] = db[b]
      /\ db'[a].first = f /\ db'[a].second = s /\ db'[a].lits = db[a].lits
  BY <1>2, <1>4 DEF Clause
<1>6. Bottom /\ Lists /\ Guarded /\ session \in Session
  BY StateFacts DEF WInv
<1>7. /\ Len(trail) \in Nat /\ DOMAIN trail = 1 .. Len(trail) /\ qhead \in Nat
      /\ trail \in Seq(Literal) /\ a # 0
      /\ \A k \in DOMAIN trail_lim : trail_lim[k] \in Nat
  <2>1. trail \in Seq(Literal)
    BY StateFacts, TrailFacts DEF Divided
  <2>2. QED
    BY <1>4, <2>1, StateFacts, ClauseFacts
<1>8. /\ ~IsFalse(f) => /\ DOMAIN trail' = 1 .. Len(trail) + 1
                        /\ trail'[Len(trail) + 1] = f
      /\ \A n \in DOMAIN trail : n \in DOMAIN trail' /\ trail'[n] = trail[n]
  BY <1>3, <1>4, <1>7
<1>9. Bottom'
  <2>1. simpDB_assigns' \in 0 .. qhead'
    BY <1>3, <1>6, <1>7, SettledFacts DEF Bottom
  <2>2. \A k \in DOMAIN trail_lim' : simpDB_assigns' <= trail_lim'[k]
    BY <1>3, <1>6 DEF Bottom
  <2>3. ASSUME ~ok', pc' \notin {"idle", "assert"} PROVE confl' # 0 /\ decisionLevel' = 0
    <3>1. ok
      BY <1>3, <1>4, <1>6, <2>3, VisitFacts DEF Bottom
    <3>2. QED
      BY <1>3, <1>7, <2>3, <3>1 DEF decisionLevel
  <2>4. QED
    BY <2>1, <2>2, <2>3 DEF Bottom
<1>10. Settled' = Settled /\ Literal' = Literal
  BY <1>3, <1>6, <1>8, SettledNext, SettledFacts DEF Literal, Variable
<1>11. Lists'
  <2>1. \A b \in DOMAIN db : db'[b].first # db'[b].second
    BY <1>4, <1>5, <1>6 DEF Lists
  <2>2. \A b \in DOMAIN db : \A w \in {db'[b].first, db'[b].second} :
          w \in Settled \/ -w \in Settled \/ b \in watches[-w]
    BY <1>4, <1>5, <1>6 DEF Lists
  <2>3. \A b \in DOMAIN db : (\E x \in db'[b].lits : x \in Settled) => db'[b].first \in Settled
    BY <1>4, <1>5, <1>6 DEF Lists
  <2>4. QED
    BY <1>3, <1>5, <1>6, <1>10, <2>1, <2>2, <2>3 DEF Lists
<1>12. \A n \in DOMAIN trail : \A m : Stays(n, m)
  BY <1>3, <1>8 DEF Stays, Outlives
<1>13. \A n, m : m = qhead => Outlives(n, m)'
  BY <1>3, <1>4 DEF Outlives
<1>14. ASSUME NEW b \in DOMAIN db', NEW w \in Literal, NEW u \in Literal, NEW m \in DOMAIN trail',
              {w, u} = {db'[b].first, db'[b].second}, trail'[m] = -w, Done(b, m)', ok'
       PROVE  \/ \E n \in DOMAIN trail' : trail'[n] = u /\ Outlives(n, m)'
              \/ /\ b \in DOMAIN db /\ {w, u} = {db[b].first, db[b].second}
                 /\ m \in DOMAIN trail /\ trail[m] = -w /\ Done(b, m)
                 /\ \A n \in DOMAIN trail : Stays(n, m)
  <2>0. b \in DOMAIN db /\ {w, u} = {db[b].first, db[b].second}
    BY <1>4, <1>5, <1>14
  <2>1. CASE IsFalse(f)
    <3>1. m \in DOMAIN trail /\ trail[m] = -w /\ m \in Nat
      BY <1>3, <1>7, <1>14, <2>1
    <3>2. confl' # 0
      BY <1>3, <1>7, <2>1
    <3>3. \E k \in DOMAIN trail_lim : m <= trail_lim[k]
      BY <1>3, <1>14, <3>2 DEF Done
    <3>4. m < qhead
      BY <1>4, <1>7, <3>1, <3>3
    <3>5. QED
      BY <1>4, <1>12, <2>0, <3>1, <3>4 DEF Done
  <2>2. CASE ~IsFalse(f)
    <3>1. m \in Nat /\ (m < qhead \/ m = qhead)
      BY <1>3, <1>4, <1>7, <1>8, <1>14, <2>2 DEF Done
    <3>2. m \in DOMAIN trail /\ trail[m] = -w
      BY <1>4, <1>7, <1>8, <1>14, <2>2, <3>1
    <3>3. CASE b # a
      <4>1. confl' = 0 /\ qhead' = qhead /\ todo' = todo \ {a}
        BY <1>3, <1>4, <2>2
      <4>2. Done(b, m)
        BY <1>4, <1>14, <3>3, <4>1, OthersDone
      <4>3. QED
        BY <1>12, <2>0, <3>2, <4>2
    <3>4. CASE b = a
      <4>1. w \in {f, s} /\ (w = s => u = f)
        BY <1>4, <2>0, <3>4
      <4>2. w # f
        BY <2>2, <3>2 DEF IsFalse, ToSet
      <4>3. m = qhead /\ u = f
        BY <1>4, <3>2, <4>1, <4>2
      <4>4. Len(trail) + 1 \in DOMAIN trail' /\ trail'[Len(trail) + 1] = u
        BY <1>7, <1>8, <2>2, <4>3
      <4>5. QED
        BY <1>13, <4>3, <4>4
    <3>5. QED
      BY <3>3, <3>4
  <2>3. QED
    BY <2>1, <2>2
<1>15. Guarded'
  <2>0. ok' => ok
    <3>1. CASE IsFalse(f)
      BY <1>3, <3>1
    <3>2. CASE ~IsFalse(f)
      BY <1>3, <3>2
    <3>3. QED
      BY <3>1, <3>2
  <2>1. session' = session /\ (ok' => ok)
    BY <1>3, <2>0
  <2>2. QED
    BY <1>6, <1>14, <2>1, GuardedNext
<1>16. QED
  BY <1>9, <1>11, <1>15 DEF WInv

-----------------------------------------------------------------------------
(***************************************************************************)
(* The solver goes back to the top level, or to some level above the       *)
(* assumptions; it may add to the trail after that.                        *)
(***************************************************************************)
Backed(l) ==
  /\ l \in 0 .. decisionLevel
  /\ l = 0 \/ (root_level <= l /\ root_level' = root_level)
  /\ trail_lim' = SubSeq(trail_lim, 1, l)
  /\ \A n \in DOMAIN Cut(l) : n \in DOMAIN trail' /\ trail'[n] = Cut(l)[n]

LEMMA BackedFacts ==
  ASSUME IInv, NEW l, Backed(l)
  PROVE  /\ l \in Nat /\ l <= decisionLevel
         /\ Len(Cut(l)) \in Nat /\ Len(Cut(l)) <= Len(trail)
         /\ \A n \in 1 .. Len(Cut(l)) : n \in DOMAIN trail /\ n \in DOMAIN trail' /\ trail'[n] = trail[n]
         /\ l < decisionLevel => l + 1 \in DOMAIN trail_lim /\ Len(Cut(l)) = trail_lim[l + 1]
         /\ l = decisionLevel => Cut(l) = trail
         /\ DOMAIN trail_lim' = 1 .. l /\ \A k \in 1 .. l : trail_lim'[k] = trail_lim[k]
<1>1. l \in 0 .. decisionLevel /\ decisionLevel \in Nat
  BY StateFacts DEF Backed
<1>2. Divided(trail, trail_lim) /\ trail_lim \in Seq(Nat)
  BY StateFacts, TrailFacts
<1>3. /\ Len(Cut(l)) \in 0 .. Len(trail) /\ DOMAIN Cut(l) = 1 .. Len(Cut(l))
      /\ \A n \in DOMAIN Cut(l) : n \in DOMAIN trail /\ Cut(l)[n] = trail[n]
      /\ l < decisionLevel => Len(Cut(l)) = trail_lim[l + 1]
      /\ l = decisionLevel => Cut(l) = trail
  BY <1>1, <1>2, CutFacts
<1>4. DOMAIN trail_lim' = 1 .. l /\ \A k \in 1 .. l : trail_lim'[k] = trail_lim[k]
  BY <1>1, <1>2, StateFacts DEF Backed, decisionLevel
<1>5. l < decisionLevel => l + 1 \in DOMAIN trail_lim
  BY <1>1, StateFacts
<1>6. \A n \in DOMAIN Cut(l) : n \in DOMAIN trail' /\ trail'[n] = Cut(l)[n]
  BY DEF Backed
<1>7. \A n \in 1 .. Len(Cut(l)) : n \in DOMAIN trail /\ n \in DOMAIN trail' /\ trail'[n] = trail[n]
  BY <1>3, <1>6
<1>8. Len(trail) \in Nat
  BY StateFacts
<1>9. QED
  BY <1>1, <1>3, <1>4, <1>5, <1>7, <1>8

LEMMA BackedStays ==
  ASSUME IInv, NEW l, Backed(l), NEW m \in DOMAIN trail, m <= Len(Cut(l)), NEW n \in DOMAIN trail
  PROVE  Stays(n, m)
<1> SUFFICES ASSUME Outlives(n, m)
             PROVE  n \in DOMAIN trail' /\ trail'[n] = trail[n] /\ Outlives(n, m)'
  BY DEF Stays
<1>1. n \in Nat /\ m \in Nat /\ n <= Len(trail) /\ n >= 1 /\ root_level \in Nat /\ decisionLevel \in Nat
  BY StateFacts
<1>2. n <= Len(Cut(l))
  <2>1. CASE l = decisionLevel
    BY <1>1, <2>1, BackedFacts
  <2>2. CASE l < decisionLevel
    <3>1. l + 1 \in DOMAIN trail_lim /\ Len(Cut(l)) = trail_lim[l + 1] /\ trail_lim[l + 1] \in Nat /\ l \in Nat
      BY <2>2, BackedFacts, StateFacts
    <3>2. l + 1 = 1 \/ l + 1 > root_level
      BY <1>1, <3>1 DEF Backed
    <3>3. ~(trail_lim[l + 1] < n)
      BY <1>1, <3>1, <3>2 DEF Outlives
    <3>4. QED
      BY <1>1, <3>1, <3>3
  <2>3. QED
    BY <1>1, <2>1, <2>2, BackedFacts
<1>3. n \in DOMAIN trail' /\ trail'[n] = trail[n]
  BY <1>1, <1>2, BackedFacts
<1>4. ASSUME NEW k \in DOMAIN trail_lim', k = 1 \/ k > root_level', trail_lim'[k] < n
      PROVE  trail_lim'[k] < m
  <2>1. k \in 1 .. l /\ k \in DOMAIN trail_lim /\ trail_lim'[k] = trail_lim[k] /\ l # 0
    BY <1>4, <1>1, BackedFacts, StateFacts
  <2>2. root_level' = root_level
    BY <2>1 DEF Backed
  <2>3. QED
    BY <1>4, <2>1, <2>2 DEF Outlives
<1>5. QED
  BY <1>3, <1>4 DEF Outlives

\* What is settled is not taken back.
LEMMA BackedSettled ==
  ASSUME IInv, Bottom, NEW l, Backed(l), simpDB_assigns' = simpDB_assigns
  PROVE  /\ Settled' = Settled
         /\ simpDB_assigns <= Len(Cut(l))
         /\ \A k \in DOMAIN trail_lim' : simpDB_assigns' <= trail_lim'[k]
<1>1. simpDB_assigns \in Nat /\ simpDB_assigns <= qhead /\ qhead <= Len(trail) /\ qhead \in Nat
  BY SettledFacts, StateFacts
<1>2. simpDB_assigns <= Len(Cut(l))
  <2>1. CASE l = decisionLevel
    BY <1>1, <2>1, BackedFacts, StateFacts
  <2>2. CASE l < decisionLevel
    BY <2>2, BackedFacts DEF Bottom
  <2>3. QED
    BY <2>1, <2>2, BackedFacts, StateFacts
<1>3. \A n \in 1 .. simpDB_assigns : trail'[n] = trail[n]
  BY <1>1, <1>2, BackedFacts
<1>4. ASSUME NEW k \in DOMAIN trail_lim' PROVE simpDB_assigns' <= trail_lim'[k]
  <2>1. k \in 1 .. l /\ l \in Nat /\ l <= decisionLevel /\ trail_lim'[k] = trail_lim[k]
    BY BackedFacts
  <2>2. k \in DOMAIN trail_lim
    BY <2>1, StateFacts
  <2>3. QED
    BY <2>1, <2>2 DEF Bottom
<1>5. QED
  BY <1>2, <1>3, <1>4, SettledNext

LEMMA CancelledWInv ==
  ASSUME IInv, WInv, NEW l \in 0 .. decisionLevel, cancelUntil(l),
         l = 0 \/ (l = root_level /\ root_level' = root_level),
         UNCHANGED <<session, ok, db, watches, simpDB_assigns>>,
         todo = {}, todo' = {}, confl' = 0, qhead = Len(trail),
         confl # 0 => l = 0,
         ~ok => pc' \in {"idle", "assert"}
  PROVE  WInv'
<1>0. Bottom /\ Lists /\ Guarded
  BY DEF WInv
<1>1. DOMAIN trail = 1 .. Len(trail) /\ Len(trail) \in Nat /\ root_level \in Nat /\ decisionLevel \in Nat
  BY StateFacts
<1>2. Backed(l)
  <2>1. trail' = Cut(l) /\ trail_lim' = SubSeq(trail_lim, 1, l)
    BY DEF cancelUntil
  <2>2. QED
    BY <1>1, <2>1 DEF Backed
<1>3. /\ qhead' = Len(Cut(l)) /\ Len(Cut(l)) \in Nat /\ Len(Cut(l)) <= Len(trail)
      /\ DOMAIN trail' = 1 .. Len(Cut(l))
  <2>1. trail' = Cut(l) /\ qhead' = IF decisionLevel > l THEN Len(Cut(l)) ELSE qhead
    BY DEF cancelUntil
  <2>2. l = decisionLevel => Cut(l) = trail
    BY <1>2, BackedFacts
  <2>3. DOMAIN Cut(l) = 1 .. Len(Cut(l))
    BY StateFacts, TrailFacts, CutFacts
  <2>4. QED
    BY <1>1, <1>2, <2>1, <2>2, <2>3, BackedFacts
<1>4. Bottom'
  <2>1. simpDB_assigns' \in 0 .. qhead'
    BY <1>0, <1>2, <1>3, BackedSettled, SettledFacts
  <2>2. QED
    BY <1>0, <1>2, <2>1, BackedSettled DEF Bottom
<1>5. Lists'
  BY <1>0, <1>2, BackedSettled, KeepLists
<1>6. ASSUME NEW a, NEW m \in DOMAIN trail', ok'
      PROVE  m \in DOMAIN trail /\ trail'[m] = trail[m] /\ Done(a, m) /\ m <= Len(Cut(l))
  <2>1. m \in Nat /\ m <= Len(Cut(l)) /\ m \in DOMAIN trail /\ trail'[m] = trail[m]
    BY <1>1, <1>2, <1>3, BackedFacts
  <2>2. CASE confl = 0
    BY <1>1, <1>3, <2>1, <2>2 DEF Done
  <2>3. CASE confl # 0
    <3>1. ok /\ l = 0
      BY <1>6, <2>3
    <3>2. decisionLevel # 0
      BY <2>3, <3>1 DEF IInv, Queue
    <3>3. l < decisionLevel
      BY <1>1, <3>1, <3>2
    <3>4. QED
      BY <1>2, <2>1, <2>3, <3>3, BackedFacts DEF Done
  <2>4. QED
    BY <2>1, <2>2, <2>3
<1>7. Guarded'
  <2>1. session' = session /\ (ok' => ok) /\ db' = db
    OBVIOUS
  <2>2. QED
    BY <1>0, <1>2, <1>6, <2>1, BackedStays, GuardedNext
<1>8. QED
  BY <1>4, <1>5, <1>7 DEF WInv

LEMMA RestartWInv == IInv /\ WInv /\ Restart => WInv'
<1> SUFFICES ASSUME IInv, WInv, Restart PROVE WInv'
  OBVIOUS
<1>1. pc = "search" /\ At("search") /\ confl = 0 /\ cancelUntil(root_level)
  BY DEF Restart, Ready, At
<1>2. todo = {} /\ qhead = Len(trail)
  BY <1>1, Propagated
<1>3. ok
  BY <1>1 DEF WInv, Bottom
<1>4. root_level \in 0 .. decisionLevel
  BY <1>1, StateFacts DEF IInv, Calls
<1>5. /\ UNCHANGED <<session, ok, db, watches, simpDB_assigns, root_level>>
      /\ todo' = todo /\ confl' = confl
  BY DEF Restart, memory, propagation
<1>6. QED
  BY <1>1, <1>2, <1>3, <1>4, <1>5, CancelledWInv

\* The query is answered, or an assertion fails.
LEMMA AnsweredWInv ==
  ASSUME IInv, WInv, cancelUntil(0), todo = {}, todo' = {}, confl' = 0, qhead = Len(trail),
         UNCHANGED <<session, ok, db, watches, simpDB_assigns>>,
         pc' \in {"idle", "assert"}
  PROVE  WInv'
<1>1. 0 \in 0 .. decisionLevel
  BY StateFacts
<1>2. QED
  BY <1>1, CancelledWInv

LEMMA FindModelWInv == IInv /\ WInv /\ FindModel => WInv'
<1> SUFFICES ASSUME IInv, WInv, FindModel PROVE WInv'
  OBVIOUS
<1>1. todo = {} /\ qhead = Len(trail)
  BY Propagated DEF FindModel
<1>2. confl = 0
  BY DEF FindModel, Deciding, Tidy, Ready, IInv, Queue
<1>3. QED
  BY <1>1, <1>2, AnsweredWInv DEF FindModel, memory, propagation, Answer

LEMMA SearchConflictWInv == IInv /\ WInv /\ SearchConflict => WInv'
<1> SUFFICES ASSUME IInv, WInv, SearchConflict PROVE WInv'
  OBVIOUS
<1>1. todo = {} /\ qhead = Len(trail)
  BY Propagated DEF SearchConflict
<1>2. QED
  BY <1>1, AnsweredWInv DEF SearchConflict, Answer

LEMMA AssumeConflictWInv == IInv /\ WInv /\ AssumeConflict => WInv'
<1> SUFFICES ASSUME IInv, WInv, AssumeConflict PROVE WInv'
  OBVIOUS
<1>1. todo = {} /\ qhead = Len(trail)
  BY Propagated DEF AssumeConflict
<1>2. pc' \in {"idle", "assert"}
  BY DEF AssumeConflict, Answer
<1>3. QED
  BY <1>1, <1>2, AnsweredWInv DEF AssumeConflict

LEMMA AssumeFalseWInv == IInv /\ WInv /\ AssumeFalse => WInv'
<1> SUFFICES ASSUME IInv, WInv, AssumeFalse PROVE WInv'
  OBVIOUS
<1>1. todo = {} /\ qhead = Len(trail) /\ confl = 0
  BY Propagated DEF AssumeFalse
<1>2. pc' \in {"idle", "assert"}
  BY DEF AssumeFalse, Answer
<1>3. QED
  BY <1>1, <1>2, AnsweredWInv DEF AssumeFalse, propagation

-----------------------------------------------------------------------------
\* A level is opened, with a literal of its own or none.
LEMMA OpenedWInv ==
  ASSUME IInv, WInv, todo = {}, qhead = Len(trail), confl = 0, ok,
         trail_lim' = Append(trail_lim, Len(trail)),
         trail' = trail \/ \E x \in Literal : trail' = Append(trail, x),
         UNCHANGED <<session, ok, db, watches, simpDB_assigns, qhead, todo, confl, root_level>>
  PROVE  WInv'
<1>0. Bottom /\ Lists /\ Guarded
  BY DEF WInv
<1>1. /\ Len(trail) \in Nat /\ DOMAIN trail = 1 .. Len(trail) /\ trail \in Seq(Literal)
      /\ trail_lim \in Seq(Nat) /\ decisionLevel \in Nat /\ DOMAIN trail_lim = 1 .. decisionLevel
      /\ root_level \in Nat
  BY StateFacts, TrailFacts DEF Divided
<1>2. \A n \in DOMAIN trail : n \in DOMAIN trail' /\ trail'[n] = trail[n] /\ n \in Nat
  BY <1>1
<1>3. /\ DOMAIN trail_lim' = 1 .. decisionLevel + 1
      /\ trail_lim'[decisionLevel + 1] = Len(trail)
      /\ \A k \in 1 .. decisionLevel : trail_lim'[k] = trail_lim[k]
  BY <1>1 DEF decisionLevel
<1>4. DOMAIN trail' \subseteq 1 .. Len(trail) + 1
  BY <1>1
<1>5. Bottom'
  <2>1. simpDB_assigns \in Nat /\ simpDB_assigns <= Len(trail)
    BY <1>0, SettledFacts
  <2>2. \A k \in DOMAIN trail_lim' : simpDB_assigns <= trail_lim'[k]
    BY <1>0, <1>1, <1>3, <2>1 DEF Bottom
  <2>3. QED
    BY <1>0, <2>1, <2>2 DEF Bottom
<1>6. Settled' = Settled
  BY <1>0, <1>2, SettledFacts, SettledNext
<1>7. Lists'
  BY <1>0, <1>6, KeepLists
<1>8. ASSUME NEW n \in DOMAIN trail, NEW m, Outlives(n, m) PROVE Outlives(n, m)'
  <2>1. SUFFICES ASSUME NEW k \in DOMAIN trail_lim', k = 1 \/ k > root_level', trail_lim'[k] < n
                 PROVE  trail_lim'[k] < m
    BY DEF Outlives
  <2>2. k \in Nat /\ (k \in DOMAIN trail_lim \/ k = decisionLevel + 1)
    BY <1>1, <1>3
  <2>3. k # decisionLevel + 1
    BY <1>1, <1>3, <2>1
  <2>4. QED
    BY <1>1, <1>3, <1>8, <2>1, <2>2, <2>3 DEF Outlives
<1>9. \A n \in DOMAIN trail : \A m : Stays(n, m)
  BY <1>2, <1>8 DEF Stays
<1>10. ASSUME NEW a, NEW m \in DOMAIN trail', Done(a, m)'
       PROVE  m \in DOMAIN trail /\ trail'[m] = trail[m] /\ Done(a, m)
  <2>1. m \in Nat /\ (m < qhead \/ m = qhead) /\ m >= 1
    BY <1>1, <1>4, <1>10 DEF Done
  <2>2. QED
    BY <1>1, <1>2, <2>1 DEF Done
<1>11. Guarded'
  BY <1>0, <1>9, <1>10, GuardedNext
<1>12. QED
  BY <1>5, <1>7, <1>11 DEF WInv

LEMMA AssumeWInv == IInv /\ WInv /\ Assume => WInv'
<1> SUFFICES ASSUME IInv, WInv, Assume PROVE WInv'
  OBVIOUS
<1>1. At("assume") /\ confl = 0 /\ decisionLevel < root_level /\ pc = "assume"
  BY DEF Assume, At
<1>2. todo = {} /\ qhead = Len(trail) /\ ok
  BY <1>1, Propagated DEF WInv, Bottom
<1>3. assumps[decisionLevel + 1] \in Literal
  BY <1>1, AssumptionFacts
<1>4. trail' = trail \/ \E x \in Literal : trail' = Append(trail, x)
  BY <1>3 DEF Assume
<1>5. QED
  BY <1>1, <1>2, <1>4, OpenedWInv DEF Assume, memory, propagation

LEMMA DecideWInv == IInv /\ WInv /\ Decide => WInv'
<1> SUFFICES ASSUME IInv, WInv, Decide PROVE WInv'
  OBVIOUS
<1>1. todo = {} /\ qhead = Len(trail)
  BY Propagated DEF Decide
<1>2. confl = 0 /\ pc \in {"search", "simplified", "decide"}
  BY DEF Decide, Deciding, Tidy, Ready, At, IInv, Queue
<1>3. ok
  BY <1>2 DEF WInv, Bottom
<1>4. PICK v \in Selectable : trail_lim' = Append(trail_lim, Len(trail)) /\ trail' = Append(trail, -v)
  BY DEF Decide
<1>5. -v \in Literal
  BY <1>4, StateFacts, LiteralFacts DEF Selectable
<1>6. QED
  BY <1>1, <1>2, <1>3, <1>4, <1>5, OpenedWInv DEF Decide, memory, propagation

-----------------------------------------------------------------------------
\* Clauses are dropped, and the lists of what is settled by now cleared.
LEMMA DroppedWInv ==
  ASSUME IInv, WInv, ok, NEW gone \in SUBSET DOMAIN db, NEW lists, Drop(gone, lists),
         UNCHANGED <<session, ok, trail, trail_lim, qhead, todo, confl>>,
         root_level' = root_level \/ decisionLevel = 0,
         simpDB_assigns' \in 0 .. qhead, simpDB_assigns <= simpDB_assigns',
         \A k \in DOMAIN trail_lim : simpDB_assigns' <= trail_lim[k],
         \A x \in Literal :
           lists[x] = IF x \in Settled' \/ -x \in Settled' THEN {} ELSE watches[x],
         \A a \in DOMAIN db \ gone : (\E x \in db[a].lits : x \in Settled') => db[a].first \in Settled'
  PROVE  WInv'
<1>0. Bottom /\ Lists /\ Guarded /\ session \in Session
  BY StateFacts DEF WInv
<1>1. /\ DOMAIN db' = DOMAIN db \ gone /\ \A a \in DOMAIN db' : a \in DOMAIN db /\ db'[a] = db[a]
      /\ \A x \in Literal : watches'[x] = lists[x] \ {a \in gone : -x \in {db[a].first, db[a].second}}
  BY DEF Drop, Unwatched
<1>2. Literal' = Literal
  BY DEF Literal, Variable
<1>3. Settled \subseteq Settled'
  <2>1. simpDB_assigns \in Nat /\ simpDB_assigns' \in Nat
    BY <1>0, SettledFacts, StateFacts
  <2>2. QED
    BY <2>1 DEF Settled
<1>4. Bottom'
  BY DEF Bottom
<1>5. Lists'
  <2>1. \A a \in DOMAIN db' : db'[a].first # db'[a].second
    BY <1>0, <1>1 DEF Lists
  <2>2. \A x \in Literal : x \in Settled' \/ -x \in Settled' => watches'[x] = {}
    BY <1>1
  <2>3. ASSUME NEW a \in DOMAIN db', NEW w \in {db'[a].first, db'[a].second},
               w \notin Settled', -w \notin Settled'
        PROVE  a \in watches'[-w]
    <3>1. a \in DOMAIN db /\ w \in {db[a].first, db[a].second} /\ a \notin gone
      BY <1>1, <2>3
    <3>2. w \in Literal /\ -w \in Literal /\ -(-w) = w
      BY <1>0, <3>1, ClauseFacts, LiteralFacts
    <3>3. a \in watches[-w]
      BY <1>0, <1>3, <2>3, <3>1 DEF Lists
    <3>4. a \in lists[-w]
      BY <2>3, <3>2, <3>3
    <3>5. QED
      BY <1>1, <3>1, <3>2, <3>4
  <2>4. \A a \in DOMAIN db' :
          (\E x \in db'[a].lits : x \in Settled') => db'[a].first \in Settled'
    BY <1>1
  <2>5. QED
    BY <1>2, <2>1, <2>2, <2>3, <2>4 DEF Lists
<1>6. Guarded'
  <2>1. \A n \in DOMAIN trail : \A m : Stays(n, m)
    <3>1. ASSUME NEW n \in DOMAIN trail, NEW m, Outlives(n, m) PROVE Outlives(n, m)'
      BY <3>1, StateFacts DEF Outlives
    <3>2. QED
      BY <3>1 DEF Stays
  <2>2. \A a, m : Done(a, m)' => Done(a, m)
    BY DEF Done
  <2>3. QED
    BY <1>0, <1>1, <2>1, <2>2, GuardedNext
<1>7. QED
  BY <1>4, <1>5, <1>6 DEF WInv

LEMMA ReduceDBWInv == IInv /\ WInv /\ ReduceDB => WInv'
<1> SUFFICES ASSUME IInv, WInv, ReduceDB PROVE WInv'
  OBVIOUS
<1>1. PICK gone \in SUBSET DOMAIN db : Drop(gone, watches)
  BY DEF ReduceDB, Learnts
<1>2. /\ UNCHANGED <<session, ok, trail, trail_lim, qhead, todo, confl, root_level, simpDB_assigns>>
      /\ Tidy
  BY DEF ReduceDB, assignment, propagation
<1>3. ok
  BY <1>2 DEF WInv, Bottom, Tidy, Ready, At, IInv, Queue
<1>4. Bottom /\ Lists
  BY DEF WInv
<1>5. Settled' = Settled
  BY <1>2, SettledNext
<1>6. \A x \in Literal : watches[x] = IF x \in Settled' \/ -x \in Settled' THEN {} ELSE watches[x]
  BY <1>4, <1>5 DEF Lists
<1>7. \A a \in DOMAIN db \ gone :
        (\E x \in db[a].lits : x \in Settled') => db[a].first \in Settled'
  BY <1>4, <1>5 DEF Lists
<1>8. /\ simpDB_assigns' \in 0 .. qhead /\ simpDB_assigns <= simpDB_assigns'
      /\ \A k \in DOMAIN trail_lim : simpDB_assigns' <= trail_lim[k]
  BY <1>2, <1>4, SettledFacts DEF Bottom
<1>9. QED
  BY <1>1, <1>2, <1>3, <1>6, <1>7, <1>8, DroppedWInv

\* The lists that simplifyDB clears, at the top level, with all propagated.
LEMMA ClearedFacts ==
  ASSUME IInv, WInv, decisionLevel = 0, qhead = Len(trail), simpDB_assigns' = Len(trail),
         trail' = trail, NEW x \in Literal
  PROVE  Cleared[x] = IF x \in Settled' \/ -x \in Settled' THEN {} ELSE watches[x]
<1> DEFINE late == SubSeq(trail, simpDB_assigns + 1, Len(trail))
<1>0. Bottom /\ Lists /\ session \in Session
  BY StateFacts DEF WInv
<1>1. /\ Len(trail) \in Nat /\ DOMAIN trail = 1 .. Len(trail) /\ trail \in Seq(Literal)
      /\ simpDB_assigns \in Nat /\ simpDB_assigns <= Len(trail)
  BY <1>0, StateFacts, TrailFacts, SettledFacts DEF Divided
<1>2. Settled' = {trail[n] : n \in 1 .. Len(trail)}
  BY DEF Settled
<1>3. ToSet(late) = {trail[n] : n \in simpDB_assigns + 1 .. Len(trail)}
  <2>1. /\ DOMAIN late = 1 .. Len(trail) - simpDB_assigns
        /\ \A i \in 1 .. Len(trail) - simpDB_assigns : late[i] = trail[simpDB_assigns + i]
    BY <1>1
  <2> HIDE DEF late
  <2>2. ASSUME NEW y \in ToSet(late) PROVE y \in {trail[n] : n \in simpDB_assigns + 1 .. Len(trail)}
    <3>1. PICK i \in DOMAIN late : y = late[i]
      BY DEF ToSet
    <3>2. simpDB_assigns + i \in simpDB_assigns + 1 .. Len(trail)
      BY <1>1, <2>1, <3>1
    <3>3. QED
      BY <2>1, <3>1, <3>2
  <2>3. ASSUME NEW n \in simpDB_assigns + 1 .. Len(trail) PROVE trail[n] \in ToSet(late)
    <3>1. n - simpDB_assigns \in DOMAIN late /\ simpDB_assigns + (n - simpDB_assigns) = n
      BY <1>1, <2>1
    <3>2. QED
      BY <2>1, <3>1 DEF ToSet
  <2>4. QED
    BY <2>2, <2>3
<1> HIDE DEF late
<1>4. Cleared[x] = IF Var(x) \in VarsOf(ToSet(late)) THEN {} ELSE watches[x]
  BY DEF Cleared, late
<1>5. \A n \in DOMAIN trail : Var(trail[n]) = Var(x) <=> (trail[n] = x \/ trail[n] = -x)
  BY <1>0, StateFacts, LiteralFacts
<1>6. CASE Var(x) \in VarsOf(ToSet(late))
  <2>1. PICK n \in simpDB_assigns + 1 .. Len(trail) : Var(trail[n]) = Var(x)
    BY <1>3, <1>6 DEF VarsOf
  <2>2. n \in 1 .. Len(trail)
    BY <1>1
  <2>3. x \in Settled' \/ -x \in Settled'
    BY <1>1, <1>2, <1>5, <2>1, <2>2
  <2>4. QED
    BY <1>4, <1>6, <2>3
<1>7. CASE Var(x) \notin VarsOf(ToSet(late))
  <2>1. SUFFICES ASSUME x \in Settled' \/ -x \in Settled' PROVE watches[x] = {}
    BY <1>4, <1>7
  <2>2. PICK n \in 1 .. Len(trail) : trail[n] = x \/ trail[n] = -x
    BY <1>2, <2>1
  <2>3. Var(trail[n]) = Var(x)
    BY <1>1, <1>5, <2>2
  <2>4. n \notin simpDB_assigns + 1 .. Len(trail)
    BY <1>3, <1>7, <2>3 DEF VarsOf
  <2>5. n \in 1 .. simpDB_assigns
    BY <1>1, <2>4
  <2>6. x \in Settled \/ -x \in Settled
    BY <2>2, <2>5 DEF Settled
  <2>7. QED
    BY <1>0, <2>6 DEF Lists
<1>8. QED
  BY <1>6, <1>7

\* What simplifyDB keeps though it is true heads the trail with its first literal.
LEMMA LockedFacts ==
  ASSUME IInv, NEW a \in DOMAIN db, locked(a)
  PROVE  \E n \in DOMAIN trail : db[a].first = trail[n]
<1>1. a # 0 /\ Var(db[a].first) \in Variable /\ reason[Var(db[a].first)] = a
  BY StateFacts, ClauseFacts, LiteralFacts DEF locked
<1>2. PICK n \in DOMAIN trail : Var(trail[n]) = Var(db[a].first)
  BY <1>1, StateFacts, TrailFacts DEF Reasoned
<1>3. Implies(trail, db, a, n)
  BY <1>1, <1>2, StateFacts, TrailFacts DEF Reasoned
<1>4. QED
  BY <1>3 DEF Implies

LEMMA SimplifyWInv ==
  ASSUME IInv, WInv, ok, decisionLevel = 0, qhead = Len(trail), NEW next, Simplify(next),
         UNCHANGED <<session, trail, trail_lim, qhead, todo, confl>>
  PROVE  WInv'
<1> DEFINE gone == {a \in DOMAIN db : ~locked(a) /\ \E x \in db[a].lits : IsTrue(x)}
<1>1. CASE UNCHANGED memory
  BY <1>1, QuietWInv DEF memory
<1>2. CASE Drop(gone, Cleared) /\ simpDB_assigns' = Len(trail) /\ ok' = ok
  <2>1. Bottom /\ DOMAIN trail = 1 .. Len(trail) /\ Len(trail) \in Nat /\ DOMAIN trail_lim = {}
    BY StateFacts DEF WInv
  <2>2. \A x \in Literal :
          Cleared[x] = IF x \in Settled' \/ -x \in Settled' THEN {} ELSE watches[x]
    BY <1>2, ClearedFacts
  <2>3. Settled' = ToSet(trail)
    BY <1>2, <2>1 DEF Settled, ToSet
  <2>4. ASSUME NEW a \in DOMAIN db \ gone, \E x \in db[a].lits : x \in Settled'
        PROVE  db[a].first \in Settled'
    <3>1. locked(a)
      BY <2>3, <2>4 DEF IsTrue
    <3>2. \E n \in DOMAIN trail : db[a].first = trail[n]
      BY <3>1, LockedFacts
    <3>3. QED
      BY <2>3, <3>2 DEF ToSet
  <2>5. simpDB_assigns' \in 0 .. qhead /\ simpDB_assigns <= simpDB_assigns'
    BY <1>2, <2>1, SettledFacts
  <2>6. gone \in SUBSET DOMAIN db
    OBVIOUS
  <2> HIDE DEF gone
  <2>7. QED
    BY <1>2, <2>1, <2>2, <2>4, <2>5, <2>6, DroppedWInv
<1>3. QED
  BY <1>1, <1>2 DEF Simplify

LEMMA SimplifyDBWInv == IInv /\ WInv /\ SimplifyDB => WInv'
<1> SUFFICES ASSUME IInv, WInv, SimplifyDB PROVE WInv'
  OBVIOUS
<1>1. At("simplifyDB") /\ confl = 0 /\ Simplify("assume")
      /\ UNCHANGED <<session, trail, trail_lim, qhead, todo, confl>>
  BY DEF SimplifyDB, assignment, propagation
<1>2. qhead = Len(trail) /\ decisionLevel = 0 /\ ok
  BY <1>1, Propagated DEF At, IInv, Calls, WInv, Bottom
<1>3. QED
  BY <1>1, <1>2, SimplifyWInv

LEMMA SearchSimplifyWInv == IInv /\ WInv /\ SearchSimplify => WInv'
<1> SUFFICES ASSUME IInv, WInv, SearchSimplify PROVE WInv'
  OBVIOUS
<1>1. At("search") /\ confl = 0 /\ decisionLevel = 0 /\ Simplify("simplified")
      /\ UNCHANGED <<session, trail, trail_lim, qhead, todo, confl>>
  BY DEF SearchSimplify, Ready, assignment, propagation
<1>2. qhead = Len(trail) /\ ok
  BY <1>1, Propagated DEF At, WInv, Bottom
<1>3. QED
  BY <1>1, <1>2, SimplifyWInv

-----------------------------------------------------------------------------
\* A clause none of whose literals is settled enters the lists it watches.
LEMMA RememberedLists ==
  ASSUME IInv, Lists, NEW c, NEW f \in Literal, NEW s \in Literal, NEW lits,
         c = Clause(c.learnt, f, s, lits, c.id), f # s,
         \A x \in lits \cup {f, -f, s, -s} : x \notin Settled,
         db' = [a \in DOMAIN db \cup {Address} |-> IF a = Address THEN c ELSE db[a]],
         watches' = Watching(c, Address),
         session' = session, Settled' = Settled
  PROVE  /\ Lists'
         /\ DOMAIN db' = DOMAIN db \cup {Address} /\ Address \notin DOMAIN db
         /\ \A a \in DOMAIN db : db'[a] = db[a]
         /\ db'[Address].first = f /\ db'[Address].second = s
<1> DEFINE n == Address
<1>1. session \in Session /\ n \notin DOMAIN db
  BY StateFacts, AddressIsFree DEF IInv, Memory
<1>2. c.first = f /\ c.second = s /\ c.lits = lits
  BY DEF Clause
<1>3. /\ DOMAIN db' = DOMAIN db \cup {n} /\ db'[n] = c /\ \A a \in DOMAIN db : db'[a] = db[a]
      /\ watches' = [watches EXCEPT ![-f] = @ \cup {n}, ![-s] = @ \cup {n}]
  BY <1>1, <1>2 DEF Watching
<1> HIDE DEF n
<1>4. -f \in Literal /\ -s \in Literal /\ -(-f) = f /\ -(-s) = s
  BY <1>1, LiteralFacts
<1>5. DOMAIN watches = Literal
  BY DEF IInv, Memory
<1>6. \A x \in Literal : watches'[x] = IF x \in {-f, -s} THEN watches[x] \cup {n} ELSE watches[x]
  BY <1>3, <1>4, <1>5
<1>7. \A a \in DOMAIN db' : db'[a].first # db'[a].second
  BY <1>2, <1>3 DEF Lists
<1>8. ASSUME NEW x \in Literal, x \in Settled \/ -x \in Settled PROVE watches'[x] = {}
  <2>1. watches[x] = {}
    BY <1>8 DEF Lists
  <2>2. x \notin {-f, -s}
    BY <1>4, <1>8
  <2>3. QED
    BY <1>6, <2>1, <2>2
<1>9. ASSUME NEW a \in DOMAIN db', NEW w \in {db'[a].first, db'[a].second},
             w \notin Settled, -w \notin Settled
      PROVE  a \in watches'[-w]
  <2>1. CASE a = n
    <3>1. w \in {f, s}
      BY <1>2, <1>3, <2>1
    <3>2. -w \in {-f, -s} /\ -w \in Literal
      BY <1>4, <3>1
    <3>3. QED
      BY <1>6, <2>1, <3>2
  <2>2. CASE a \in DOMAIN db
    <3>1. w \in {db[a].first, db[a].second}
      BY <1>3, <2>2
    <3>2. a \in watches[-w] /\ w \in Literal
      BY <1>9, <2>2, <3>1, ClauseFacts DEF Lists
    <3>3. -w \in Literal
      BY <1>1, <3>2, LiteralFacts
    <3>4. QED
      BY <1>6, <3>2, <3>3
  <2>3. QED
    BY <1>3, <2>1, <2>2
<1>10. \A a \in DOMAIN db' : (\E x \in db'[a].lits : x \in Settled) => db'[a].first \in Settled
  BY <1>2, <1>3 DEF Lists
<1>11. Literal' = Literal
  BY DEF Literal, Variable
<1>12. Lists'
  <2>1. \A x \in Literal : x \in Settled \/ -x \in Settled => watches'[x] = {}
    BY <1>8
  <2>2. \A a \in DOMAIN db' : \A w \in {db'[a].first, db'[a].second} :
          w \in Settled \/ -w \in Settled \/ a \in watches'[-w]
    BY <1>9
  <2>3. /\ \A x \in Literal' : x \in Settled' \/ -x \in Settled' => watches'[x] = {}
        /\ \A a \in DOMAIN db' : \A w \in {db'[a].first, db'[a].second} :
             w \in Settled' \/ -w \in Settled' \/ a \in watches'[-w]
        /\ \A a \in DOMAIN db' : (\E x \in db'[a].lits : x \in Settled') => db'[a].first \in Settled'
    <3>1. \A x : x \in Settled' <=> x \in Settled
      OBVIOUS
    <3>2. \A x \in Literal : x \in Settled' \/ -x \in Settled' => watches'[x] = {}
      BY <2>1, <3>1
    <3>3. \A x \in Literal' : x \in Settled' \/ -x \in Settled' => watches'[x] = {}
      BY <1>11, <3>2, Zenon
    <3>4. \A a \in DOMAIN db' : \A w \in {db'[a].first, db'[a].second} :
             w \in Settled' \/ -w \in Settled' \/ a \in watches'[-w]
      BY <2>2, <3>1
    <3>5. \A a \in DOMAIN db' :
            (\E x \in db'[a].lits : x \in Settled') => db'[a].first \in Settled'
      BY <1>10, <3>1
    <3>6. QED
      BY <3>3, <3>4, <3>5
  <2>4. QED
    BY <1>7, <2>3, Zenon DEF Lists
<1>13. QED
  BY <1>1, <1>2, <1>3, <1>12 DEF n

\* A clause or a fact is added at the top.
LEMMA AddedWInv ==
  ASSUME IInv, WInv, confl = 0, ok' => ok, pc' = "idle",
         UNCHANGED <<session, trail_lim, qhead, todo, confl, root_level, simpDB_assigns>>,
         \A n \in DOMAIN trail : n \in DOMAIN trail' /\ trail'[n] = trail[n],
         DOMAIN trail' \subseteq Nat \ {0},
         Lists',
         \A a \in DOMAIN db' :
           \/ a \in DOMAIN db /\ db'[a] = db[a]
           \/ \A w \in {db'[a].first, db'[a].second} : w \in Literal /\ ~IsFalse(w)
  PROVE  WInv'
<1>0. Bottom /\ Guarded
  BY DEF WInv
<1>1. Bottom'
  BY <1>0 DEF Bottom
<1>2. ASSUME NEW a, NEW m \in DOMAIN trail', Done(a, m)'
      PROVE  m \in DOMAIN trail /\ trail'[m] = trail[m] /\ Done(a, m)
  <2>1. m < qhead \/ (m = qhead /\ a \notin todo)
    BY <1>2 DEF Done
  <2>2. QED
    BY <1>2, <2>1, StateFacts DEF Done
<1>3. \A n \in DOMAIN trail : \A m : Stays(n, m)
  BY DEF Stays, Outlives
<1>4. Guarded'
  <2>1. ASSUME NEW a \in DOMAIN db', NEW w \in Literal, NEW u \in Literal, NEW m \in DOMAIN trail',
               {w, u} = {db'[a].first, db'[a].second}, trail'[m] = -w, Done(a, m)'
        PROVE  /\ a \in DOMAIN db /\ {w, u} = {db[a].first, db[a].second}
               /\ m \in DOMAIN trail /\ trail[m] = -w /\ Done(a, m)
               /\ \A n \in DOMAIN trail : Stays(n, m)
    <3>1. m \in DOMAIN trail /\ trail[m] = -w /\ Done(a, m)
      BY <1>2, <2>1
    <3>2. IsFalse(w)
      BY <3>1 DEF IsFalse, ToSet
    <3>3. a \in DOMAIN db /\ db'[a] = db[a]
      BY <2>1, <3>2
    <3>4. QED
      BY <1>3, <2>1, <3>1, <3>3
  <2>2. QED
    BY <1>0, <2>1, GuardedNext
<1>5. QED
  BY <1>1, <1>4 DEF WInv

LEMMA AddClauseWInv == IInv /\ WInv /\ AddClause => WInv'
<1> SUFFICES ASSUME IInv, WInv, AddClause PROVE WInv'
  OBVIOUS
<1> USE DEF memory, assignment, propagation
<1> DEFINE qs   == session.clauses[given + 1]
           kept == {x \in qs : ~IsFalse(x)}
           unit == First(kept)
           next == First(kept \ {unit})
<1>1. PICK id :
        \/ UNCHANGED <<memory, assignment>>
        \/ /\ ok' = (kept # {})
           /\ ok
           /\ IF Cardinality(kept) > 1
              THEN /\ db' = [a \in DOMAIN db \cup {Address} |->
                               IF a = Address THEN Clause(FALSE, unit, next, kept, id) ELSE db[a]]
                   /\ watches' = Watching(Clause(FALSE, unit, next, kept, id), Address)
              ELSE UNCHANGED <<db, watches>>
           /\ trail' \in {trail, Append(trail, unit)}
           /\ Cardinality(kept) # 1 => trail' = trail
           /\ UNCHANGED <<trail_lim, qhead, simpDB_assigns>>
           /\ \A x \in qs : ~IsTrue(x)
  BY ZenonT(60) DEF AddClause
<1>2. /\ pc = "idle" /\ given < Len(session.clauses) /\ pc' = "idle"
      /\ UNCHANGED <<session, propagation, root_level>>
  BY DEF AddClause
<1>3. /\ session \in Session /\ confl = 0 /\ Bottom /\ Lists
      /\ trail \in Seq(Literal) /\ DOMAIN trail = 1 .. Len(trail) /\ Len(trail) \in Nat
  BY <1>2, StateFacts, TrailFacts DEF IInv, Queue, WInv, Divided
<1>4. qs \subseteq Literal
  <2>1. given + 1 \in 1 .. Len(session.clauses)
    BY <1>2, <1>3, CallFacts DEF IInv, Calls
  <2>2. QED
    BY <1>3, <2>1, CallFacts
<1> HIDE DEF qs
<1>5. CASE UNCHANGED <<memory, assignment>>
  BY <1>2, <1>5, QuietWInv
<1>6. CASE /\ ok' = (kept # {})
           /\ ok
           /\ IF Cardinality(kept) > 1
              THEN /\ db' = [a \in DOMAIN db \cup {Address} |->
                               IF a = Address THEN Clause(FALSE, unit, next, kept, id) ELSE db[a]]
                   /\ watches' = Watching(Clause(FALSE, unit, next, kept, id), Address)
              ELSE UNCHANGED <<db, watches>>
           /\ trail' \in {trail, Append(trail, unit)}
           /\ Cardinality(kept) # 1 => trail' = trail
           /\ UNCHANGED <<trail_lim, qhead, simpDB_assigns>>
           /\ \A x \in qs : ~IsTrue(x)
  <2>1. kept \in SUBSET Literal /\ \A x \in kept : ~IsTrue(x) /\ ~IsFalse(x)
    BY <1>4, <1>6
  <2>2. \A x \in kept : x \in Literal /\ -x \in Literal /\ x \notin Settled /\ -x \notin Settled
    BY <1>3, <2>1, LiteralFacts, SettledFacts
  <2>3. \A n \in DOMAIN trail : n \in DOMAIN trail' /\ trail'[n] = trail[n]
    BY <1>3, <1>6
  <2>4. DOMAIN trail' \subseteq Nat \ {0}
    <3>1. DOMAIN trail' \subseteq 1 .. Len(trail) + 1
      BY <1>3, <1>6
    <3>2. QED
      BY <1>3, <3>1
  <2>5. Settled' = Settled
    BY <1>3, <1>6, <2>3, SettledFacts, SettledNext
  <2>6. Cardinality(kept) > 1 => next \in kept /\ unit \in kept /\ next # unit
    <3>1. SUFFICES ASSUME Cardinality(kept) > 1 PROVE next \in kept /\ unit \in kept /\ next # unit
      OBVIOUS
    <3>2. kept # {} /\ kept # {unit}
      <4> HIDE DEF kept, unit
      <4>1. Cardinality({}) = 0 /\ Cardinality({unit}) = 1
        BY FS_EmptySet, FS_Singleton
      <4>2. QED
        BY <3>1, <4>1
    <3>3. unit \in kept
      BY <1>3, <2>1, <3>2, FirstMember
    <3>4. kept \ {unit} \in SUBSET Literal /\ kept \ {unit} # {}
      BY <2>1, <3>2, <3>3
    <3> HIDE DEF unit, kept
    <3>5. next \in kept \ {unit}
      BY <1>3, <3>4, FirstMember
    <3>6. QED
      BY <3>3, <3>5
  <2>7. ok' => ok
    BY <1>6
  <2> HIDE DEF kept, unit, next
  <2>8. CASE Cardinality(kept) > 1
    <3> DEFINE c == Clause(FALSE, unit, next, kept, id)
    <3>1. /\ db' = [a \in DOMAIN db \cup {Address} |-> IF a = Address THEN c ELSE db[a]]
          /\ watches' = Watching(c, Address)
      BY <1>6, <2>8
    <3>2. c = Clause(c.learnt, unit, next, kept, c.id)
      BY DEF Clause
    <3>3. \A x \in kept \cup {unit, -unit, next, -next} : x \notin Settled
      BY <2>2, <2>6, <2>8
    <3>4. unit \in Literal /\ next \in Literal /\ ~IsFalse(unit) /\ ~IsFalse(next) /\ unit # next
      BY <2>1, <2>6, <2>8
    <3> HIDE DEF c
    <3>5. session' = session
      BY <1>2
    <3>6. /\ Lists'
          /\ DOMAIN db' = DOMAIN db \cup {Address} /\ Address \notin DOMAIN db
          /\ \A a \in DOMAIN db : db'[a] = db[a]
          /\ db'[Address].first = unit /\ db'[Address].second = next
      BY <1>3, <2>5, <3>1, <3>2, <3>3, <3>4, <3>5, RememberedLists
    <3>7. QED
      BY <1>2, <1>3, <1>6, <2>3, <2>4, <2>7, <3>4, <3>6, AddedWInv
  <2>9. CASE ~(Cardinality(kept) > 1)
    <3>1. UNCHANGED <<db, watches>>
      BY <1>6, <2>9
    <3>2. Lists'
      BY <1>2, <1>3, <2>5, <3>1, KeepLists
    <3>3. QED
      BY <1>2, <1>3, <1>6, <2>3, <2>4, <2>7, <3>1, <3>2, AddedWInv
  <2>10. QED
    BY <2>8, <2>9
<1>7. QED
  BY <1>1, <1>5, <1>6

-----------------------------------------------------------------------------
\* What is false at a level of its own is not settled.
LEMMA FalseUnsettled ==
  ASSUME IInv, Bottom, NEW x \in Literal, IsFalse(x), level[Var(x)] # 0
  PROVE  x \notin Settled /\ -x \notin Settled
<1>1. session \in Session /\ Assigned /\ Levelled(trail, trail_lim, level, root_level)
      /\ Len(trail_lim) \in Nat /\ DOMAIN trail_lim = 1 .. Len(trail_lim)
      /\ DOMAIN trail \subseteq Nat /\ simpDB_assigns \in Nat
      /\ \A k \in DOMAIN trail_lim : trail_lim[k] \in Nat
  BY StateFacts, TrailFacts, SettledFacts DEF decisionLevel
<1>2. PICK m \in DOMAIN trail : trail[m] = -x /\ x = -trail[m] /\ Var(trail[m]) = Var(x)
  BY <1>1, FalseFacts
<1> DEFINE L == level[Var(trail[m])]
<1>3. L \in 0 .. Len(trail_lim) /\ L # 0 /\ \A k \in DOMAIN trail_lim : trail_lim[k] < m <=> k <= L
  BY <1>1, <1>2 DEF Levelled
<1> HIDE DEF L
<1>4. L \in DOMAIN trail_lim /\ L <= L
  BY <1>1, <1>3
<1>5. trail_lim[L] < m /\ simpDB_assigns <= trail_lim[L]
  BY <1>3, <1>4 DEF Bottom
<1>6. ~(m <= simpDB_assigns)
  BY <1>1, <1>4, <1>5
<1>7. QED
  BY <1>2, <1>6, SettledFacts

(***************************************************************************)
(* The clause learnt is watched where it is true now and at a literal of   *)
(* the highest level: it is unit until that level is left.                 *)
(***************************************************************************)
LEMMA LearnWInv == IInv /\ WInv /\ Learn => WInv'
<1> SUFFICES ASSUME IInv, WInv, Learn PROVE WInv'
  OBVIOUS
<1> DEFINE x    == analyze.uip
           rest == analyze.rest
           K    == Max({analyze.back, root_level})
           lits == {x} \cup rest
           id   == IF session.logged THEN LastId(analyze.log) ELSE 0
           t    == Cut(K)
           N    == Len(t)
<1>1. /\ At("search") /\ confl # 0 /\ decisionLevel > root_level
      /\ trail' = Append(t, x)
      /\ trail_lim' = SubSeq(trail_lim, 1, K)
      /\ qhead' = N
      /\ IF rest = {} THEN UNCHANGED <<db, watches>>
         ELSE \E y \in SecondWatch(rest) :
                LET c == Clause(TRUE, x, y, lits, id) IN
                /\ db' = [b \in DOMAIN db \cup {Address} |-> IF b = Address THEN c ELSE db[b]]
                /\ watches' = Watching(c, Address)
      /\ confl' = 0
      /\ UNCHANGED <<session, ok, simpDB_assigns, todo, root_level, pc>>
  BY DEF Learn
<1>2. todo = {} /\ pc = "search" /\ ok /\ Bottom /\ Lists /\ Guarded
  <2>1. todo = {} /\ pc = "search" /\ decisionLevel # 0
    BY <1>1, Propagated, StateFacts DEF At
  <2>2. QED
    BY <1>1, <2>1 DEF WInv, Bottom
<1>3. /\ Conflicting /\ session \in Session /\ Assigned /\ decisionLevel \in Nat /\ root_level \in Nat
      /\ Divided(trail, trail_lim) /\ Levelled(trail, trail_lim, level, root_level)
      /\ level \in [Variable -> Int] /\ DOMAIN trail_lim = 1 .. decisionLevel
  BY <1>1, ConflictFacts, StateFacts, TrailFacts DEF Conflicting
<1>4. /\ x \in Literal /\ IsFalse(x) /\ level[Var(x)] = decisionLevel
      /\ rest \subseteq Below
      /\ K \in 0 .. decisionLevel /\ K < decisionLevel /\ root_level <= K
      /\ \A y \in rest : level[Var(y)] \in 1 .. K
      /\ K > root_level => \E y \in rest : level[Var(y)] = K
  <2>1. K = Max({analyze.back, root_level})
    OBVIOUS
  <2> HIDE DEF K
  <2>2. QED
    BY <1>3, <2>1, AnalyzeFacts
<1> HIDE DEF x, rest, K, id
<1>5. N \in Nat /\ DOMAIN t = 1 .. N /\ t \in Seq(Literal) /\ N <= Len(trail)
  BY <1>3, <1>4, CutFacts
<1>6. /\ DOMAIN trail' = 1 .. N + 1 /\ trail'[N + 1] = x
      /\ \A n \in DOMAIN t : n \in DOMAIN trail' /\ trail'[n] = t[n]
  BY <1>1, <1>4, <1>5
<1>7. Backed(K)
  BY <1>1, <1>4, <1>6 DEF Backed
<1> HIDE DEF t, N
<1>8. N = Len(Cut(K)) /\ \A n \in 1 .. N : n \in DOMAIN trail /\ trail'[n] = trail[n]
  BY <1>7, BackedFacts DEF N, t
<1>9. /\ Settled' = Settled /\ simpDB_assigns <= N
      /\ \A k \in DOMAIN trail_lim' : simpDB_assigns' <= trail_lim'[k]
  BY <1>1, <1>2, <1>7, <1>8, BackedSettled
<1>10. Bottom'
  <2>1. simpDB_assigns' \in 0 .. qhead'
    BY <1>1, <1>2, <1>5, <1>9, SettledFacts
  <2>2. QED
    BY <1>1, <1>2, <1>9, <2>1 DEF Bottom
<1>11. x \notin Settled /\ -x \notin Settled
  BY <1>2, <1>3, <1>4, FalseUnsettled
<1>12. ASSUME NEW y \in rest
       PROVE  /\ y \in Literal /\ y \notin Settled /\ -y \notin Settled /\ y # x
              /\ \A n \in DOMAIN trail : trail[n] = -y => LevelOf(n) = level[Var(y)]
  <2>1. y \in Literal /\ IsFalse(y) /\ level[Var(y)] \in 1 .. K
    BY <1>4, <1>12 DEF Below
  <2>2. level[Var(y)] # 0 /\ level[Var(y)] # decisionLevel
    BY <1>3, <1>4, <2>1
  <2>3. y \notin Settled /\ -y \notin Settled
    BY <1>2, <2>1, <2>2, FalseUnsettled
  <2>4. \A n \in DOMAIN trail : trail[n] = -y => LevelOf(n) = level[Var(y)]
    BY <1>3, <2>1, FalseFacts DEF LevelOf
  <2>5. QED
    BY <1>4, <2>1, <2>2, <2>3, <2>4
<1>13. ASSUME NEW m \in DOMAIN trail', NEW a, Done(a, m)'
       PROVE  m \in 1 .. N /\ m \in DOMAIN trail /\ trail'[m] = trail[m] /\ Done(a, m)
  <2>1. m \in Nat /\ m >= 1 /\ m <= N
    BY <1>1, <1>5, <1>6, <1>13 DEF Done
  <2>2. K + 1 \in DOMAIN trail_lim /\ N = trail_lim[K + 1]
    BY <1>3, <1>4, <1>7, <1>8, BackedFacts
  <2>3. Done(a, m)
    BY <1>1, <2>1, <2>2 DEF Done
  <2>4. QED
    BY <1>5, <1>8, <2>1, <2>3
<1>14. \A n \in DOMAIN trail : \A m \in 1 .. N : Stays(n, m)
  BY <1>5, <1>7, <1>8, BackedStays
<1>15. CASE rest = {}
  <2>1. UNCHANGED <<db, watches>>
    BY <1>1, <1>15
  <2>2. Lists'
    BY <1>1, <1>2, <1>9, <2>1, KeepLists
  <2>3. Guarded'
    <3>1. ASSUME NEW a \in DOMAIN db', NEW w \in Literal, NEW u \in Literal, NEW m \in DOMAIN trail',
                 {w, u} = {db'[a].first, db'[a].second}, trail'[m] = -w, Done(a, m)'
          PROVE  /\ a \in DOMAIN db /\ {w, u} = {db[a].first, db[a].second}
                 /\ m \in DOMAIN trail /\ trail[m] = -w /\ Done(a, m)
                 /\ \A n \in DOMAIN trail : Stays(n, m)
      BY <1>13, <1>14, <2>1, <3>1
    <3>2. session' = session /\ (ok' => ok)
      BY <1>1
    <3>3. QED
      BY <1>2, <3>1, <3>2, GuardedNext
  <2>4. QED
    BY <1>10, <2>2, <2>3 DEF WInv
<1>16. CASE rest # {}
  <2>1. PICK y \in SecondWatch(rest) :
          LET c == Clause(TRUE, x, y, lits, id) IN
          /\ db' = [b \in DOMAIN db \cup {Address} |-> IF b = Address THEN c ELSE db[b]]
          /\ watches' = Watching(c, Address)
    BY <1>1, <1>16
  <2>2. /\ y \in rest /\ y \in Literal /\ y \notin Settled /\ -y \notin Settled /\ y # x
        /\ \A n \in DOMAIN trail : trail[n] = -y => LevelOf(n) = level[Var(y)]
        /\ \A z \in rest : level[Var(z)] <= level[Var(y)]
    BY <1>12 DEF SecondWatch
  <2> DEFINE c == Clause(TRUE, x, y, lits, id)
  <2>3. /\ db' = [b \in DOMAIN db \cup {Address} |-> IF b = Address THEN c ELSE db[b]]
        /\ watches' = Watching(c, Address)
        /\ c = Clause(c.learnt, x, y, lits, c.id)
    BY <2>1 DEF Clause
  <2>4. \A z \in lits \cup {x, -x, y, -y} : z \notin Settled
    BY <1>11, <1>12, <2>2
  <2> HIDE DEF c, lits
  <2>5. /\ Lists'
        /\ DOMAIN db' = DOMAIN db \cup {Address} /\ Address \notin DOMAIN db
        /\ \A a \in DOMAIN db : db'[a] = db[a]
        /\ db'[Address].first = x /\ db'[Address].second = y
    BY <1>1, <1>2, <1>4, <1>9, <2>2, <2>3, <2>4, RememberedLists, ZenonT(60)
  <2>6. ASSUME NEW m \in 1 .. N, trail[m] = -y, NEW n PROVE Outlives(n, m)'
    <3> DEFINE L == level[Var(y)]
    <3>1. m \in DOMAIN trail /\ LevelOf(m) = L /\ L \in 1 .. K
      BY <1>4, <1>8, <2>2, <2>6
    <3>2. \A k \in DOMAIN trail_lim : trail_lim[k] < m <=> k <= L
      BY <1>3, <3>1 DEF Levelled, LevelOf
    <3>3. K > root_level => L = K
      <4>1. SUFFICES ASSUME K > root_level PROVE L = K
        OBVIOUS
      <4>2. PICK z \in rest : level[Var(z)] = K
        BY <1>4, <4>1
      <4>3. K <= L
        BY <2>2, <4>2
      <4>4. QED
        BY <1>3, <1>4, <3>1, <4>3
    <3>4. ASSUME NEW k \in DOMAIN trail_lim', k = 1 \/ k > root_level'
          PROVE  trail_lim'[k] < m
      <4>1. k \in 1 .. K /\ trail_lim'[k] = trail_lim[k] /\ K \in Nat
        BY <1>7, BackedFacts
      <4>2. k \in DOMAIN trail_lim /\ root_level' = root_level
        BY <1>1, <1>3, <1>4, <4>1
      <4>3. k <= L
        BY <1>3, <3>1, <3>3, <3>4, <4>1, <4>2
      <4>4. QED
        BY <3>2, <4>1, <4>2, <4>3
    <3>5. QED
      BY <3>4 DEF Outlives
  <2>7. ASSUME NEW a \in DOMAIN db', NEW w \in Literal, NEW u \in Literal, NEW m \in DOMAIN trail',
               {w, u} = {db'[a].first, db'[a].second}, trail'[m] = -w, Done(a, m)', ok'
        PROVE  \/ \E n \in DOMAIN trail' : trail'[n] = u /\ Outlives(n, m)'
               \/ /\ a \in DOMAIN db /\ {w, u} = {db[a].first, db[a].second}
                  /\ m \in DOMAIN trail /\ trail[m] = -w /\ Done(a, m)
                  /\ \A n \in DOMAIN trail : Stays(n, m)
    <3>1. m \in 1 .. N /\ m \in DOMAIN trail /\ trail[m] = -w /\ Done(a, m)
      BY <1>13, <2>7
    <3>2. CASE a \in DOMAIN db
      BY <1>14, <2>5, <2>7, <3>1, <3>2
    <3>3. CASE a = Address
      <4>1. w \in {x, y} /\ (w = y => u = x)
        BY <2>2, <2>5, <2>7, <3>3
      <4>2. w # x
        <5>1. SUFFICES ASSUME trail[m] = -x PROVE FALSE
          BY <3>1
        <5>2. LevelOf(m) = decisionLevel
          BY <1>3, <1>4, <3>1, <5>1, FalseFacts DEF LevelOf
        <5>3. m \in DOMAIN Cut(K)
          BY <1>5, <3>1 DEF t
        <5>4. LevelOf(m) \in 0 .. K
          BY <1>3, <1>4, <3>1, <5>3, CutLevels
        <5>5. QED
          BY <1>3, <1>4, <5>2, <5>4
      <4>3. w = y /\ u = x
        BY <4>1, <4>2
      <4>4. PICK n \in DOMAIN trail' : trail'[n] = u
        BY <1>5, <1>6, <4>3
      <4>5. Outlives(n, m)'
        BY <2>6, <3>1, <4>3
      <4>6. QED
        BY <4>4, <4>5
    <3>4. QED
      BY <2>5, <3>2, <3>3
  <2>8. Guarded'
    BY <1>1, <1>2, <2>7, GuardedNext
  <2>9. QED
    BY <1>10, <2>5, <2>8 DEF WInv
<1>17. QED
  BY <1>15, <1>16

-----------------------------------------------------------------------------
\* Every step keeps it.
LEMMA NextWInv == IInv /\ WInv /\ [Next]_vars => WInv'
<1> SUFFICES ASSUME IInv, WInv, [Next]_vars PROVE WInv'
  OBVIOUS
<1>1. CASE AddClause
  BY <1>1, AddClauseWInv
<1>2. CASE Solve
  BY <1>2, SolveWInv
<1>3. CASE Propagate
  BY <1>3, TakeNextWInv, VisitSatisfiedWInv, VisitNewWatchWInv, VisitUnitWInv DEF Propagate
<1>4. CASE SimplifyConflict
  BY <1>4, SimplifyConflictWInv
<1>5. CASE SimplifyDB
  BY <1>5, SimplifyDBWInv
<1>6. CASE Assume
  BY <1>6, AssumeWInv
<1>7. CASE AssumeFalse
  BY <1>7, AssumeFalseWInv
<1>8. CASE AssumeConflict
  BY <1>8, AssumeConflictWInv
<1>9. CASE StartSearch
  BY <1>9, StartSearchWInv
<1>10. CASE Learn
  BY <1>10, LearnWInv
<1>11. CASE SearchConflict
  BY <1>11, SearchConflictWInv
<1>12. CASE Restart
  BY <1>12, RestartWInv
<1>13. CASE SearchSimplify
  BY <1>13, SearchSimplifyWInv
<1>14. CASE ReduceDB
  BY <1>14, ReduceDBWInv
<1>15. CASE Decide
  BY <1>15, DecideWInv
<1>16. CASE FindModel
  BY <1>16, FindModelWInv
<1>17. CASE Terminating
  BY <1>17, StutterWInv DEF Terminating
<1>18. CASE UNCHANGED vars
  BY <1>18, StutterWInv
<1>19. QED
  BY <1>1, <1>2, <1>3, <1>4, <1>5, <1>6, <1>7, <1>8, <1>9, <1>10, <1>11, <1>12, <1>13, <1>14,
     <1>15, <1>16, <1>17, <1>18 DEF Next

LEMMA SpecWInv == Spec => [](IInv /\ WInv)
<1>1. Init => WInv
  BY InitWInv
<1>2. IInv /\ WInv /\ [Next]_vars => WInv'
  BY NextWInv
<1>3. QED
  BY <1>1, <1>2, SpecIInv, PTL DEF Spec

\* A clause that is neither satisfied nor has two literals left was visited.
LEMMA AllVisited ==
  ASSUME IInv, WInv, ok, todo = {}, qhead = Len(trail), confl = 0, NEW a \in DOMAIN db,
         NEW w \in Literal, NEW u \in Literal, {w, u} = {db[a].first, db[a].second}, IsFalse(w)
  PROVE  IsTrue(u)
<1>1. PICK m \in DOMAIN trail : trail[m] = -w
  BY StateFacts, FalseFacts
<1>2. Done(a, m)
  BY <1>1, StateFacts DEF Done
<1>3. \E n \in DOMAIN trail : trail[n] = u
  BY <1>1, <1>2 DEF WInv, Guarded
<1>4. QED
  BY <1>3 DEF IsTrue, ToSet

LEMMA NothingMissedHolds == IInv /\ WInv => NothingMissed
<1> SUFFICES ASSUME IInv, WInv, ~Propagating, confl = 0, pc \notin {"idle", "assert"},
                    NEW a \in DOMAIN db, \A x \in db[a].lits : ~IsTrue(x)
             PROVE  Cardinality({x \in db[a].lits : ~IsFalse(x)}) > 1
  BY DEF NothingMissed
<1> DEFINE f == db[a].first
           s == db[a].second
           free == {x \in db[a].lits : ~IsFalse(x)}
<1>1. ok /\ todo = {} /\ qhead = Len(trail) /\ session \in Session
  BY StateFacts DEF WInv, Bottom, Propagating
<1>2. f \in db[a].lits /\ s \in db[a].lits /\ f \in Literal /\ s \in Literal /\ f # s
  BY ClauseFacts DEF WInv, Lists
<1>3. ~IsFalse(f) /\ ~IsFalse(s)
  BY <1>1, <1>2, AllVisited
<1>4. {f, s} \subseteq free /\ free \subseteq Literal
  BY <1>2, <1>3, ClauseFacts
<1> HIDE DEF f, s, free
<1>5. IsFiniteSet(free)
  BY <1>1, <1>4, LiteralsFinite, FS_Subset
<1>6. Cardinality({f, s}) = 2
  <2>1. IsFiniteSet({f}) /\ Cardinality({f}) = 1
    BY FS_Singleton
  <2>2. Cardinality({f} \cup {s}) = 2
    <3>1. s \notin {f}
      BY <1>2
    <3>2. Cardinality({f} \cup {s}) = Cardinality({f}) + 1
      BY <2>1, <3>1, FS_AddElement
    <3>3. QED
      BY <2>1, <3>2
  <2>3. {f, s} = {f} \cup {s}
    OBVIOUS
  <2>4. QED
    BY <2>2, <2>3
<1>7. Cardinality({f, s}) <= Cardinality(free)
  BY <1>4, <1>5, FS_Subset
<1>8. Cardinality(free) \in Nat
  BY <1>5, FS_CardinalityType
<1>9. QED
  BY <1>6, <1>7, <1>8 DEF free

(***************************************************************************)
(* When propagate ends with no conflict, no clause is false or unit: the   *)
(* two watched literals are enough, across decisions, learnt clauses,      *)
(* clauses dropped and levels taken back.                                  *)
(***************************************************************************)
THEOREM PropagationComplete == Spec => []NothingMissed
<1>1. IInv /\ WInv => NothingMissed
  BY NothingMissedHolds
<1>2. QED
  BY <1>1, SpecWInv, PTL

-----------------------------------------------------------------------------
(***************************************************************************)
(* What an answer SAT rests on.  A variable without a value is in the heap *)
(* (order), where select finds it.                                         *)
(***************************************************************************)
Heap ==
  /\ order \subseteq Variable
  /\ \A v \in Variable : IsUndef(v) => v \in order

(***************************************************************************)
(* The assumptions made are true, and stay so until one is taken back,     *)
(* which search does not do.                                               *)
(***************************************************************************)
Made ==
  InQuery =>
    \A k \in DOMAIN trail_lim : k <= root_level =>
      \E n \in DOMAIN trail :
        /\ trail[n] = assumps[k]
        /\ \A j \in DOMAIN trail_lim : j > root_level => n <= trail_lim[j]

\* The n-th literal of the trail was there before any decision.
Fixed(n) == n \in DOMAIN trail /\ \A k \in DOMAIN trail_lim : n <= trail_lim[k]

\* The clauses that are not learnt, and the literals before any decision.
Basis(v) ==
  /\ \A a \in DOMAIN db : ~db[a].learnt => Satisfies(v, db[a].lits)
  /\ \A n \in DOMAIN trail : Fixed(n) => True(v, trail[n])

\* They say all that the clauses given say, as long as ok.
Kept == ok => \A v \in [Variable -> BOOLEAN] : Basis(v) => SatisfiesAll(v, Formula)

RInv == Heap /\ Made /\ Kept

\* A clause is kept, or is satisfied for good.
Spared(a) ==
  \/ a \in DOMAIN db' /\ ~db'[a].learnt /\ db'[a].lits = db[a].lits
  \/ \E n \in DOMAIN trail' : Fixed(n)' /\ trail'[n] \in db[a].lits

StillFixed(n) == Fixed(n) => Fixed(n)' /\ trail'[n] = trail[n]

LEMMA BasisNext ==
  ASSUME \A a \in DOMAIN db : ~db[a].learnt => Spared(a),
         \A n \in DOMAIN trail : StillFixed(n), NEW v, Basis(v)'
  PROVE  Basis(v)
<1>1. ASSUME NEW a \in DOMAIN db, ~db[a].learnt PROVE Satisfies(v, db[a].lits)
  <2>1. CASE a \in DOMAIN db' /\ ~db'[a].learnt /\ db'[a].lits = db[a].lits
    BY <2>1 DEF Basis
  <2>2. CASE \E n \in DOMAIN trail' : Fixed(n)' /\ trail'[n] \in db[a].lits
    BY <2>2 DEF Basis, Satisfies
  <2>3. QED
    BY <1>1, <2>1, <2>2 DEF Spared
<1>2. ASSUME NEW n \in DOMAIN trail, Fixed(n) PROVE True(v, trail[n])
  <2>1. Fixed(n)' /\ trail'[n] = trail[n]
    BY <1>2 DEF StillFixed
  <2>2. n \in DOMAIN trail'
    BY <2>1 DEF Fixed
  <2>3. QED
    BY <2>1, <2>2 DEF Basis
<1>3. QED
  BY <1>1, <1>2 DEF Basis

LEMMA KeptNext ==
  ASSUME Kept, session' = session, given' = given, ok' => ok,
         \A a \in DOMAIN db : ~db[a].learnt => Spared(a),
         \A n \in DOMAIN trail : StillFixed(n)
  PROVE  Kept'
<1>1. Variable' = Variable /\ Formula' = Formula
  BY DEF Variable, Formula
<1>2. \A v : Basis(v)' => Basis(v)
  BY BasisNext
<1>3. QED
  BY <1>1, <1>2 DEF Kept

\* A variable has no value as long as none was given to it.
LEMMA UndefFacts ==
  ASSUME IInv, NEW v \in Variable
  PROVE  IsUndef(v) <=> \A n \in DOMAIN trail : Var(trail[n]) # v
<1>1. session \in Session /\ Assigned /\ v \in Literal /\ Var(v) = v
  BY StateFacts, LiteralFacts
<1>2. \A n \in DOMAIN trail : Var(trail[n]) = v <=> (trail[n] = v \/ trail[n] = -v)
  BY <1>1, StateFacts, LiteralFacts
<1>3. QED
  BY <1>2 DEF IsUndef, IsTrue, IsFalse, ToSet

\* Its literals were assigned, and still are.
LEMMA StillAssigned ==
  ASSUME IInv, NEW v \in Variable, IsUndef(v)', NEW n \in DOMAIN trail,
         n \in DOMAIN trail' /\ trail'[n] = trail[n]
  PROVE  Var(trail[n]) # v
<1>1. session \in Session /\ trail[n] \in Literal /\ v \in Literal /\ Var(v) = v
  BY StateFacts, LiteralFacts
<1>2. trail[n] # v /\ trail[n] # -v
  BY DEF IsUndef, IsTrue, IsFalse, ToSet
<1>3. QED
  BY <1>1, <1>2, LiteralFacts

LEMMA InitRInv == Init => RInv
<1> SUFFICES ASSUME Init PROVE RInv
  OBVIOUS
<1> USE DEF Init
<1>1. Heap
  BY DEF Heap
<1>2. Made
  BY DEF Made, InQuery
<1>3. Kept
  <2>1. Formula = {}
    BY DEF Formula
  <2>2. QED
    BY <2>1 DEF Kept, SatisfiesAll
<1>4. QED
  BY <1>1, <1>2, <1>3 DEF RInv

\* Steps that take nothing back and open no level.
LEMMA GrownRInv ==
  ASSUME IInv, RInv, UNCHANGED <<session, given, trail_lim, order>>, ok' => ok,
         \A n \in DOMAIN trail : n \in DOMAIN trail' /\ trail'[n] = trail[n],
         \A a \in DOMAIN db : ~db[a].learnt => Spared(a),
         InQuery' => \/ InQuery /\ UNCHANGED <<root_level, answers>>
                     \/ decisionLevel = 0
  PROVE  RInv'
<1>1. Variable' = Variable
  BY DEF Variable
<1>2. Heap'
  <2>1. ASSUME NEW v \in Variable, IsUndef(v)' PROVE v \in order
    <3>1. \A n \in DOMAIN trail : Var(trail[n]) # v
      BY <2>1, StillAssigned
    <3>2. QED
      BY <3>1, UndefFacts DEF RInv, Heap
  <2>2. QED
    BY <1>1, <2>1 DEF RInv, Heap
<1>3. Made'
  <2>1. CASE InQuery /\ UNCHANGED <<root_level, answers>>
    <3>1. assumps' = assumps
      BY <2>1 DEF assumps
    <3>2. QED
      BY <2>1, <3>1 DEF RInv, Made
  <2>2. CASE decisionLevel = 0
    BY <2>2, StateFacts DEF Made
  <2>3. CASE ~InQuery'
    BY <2>3 DEF Made
  <2>4. QED
    BY <2>1, <2>2, <2>3
<1>4. \A n \in DOMAIN trail : StillFixed(n)
  BY DEF StillFixed, Fixed
<1>5. Kept'
  BY <1>4, KeptNext DEF RInv
<1>6. QED
  BY <1>2, <1>3, <1>5 DEF RInv

\* The clauses in memory stay as they are, but for the order of their literals.
LEMMA SameSpared ==
  ASSUME NEW a \in DOMAIN db, ~db[a].learnt,
         a \in DOMAIN db', db'[a].learnt = db[a].learnt, db'[a].lits = db[a].lits
  PROVE  Spared(a)
  BY DEF Spared

LEMMA QuietRInv ==
  ASSUME IInv, RInv, UNCHANGED <<session, given, db, trail, trail_lim, order>>, ok' => ok,
         InQuery' => \/ InQuery /\ UNCHANGED <<root_level, answers>>
                     \/ decisionLevel = 0
  PROVE  RInv'
<1>1. \A a \in DOMAIN db : ~db[a].learnt => Spared(a)
  BY SameSpared
<1>2. QED
  BY <1>1, GrownRInv

LEMMA SolveRInv == IInv /\ RInv /\ Solve => RInv'
  BY QuietRInv DEF Solve, memory, assignment, InQuery, Answer

LEMMA SimplifyConflictRInv == IInv /\ RInv /\ SimplifyConflict => RInv'
<1> SUFFICES ASSUME IInv, RInv, SimplifyConflict PROVE RInv'
  OBVIOUS
<1>1. ~InQuery' /\ (ok' => ok) /\ UNCHANGED <<session, given, db, trail, trail_lim, order>>
  BY DEF SimplifyConflict, assignment, InQuery, Answer
<1>2. QED
  BY <1>1, QuietRInv

LEMMA StartSearchRInv == IInv /\ RInv /\ StartSearch => RInv'
<1> SUFFICES ASSUME IInv, RInv, StartSearch PROVE RInv'
  OBVIOUS
<1>1. InQuery /\ UNCHANGED <<session, given, ok, db, trail, trail_lim, order, root_level, answers>>
  BY DEF StartSearch, memory, assignment, InQuery, At
<1>2. QED
  BY <1>1, QuietRInv

LEMMA StutterRInv == IInv /\ RInv /\ UNCHANGED vars => RInv'
<1> SUFFICES ASSUME IInv, RInv, UNCHANGED vars PROVE RInv'
  OBVIOUS
<1>1. UNCHANGED <<session, given, ok, db, trail, trail_lim, order, root_level, answers, pc>>
  BY DEF vars, memory, assignment
<1>2. InQuery' <=> InQuery
  BY <1>1 DEF InQuery
<1>3. QED
  BY <1>1, <1>2, QuietRInv

LEMMA TakeNextRInv == IInv /\ RInv /\ TakeNext => RInv'
<1> SUFFICES ASSUME IInv, RInv, TakeNext PROVE RInv'
  OBVIOUS
<1>1. UNCHANGED <<session, given, ok, db, trail, trail_lim, order, root_level, answers, pc>>
  BY DEF TakeNext, memory
<1>2. InQuery' <=> InQuery
  BY <1>1 DEF InQuery
<1>3. QED
  BY <1>1, <1>2, QuietRInv

\* Where the watched literals of one clause change.
LEMMA VisitedRInv ==
  ASSUME IInv, RInv, NEW a \in DOMAIN db, NEW f, NEW s,
         db' = [db EXCEPT ![a] = Clause(db[a].learnt, f, s, db[a].lits, db[a].id)],
         UNCHANGED <<session, given, trail_lim, order, root_level, answers>>, ok' => ok,
         trail' = trail \/ trail' = Append(trail, f), pc' \in {pc, "assert"}
  PROVE  RInv'
<1>1. /\ DOMAIN db' = DOMAIN db /\ \A b \in DOMAIN db : b # a => db'[b] = db[b]
      /\ db'[a].learnt = db[a].learnt /\ db'[a].lits = db[a].lits
  BY DEF Clause
<1>2. \A b \in DOMAIN db : ~db[b].learnt => Spared(b)
  BY <1>1, SameSpared
<1>3. \A n \in DOMAIN trail : n \in DOMAIN trail' /\ trail'[n] = trail[n]
  BY StateFacts, TrailFacts DEF Divided
<1>4. InQuery' => InQuery
  BY DEF InQuery
<1>5. QED
  BY <1>2, <1>3, <1>4, GrownRInv

LEMMA VisitSatisfiedRInv == IInv /\ RInv /\ VisitSatisfied => RInv'
<1> SUFFICES ASSUME IInv, RInv, VisitSatisfied PROVE RInv'
  OBVIOUS
<1>1. PICK a \in todo : db' = [db EXCEPT ![a] = Turned(a)]
  BY DEF VisitSatisfied
<1>2. a \in DOMAIN db /\ Turned(a) = Clause(db[a].learnt, Turned(a).first, Turned(a).second, db[a].lits, db[a].id)
  BY VisitFacts
<1>3. UNCHANGED <<session, given, trail, trail_lim, order, root_level, answers, ok, pc>>
  BY DEF VisitSatisfied, assignment
<1>4. QED
  BY <1>1, <1>2, <1>3, VisitedRInv

LEMMA VisitNewWatchRInv == IInv /\ RInv /\ VisitNewWatch => RInv'
<1> SUFFICES ASSUME IInv, RInv, VisitNewWatch PROVE RInv'
  OBVIOUS
<1>1. PICK a \in todo : \E x : db' = [db EXCEPT ![a] = [Turned(a) EXCEPT !.second = x]]
  BY DEF VisitNewWatch
<1>2. PICK x : db' = [db EXCEPT ![a] = [Turned(a) EXCEPT !.second = x]]
  BY <1>1
<1>3. a \in DOMAIN db /\ Turned(a) = Clause(db[a].learnt, Turned(a).first, Turned(a).second, db[a].lits, db[a].id)
  BY VisitFacts
<1>4. [Turned(a) EXCEPT !.second = x] = Clause(db[a].learnt, Turned(a).first, x, db[a].lits, db[a].id)
  BY <1>3 DEF Clause
<1>5. UNCHANGED <<session, given, trail, trail_lim, order, root_level, answers, ok, pc>>
  BY DEF VisitNewWatch, assignment
<1>6. QED
  BY <1>2, <1>3, <1>4, <1>5, VisitedRInv

LEMMA VisitUnitRInv == IInv /\ RInv /\ VisitUnit => RInv'
<1> SUFFICES ASSUME IInv, RInv, VisitUnit PROVE RInv'
  OBVIOUS
<1>1. PICK a \in todo :
        /\ db' = [db EXCEPT ![a] = Turned(a)]
        /\ IF IsFalse(Turned(a).first)
           THEN ok' = (ok /\ decisionLevel # 0) /\ trail' = trail
           ELSE ok' = ok /\ trail' = Append(trail, Turned(a).first)
        /\ pc' \in {pc, "assert"}
  BY DEF VisitUnit
<1>1a. (trail' = trail \/ trail' = Append(trail, Turned(a).first)) /\ (ok' => ok)
  <2>1. CASE IsFalse(Turned(a).first)
    BY <1>1, <2>1
  <2>2. CASE ~IsFalse(Turned(a).first)
    BY <1>1, <2>2
  <2>3. QED
    BY <2>1, <2>2
<1>2. a \in DOMAIN db /\ Turned(a) = Clause(db[a].learnt, Turned(a).first, Turned(a).second, db[a].lits, db[a].id)
  BY VisitFacts
<1>3. UNCHANGED <<session, given, trail_lim, order, root_level, answers>>
  BY DEF VisitUnit
<1>4. QED
  BY <1>1, <1>1a, <1>2, <1>3, VisitedRInv

-----------------------------------------------------------------------------
\* Clauses are dropped that are learnt, or true for good.
LEMMA DroppedRInv ==
  ASSUME IInv, RInv, NEW gone, NEW lists, Drop(gone, lists),
         UNCHANGED <<session, given, trail, trail_lim, order>>, ok' => ok,
         \A a \in gone \cap DOMAIN db : ~db[a].learnt =>
           \E n \in DOMAIN trail : Fixed(n) /\ trail[n] \in db[a].lits,
         InQuery' => \/ InQuery /\ UNCHANGED <<root_level, answers>>
                     \/ decisionLevel = 0
  PROVE  RInv'
<1>1. \A a \in DOMAIN db : a \in gone \/ (a \in DOMAIN db' /\ db'[a] = db[a])
  BY DEF Drop
<1>2. \A n : Fixed(n)' <=> Fixed(n)
  BY DEF Fixed
<1>3. \A a \in DOMAIN db : ~db[a].learnt => Spared(a)
  BY <1>1, <1>2 DEF Spared
<1>4. QED
  BY <1>3, GrownRInv

LEMMA ReduceDBRInv == IInv /\ RInv /\ ReduceDB => RInv'
<1> SUFFICES ASSUME IInv, RInv, ReduceDB PROVE RInv'
  OBVIOUS
<1>1. PICK gone \in SUBSET Learnts : Drop(gone, watches)
  BY DEF ReduceDB
<1>2. UNCHANGED <<session, given, ok, trail, trail_lim, order, root_level, answers>> /\ Tidy
  BY DEF ReduceDB, assignment
<1>3. \A a \in gone : db[a].learnt
  BY DEF Learnts
<1>4. InQuery
  BY <1>2 DEF InQuery, Tidy, Ready, At
<1>5. QED
  BY <1>1, <1>2, <1>3, <1>4, DroppedRInv

LEMMA SimplifyRInv ==
  ASSUME IInv, RInv, decisionLevel = 0, NEW next, Simplify(next),
         UNCHANGED <<session, given, trail, trail_lim, order>>
  PROVE  RInv'
<1> DEFINE gone == {a \in DOMAIN db : ~locked(a) /\ \E x \in db[a].lits : IsTrue(x)}
<1>1. CASE UNCHANGED memory
  BY <1>1, QuietRInv DEF memory
<1>2. CASE Drop(gone, Cleared) /\ ok' = ok
  <2>1. \A n \in DOMAIN trail : Fixed(n)
    BY StateFacts DEF Fixed
  <2>2. \A a \in gone : \E n \in DOMAIN trail : Fixed(n) /\ trail[n] \in db[a].lits
    BY <2>1 DEF IsTrue, ToSet
  <2> HIDE DEF gone
  <2>3. QED
    BY <1>2, <2>2, DroppedRInv
<1>3. QED
  BY <1>1, <1>2 DEF Simplify

LEMMA SimplifyDBRInv == IInv /\ RInv /\ SimplifyDB => RInv'
<1> SUFFICES ASSUME IInv, RInv, SimplifyDB PROVE RInv'
  OBVIOUS
<1>1. decisionLevel = 0
  BY DEF SimplifyDB, At, IInv, Calls
<1>2. QED
  BY <1>1, SimplifyRInv DEF SimplifyDB, assignment

LEMMA SearchSimplifyRInv == IInv /\ RInv /\ SearchSimplify => RInv'
  BY SimplifyRInv DEF SearchSimplify, assignment

-----------------------------------------------------------------------------
\* What was assigned before any decision is not taken back.
LEMMA BackedFixed ==
  ASSUME IInv, NEW l, Backed(l), NEW n \in DOMAIN trail
  PROVE  StillFixed(n)
<1> SUFFICES ASSUME Fixed(n) PROVE Fixed(n)' /\ trail'[n] = trail[n]
  BY DEF StillFixed
<1>1. n \in Nat /\ n >= 1 /\ n <= Len(trail) /\ Len(trail) \in Nat /\ decisionLevel \in Nat
  BY StateFacts
<1>2. n \in 1 .. Len(Cut(l))
  <2>1. CASE l = decisionLevel
    BY <1>1, <2>1, BackedFacts
  <2>2. CASE l < decisionLevel
    <3>1. l + 1 \in DOMAIN trail_lim /\ Len(Cut(l)) = trail_lim[l + 1]
      BY <2>2, BackedFacts
    <3>2. n <= trail_lim[l + 1]
      BY <3>1 DEF Fixed
    <3>3. QED
      BY <1>1, <3>1, <3>2, BackedFacts
  <2>3. QED
    BY <1>1, <2>1, <2>2, BackedFacts
<1>3. n \in DOMAIN trail' /\ trail'[n] = trail[n]
  BY <1>2, BackedFacts
<1>4. \A k \in DOMAIN trail_lim' : n <= trail_lim'[k]
  <2>1. \A k \in DOMAIN trail_lim' : k \in DOMAIN trail_lim /\ trail_lim'[k] = trail_lim[k]
    <3>1. /\ l \in Nat /\ l <= decisionLevel /\ DOMAIN trail_lim' = 1 .. l
          /\ \A k \in 1 .. l : trail_lim'[k] = trail_lim[k]
      BY BackedFacts
    <3>2. DOMAIN trail_lim = 1 .. decisionLevel
      BY StateFacts
    <3>3. QED
      BY <1>1, <3>1, <3>2
  <2>2. QED
    BY <2>1 DEF Fixed
<1>5. QED
  BY <1>3, <1>4 DEF Fixed

\* A variable that has no value after that is in the heap again.
LEMMA BackedHeap ==
  ASSUME IInv, Heap, NEW l, Backed(l), order' = Heaped(l), session' = session
  PROVE  Heap'
<1>1. l \in 0 .. decisionLevel /\ Divided(trail, trail_lim) /\ Len(trail) \in Nat
  BY StateFacts, TrailFacts DEF Backed
<1>2. /\ Undone(l) = {Var(trail[n]) : n \in Len(Cut(l)) + 1 .. Len(trail)}
      /\ Len(Cut(l)) \in 0 .. Len(trail)
  BY <1>1, CutFacts
<1>3. order' = order \cup Undone(l) /\ Variable' = Variable
  BY DEF Heaped, Variable
<1>4. order' \subseteq Variable
  <2>1. Undone(l) \subseteq Variable
    BY <1>1, <1>2, StateFacts
  <2>2. QED
    BY <1>3, <2>1 DEF Heap
<1>5. ASSUME NEW v \in Variable, IsUndef(v)' PROVE v \in order'
  <2>1. CASE IsUndef(v)
    BY <1>3, <2>1 DEF Heap
  <2>2. CASE ~IsUndef(v)
    <3>1. PICK n \in DOMAIN trail : Var(trail[n]) = v
      BY <2>2, UndefFacts
    <3>2. n \notin 1 .. Len(Cut(l))
      BY <1>5, <3>1, StillAssigned, BackedFacts
    <3>3. n \in Len(Cut(l)) + 1 .. Len(trail)
      BY <1>1, <1>2, <3>1, <3>2, StateFacts
    <3>4. QED
      BY <1>2, <1>3, <3>1, <3>3
  <2>3. QED
    BY <2>1, <2>2
<1>6. QED
  BY <1>3, <1>4, <1>5 DEF Heap

\* The assumptions made are still, if search goes on.
LEMMA BackedMade ==
  ASSUME IInv, Made, NEW l, Backed(l), session' = session,
         InQuery' => InQuery /\ root_level <= l /\ UNCHANGED <<root_level, answers>>
  PROVE  Made'
<1> SUFFICES ASSUME InQuery', NEW k \in DOMAIN trail_lim', k <= root_level'
             PROVE  \E n \in DOMAIN trail' :
                      /\ trail'[n] = assumps'[k]
                      /\ \A j \in DOMAIN trail_lim' : j > root_level' => n <= trail_lim'[j]
  BY DEF Made
<1>1. InQuery /\ root_level <= l /\ root_level' = root_level /\ assumps' = assumps
  BY DEF assumps
<1>2. \A j \in DOMAIN trail_lim' : j \in DOMAIN trail_lim /\ trail_lim'[j] = trail_lim[j]
  BY StateFacts, BackedFacts
<1>3. PICK n \in DOMAIN trail :
        /\ trail[n] = assumps[k]
        /\ \A j \in DOMAIN trail_lim : j > root_level => n <= trail_lim[j]
  BY <1>1, <1>2 DEF Made
<1>4. n \in 1 .. Len(Cut(l))
  <2>1. n \in Nat /\ n >= 1 /\ n <= Len(trail) /\ root_level \in Nat /\ decisionLevel \in Nat /\ l \in Nat
        /\ l <= decisionLevel /\ Len(Cut(l)) \in Nat
    BY StateFacts, BackedFacts
  <2>2. CASE l = decisionLevel
    BY <2>1, <2>2, BackedFacts
  <2>3. CASE l < decisionLevel
    <3>1. l + 1 \in DOMAIN trail_lim /\ Len(Cut(l)) = trail_lim[l + 1]
      BY <2>3, BackedFacts
    <3>2. n <= trail_lim[l + 1]
      BY <1>1, <1>3, <2>1, <3>1
    <3>3. QED
      BY <2>1, <3>1, <3>2
  <2>4. QED
    BY <2>1, <2>2, <2>3
<1>5. n \in DOMAIN trail' /\ trail'[n] = trail[n]
  BY <1>4, BackedFacts
<1>6. QED
  BY <1>1, <1>2, <1>3, <1>5

LEMMA BackedRInv ==
  ASSUME IInv, RInv, NEW l, Backed(l), order' = Heaped(l),
         UNCHANGED <<session, given>>, ok' => ok,
         \A a \in DOMAIN db : ~db[a].learnt => Spared(a),
         InQuery' => InQuery /\ root_level <= l /\ UNCHANGED <<root_level, answers>>
  PROVE  RInv'
<1>1. Heap'
  BY BackedHeap DEF RInv
<1>2. Made'
  BY BackedMade DEF RInv
<1>3. Kept'
  BY BackedFixed, KeptNext DEF RInv
<1>4. QED
  BY <1>1, <1>2, <1>3 DEF RInv

LEMMA CancelledBacked ==
  ASSUME IInv, NEW l \in 0 .. decisionLevel, cancelUntil(l),
         l = 0 \/ (l = root_level /\ root_level' = root_level)
  PROVE  Backed(l)
<1>1. trail' = Cut(l) /\ trail_lim' = SubSeq(trail_lim, 1, l)
  BY DEF cancelUntil
<1>2. root_level \in Nat
  BY StateFacts
<1>3. QED
  BY <1>1, <1>2 DEF Backed

LEMMA CancelledRInv ==
  ASSUME IInv, RInv, NEW l \in 0 .. decisionLevel, cancelUntil(l),
         l = 0 \/ (l = root_level /\ root_level' = root_level),
         UNCHANGED <<session, given, ok, db>>,
         InQuery' => InQuery /\ root_level <= l /\ UNCHANGED <<root_level, answers>>
  PROVE  RInv'
<1>1. Backed(l)
  BY CancelledBacked
<1>2. order' = Heaped(l)
  BY DEF cancelUntil
<1>3. \A a \in DOMAIN db : ~db[a].learnt => Spared(a)
  BY SameSpared
<1>4. QED
  BY <1>1, <1>2, <1>3, BackedRInv

LEMMA RestartRInv == IInv /\ RInv /\ Restart => RInv'
<1> SUFFICES ASSUME IInv, RInv, Restart PROVE RInv'
  OBVIOUS
<1>1. pc = "search" /\ cancelUntil(root_level)
      /\ UNCHANGED <<session, given, ok, db, root_level, answers, pc>>
  BY DEF Restart, Ready, At, memory
<1>2. InQuery /\ root_level \in 0 .. decisionLevel /\ root_level <= root_level
  BY <1>1, StateFacts DEF InQuery, IInv, Calls
<1>3. QED
  BY <1>1, <1>2, CancelledRInv

\* The query is answered, or an assertion fails.
LEMMA AnsweredRInv ==
  ASSUME IInv, RInv, cancelUntil(0), UNCHANGED <<session, given, ok, db>>,
         pc' \in {"idle", "assert"}
  PROVE  RInv'
<1>1. 0 \in 0 .. decisionLevel /\ ~InQuery'
  BY StateFacts DEF InQuery
<1>2. QED
  BY <1>1, CancelledRInv

LEMMA FindModelRInv == IInv /\ RInv /\ FindModel => RInv'
  BY AnsweredRInv DEF FindModel, memory, Answer

LEMMA SearchConflictRInv == IInv /\ RInv /\ SearchConflict => RInv'
  BY AnsweredRInv DEF SearchConflict, Answer

LEMMA AssumeConflictRInv == IInv /\ RInv /\ AssumeConflict => RInv'
<1> SUFFICES ASSUME IInv, RInv, AssumeConflict PROVE RInv'
  OBVIOUS
<1>1. pc' \in {"idle", "assert"}
  BY DEF AssumeConflict, Answer
<1>2. QED
  BY <1>1, AnsweredRInv DEF AssumeConflict

LEMMA AssumeFalseRInv == IInv /\ RInv /\ AssumeFalse => RInv'
<1> SUFFICES ASSUME IInv, RInv, AssumeFalse PROVE RInv'
  OBVIOUS
<1>1. pc' \in {"idle", "assert"}
  BY DEF AssumeFalse, Answer
<1>2. QED
  BY <1>1, AnsweredRInv DEF AssumeFalse

\* search goes back, to the assumptions or above.
LEMMA LearnBacked ==
  ASSUME IInv, Learn, NEW K, K = Max({analyze.back, root_level})
  PROVE  K \in 0 .. decisionLevel /\ root_level <= K /\ Backed(K)
<1> DEFINE x == analyze.uip
           t == Cut(K)
<1>1. /\ confl # 0 /\ decisionLevel > root_level
      /\ trail' = Append(t, x)
      /\ trail_lim' = SubSeq(trail_lim, 1, K)
      /\ root_level' = root_level
  BY DEF Learn
<1>2. K \in 0 .. decisionLevel /\ root_level <= K
  <2>1. Conflicting
    BY <1>1 DEF Conflicting
  <2>2. QED
    BY <2>1, AnalyzeFacts
<1> HIDE DEF x
<1>3. t \in Seq(Literal)
  BY <1>2, StateFacts, TrailFacts, CutFacts
<1>4. \A n \in DOMAIN t : n \in DOMAIN trail' /\ trail'[n] = t[n]
  BY <1>1, <1>3
<1>5. QED
  BY <1>1, <1>2, <1>4 DEF Backed

\* search goes back, and what it learnt is not among the clauses given.
LEMMA LearnRInv == IInv /\ RInv /\ Learn => RInv'
<1> SUFFICES ASSUME IInv, RInv, Learn PROVE RInv'
  OBVIOUS
<1> DEFINE K == Max({analyze.back, root_level})
<1>1. /\ At("search")
      /\ order' = Heaped(K)
      /\ \A a \in DOMAIN db : a # Address => a \in DOMAIN db' /\ db'[a] = db[a]
      /\ UNCHANGED <<session, given, ok, root_level, answers, pc>>
  BY ZenonT(60) DEF Learn
<1>2. InQuery' <=> InQuery
  BY <1>1 DEF InQuery
<1>3. Address \notin DOMAIN db
  BY AddressIsFree, StateFacts DEF IInv, Memory
<1>4. \A a \in DOMAIN db : ~db[a].learnt => Spared(a)
  BY <1>1, <1>3 DEF Spared
<1>5. K = Max({analyze.back, root_level})
  OBVIOUS
<1> HIDE DEF K
<1>6. root_level <= K /\ Backed(K)
  BY <1>5, LearnBacked
<1>7. QED
  BY <1>1, <1>2, <1>4, <1>6, BackedRInv

-----------------------------------------------------------------------------
\* A level is opened, for the next assumption or above all of them.
LEMMA OpenedRInv ==
  ASSUME IInv, RInv, trail_lim' = Append(trail_lim, Len(trail)),
         trail' = trail \/ \E x \in Literal : trail' = Append(trail, x),
         UNCHANGED <<session, given, ok, db, root_level, answers>>,
         Heap', InQuery' => InQuery,
         decisionLevel < root_level =>
           \E n \in DOMAIN trail' : trail'[n] = assumps[decisionLevel + 1]
  PROVE  RInv'
<1>1. /\ Len(trail) \in Nat /\ DOMAIN trail = 1 .. Len(trail) /\ trail \in Seq(Literal)
      /\ trail_lim \in Seq(Nat) /\ decisionLevel \in Nat /\ DOMAIN trail_lim = 1 .. decisionLevel
      /\ root_level \in Nat
  BY StateFacts, TrailFacts DEF Divided
<1>2. \A n \in DOMAIN trail : n \in DOMAIN trail' /\ trail'[n] = trail[n] /\ n \in Nat /\ n <= Len(trail)
  BY <1>1
<1>3. /\ DOMAIN trail_lim' = 1 .. decisionLevel + 1
      /\ trail_lim'[decisionLevel + 1] = Len(trail)
      /\ \A k \in 1 .. decisionLevel : trail_lim'[k] = trail_lim[k]
  BY <1>1 DEF decisionLevel
<1>4. \A k \in DOMAIN trail_lim' :
        \/ k \in DOMAIN trail_lim /\ trail_lim'[k] = trail_lim[k]
        \/ k = decisionLevel + 1 /\ trail_lim'[k] = Len(trail)
  BY <1>1, <1>3
<1>5. \A n \in DOMAIN trail : StillFixed(n)
  BY <1>2, <1>4 DEF StillFixed, Fixed
<1>6. Kept'
  <2>1. \A a \in DOMAIN db : ~db[a].learnt => Spared(a)
    BY SameSpared
  <2>2. QED
    BY <1>5, <2>1, KeptNext DEF RInv
<1>7. Made'
  <2>1. SUFFICES ASSUME InQuery', NEW k \in DOMAIN trail_lim', k <= root_level
                 PROVE  \E n \in DOMAIN trail' :
                          /\ trail'[n] = assumps[k]
                          /\ \A j \in DOMAIN trail_lim' : j > root_level => n <= trail_lim'[j]
    BY DEF Made, assumps
  <2>2. CASE k \in DOMAIN trail_lim
    <3>1. PICK n \in DOMAIN trail :
            /\ trail[n] = assumps[k]
            /\ \A j \in DOMAIN trail_lim : j > root_level => n <= trail_lim[j]
      BY <2>1, <2>2 DEF RInv, Made
    <3>2. \A j \in DOMAIN trail_lim' : j > root_level => n <= trail_lim'[j]
      BY <1>2, <1>4, <3>1
    <3>3. QED
      BY <1>2, <3>1, <3>2
  <2>3. CASE k = decisionLevel + 1
    <3>1. PICK n \in DOMAIN trail' : trail'[n] = assumps[k]
      BY <1>1, <2>1, <2>3
    <3>2. \A j \in DOMAIN trail_lim' : ~(j > root_level)
      BY <1>1, <1>3, <2>1, <2>3
    <3>3. QED
      BY <3>1, <3>2
  <2>4. QED
    BY <1>4, <2>2, <2>3
<1>8. QED
  BY <1>6, <1>7 DEF RInv

LEMMA AssumeRInv == IInv /\ RInv /\ Assume => RInv'
<1> SUFFICES ASSUME IInv, RInv, Assume PROVE RInv'
  OBVIOUS
<1> DEFINE x == assumps[decisionLevel + 1]
<1>1. /\ At("assume") /\ decisionLevel < root_level
      /\ trail_lim' = Append(trail_lim, Len(trail))
      /\ IF IsTrue(x) THEN trail' = trail ELSE trail' = Append(trail, x)
      /\ UNCHANGED <<session, given, ok, db, root_level, answers, order, pc>>
  BY DEF Assume, memory
<1>2. x \in Literal
  BY <1>1, AssumptionFacts
<1> HIDE DEF x
<1>3. /\ Len(trail) \in Nat /\ DOMAIN trail = 1 .. Len(trail) /\ trail \in Seq(Literal)
  BY StateFacts, TrailFacts DEF Divided
<1>4. \E n \in DOMAIN trail' : trail'[n] = x
  <2>1. CASE IsTrue(x)
    BY <1>1, <2>1 DEF IsTrue, ToSet
  <2>2. CASE ~IsTrue(x)
    <3>1. Len(trail) + 1 \in DOMAIN trail' /\ trail'[Len(trail) + 1] = x
      BY <1>1, <1>2, <1>3, <2>2
    <3>2. QED
      BY <3>1
  <2>3. QED
    BY <2>1, <2>2
<1>5. \A n \in DOMAIN trail : n \in DOMAIN trail' /\ trail'[n] = trail[n]
  BY <1>1, <1>2, <1>3
<1>6. Heap'
  <2>1. Variable' = Variable
    BY <1>1 DEF Variable
  <2>2. ASSUME NEW v \in Variable, IsUndef(v)' PROVE v \in order
    <3>1. \A n \in DOMAIN trail : Var(trail[n]) # v
      BY <1>5, <2>2, StillAssigned
    <3>2. QED
      BY <3>1, UndefFacts DEF RInv, Heap
  <2>3. QED
    BY <1>1, <2>1, <2>2 DEF RInv, Heap
<1>7. InQuery' <=> InQuery
  BY <1>1 DEF InQuery
<1>8. trail' = trail \/ \E y \in Literal : trail' = Append(trail, y)
  BY <1>1, <1>2
<1>9. QED
  BY <1>1, <1>4, <1>6, <1>7, <1>8, OpenedRInv DEF x

LEMMA DecideRInv == IInv /\ RInv /\ Decide => RInv'
<1> SUFFICES ASSUME IInv, RInv, Decide PROVE RInv'
  OBVIOUS
<1>1. PICK v \in Selectable :
        /\ order' = {u \in order \ {v} : IsUndef(u)}
        /\ trail_lim' = Append(trail_lim, Len(trail)) /\ trail' = Append(trail, -v)
  BY DEF Decide
<1>2. Deciding /\ pc' = "search" /\ UNCHANGED <<session, given, ok, db, root_level, answers>>
  BY DEF Decide, memory
<1>3. pc \in {"search", "simplified", "decide"}
  BY <1>2 DEF Deciding, Tidy, Ready, At
<1>4. /\ Len(trail) \in Nat /\ DOMAIN trail = 1 .. Len(trail) /\ trail \in Seq(Literal)
      /\ session \in Session /\ decisionLevel \in Nat /\ root_level \in Nat
  BY StateFacts, TrailFacts DEF Divided
<1>5. -v \in Literal
  BY <1>1, <1>4, LiteralFacts DEF Selectable
<1>6. /\ \A n \in DOMAIN trail : n \in DOMAIN trail' /\ trail'[n] = trail[n]
      /\ -v \in ToSet(trail')
  <2>1. \A n \in DOMAIN trail : n \in DOMAIN trail' /\ trail'[n] = trail[n]
    BY <1>1, <1>4, <1>5
  <2>2. Len(trail) + 1 \in DOMAIN trail' /\ trail'[Len(trail) + 1] = -v
    BY <1>1, <1>4, <1>5
  <2>3. QED
    BY <2>1, <2>2 DEF ToSet
<1>7. Heap'
  <2>1. Variable' = Variable
    BY <1>2 DEF Variable
  <2>2. ASSUME NEW u \in Variable, IsUndef(u)' PROVE u \in order'
    <3>1. \A n \in DOMAIN trail : Var(trail[n]) # u
      BY <1>6, <2>2, StillAssigned
    <3>2. IsUndef(u) /\ u \in order
      BY <3>1, UndefFacts DEF RInv, Heap
    <3>3. u # v
      BY <1>6, <2>2 DEF IsUndef, IsFalse
    <3>4. QED
      BY <1>1, <3>2, <3>3
  <2>3. QED
    BY <1>1, <2>1, <2>2 DEF RInv, Heap
<1>8. InQuery /\ ~(decisionLevel < root_level)
  BY <1>3, <1>4 DEF InQuery, IInv, Calls
<1>9. \E x \in Literal : trail' = Append(trail, x)
  BY <1>1, <1>5
<1>10. QED
  BY <1>1, <1>2, <1>7, <1>8, <1>9, OpenedRInv

\* The clause added is in memory, or true for good, or leaves one literal.
LEMMA AddClauseRInv == IInv /\ RInv /\ AddClause => RInv'
<1> SUFFICES ASSUME IInv, RInv, AddClause PROVE RInv'
  OBVIOUS
<1> USE DEF memory, assignment, propagation
<1> DEFINE qs   == session.clauses[given + 1]
           kept == {x \in qs : ~IsFalse(x)}
           unit == First(kept)
           next == First(kept \ {unit})
           root == IF session.logged THEN addRoot(proof, qs) ELSE proof
           id   == LogId(root, LastId(root), UnitSteps(qs \ kept))
           c    == Clause(FALSE, unit, next, kept, id)
<1>1.   \/ /\ ~ok \/ IsTautology(qs) \/ \E x \in qs : IsTrue(x)
           /\ UNCHANGED <<memory, assignment>>
        \/ /\ ok' = (kept # {})
           /\ ok
           /\ IF Cardinality(kept) > 1
              THEN db' = [a \in DOMAIN db \cup {Address} |->
                            IF a = Address THEN c ELSE db[a]]
              ELSE UNCHANGED db
           /\ IF Cardinality(kept) = 1 THEN trail' = Append(trail, unit) ELSE trail' = trail
           /\ UNCHANGED <<trail_lim, order>>
  BY DEF AddClause
<1>1a. ~c.learnt /\ c.lits = kept
  BY DEF Clause
<1> HIDE DEF c
<1>2. /\ pc = "idle" /\ pc' = "idle" /\ given < Len(session.clauses) /\ given' = given + 1
      /\ UNCHANGED <<session, root_level, answers>>
  BY DEF AddClause
<1>3. /\ session \in Session /\ Heap /\ Kept
      /\ trail \in Seq(Literal) /\ DOMAIN trail = 1 .. Len(trail) /\ Len(trail) \in Nat
      /\ DOMAIN trail_lim = {}
  BY <1>2, StateFacts, TrailFacts DEF IInv, Calls, RInv, Divided
<1>4. qs \subseteq Literal
  <2>1. given + 1 \in 1 .. Len(session.clauses)
    BY <1>2, <1>3, CallFacts DEF IInv, Calls
  <2>2. QED
    BY <1>3, <2>1, CallFacts
<1>5. Made'
  BY <1>2 DEF Made, InQuery
<1>6. Variable' = Variable /\ Formula' = Formula \cup {qs}
  BY <1>2, CallFacts DEF IInv, Calls, Formula, Variable
<1> HIDE DEF qs
<1>7. /\ trail_lim' = trail_lim /\ order' = order /\ (ok' => ok)
      /\ trail' = trail \/ trail' = Append(trail, unit)
      /\ \A n \in DOMAIN trail : n \in DOMAIN trail' /\ trail'[n] = trail[n]
  <2>1. /\ trail_lim' = trail_lim /\ order' = order /\ (ok' => ok)
        /\ trail' = trail \/ trail' = Append(trail, unit)
    BY <1>1
  <2>2. \A n \in DOMAIN trail : n \in DOMAIN trail' /\ trail'[n] = trail[n]
    BY <1>3, <2>1
  <2>3. QED
    BY <2>1, <2>2
<1>8. Heap'
  <2>1. ASSUME NEW v \in Variable, IsUndef(v)' PROVE v \in order
    <3>1. \A n \in DOMAIN trail : Var(trail[n]) # v
      BY <1>7, <2>1, StillAssigned
    <3>2. QED
      BY <1>3, <3>1, UndefFacts DEF Heap
  <2>2. QED
    BY <1>3, <1>6, <1>7, <2>1 DEF Heap
<1>9. \A n \in DOMAIN trail : StillFixed(n)
  BY <1>7 DEF StillFixed, Fixed
<1>10. \A n \in DOMAIN trail' : Fixed(n)'
  BY <1>3, <1>7 DEF Fixed
<1>11. \A a \in DOMAIN db : ~db[a].learnt => Spared(a)
  <2>1. Address \notin DOMAIN db
    BY AddressIsFree DEF IInv, Memory
  <2>2. \A a \in DOMAIN db : a \in DOMAIN db' /\ db'[a] = db[a]
    BY <1>1, <2>1
  <2>3. QED
    BY <2>2, SameSpared
<1>12. ASSUME ok', NEW v \in [Variable -> BOOLEAN], Basis(v)' PROVE Satisfies(v, qs)
  <2>1. CASE (~ok \/ IsTautology(qs) \/ \E x \in qs : IsTrue(x)) /\ UNCHANGED <<memory, assignment>>
    <3>1. CASE \E x \in qs : IsTrue(x)
      <4>1. PICK n \in DOMAIN trail : trail[n] \in qs
        BY <3>1 DEF IsTrue, ToSet
      <4>2. n \in DOMAIN trail' /\ trail'[n] = trail[n] /\ Fixed(n)'
        BY <1>7, <1>10, <4>1
      <4>3. True(v, trail[n])
        BY <1>12, <4>2 DEF Basis
      <4>4. QED
        BY <4>1, <4>3 DEF Satisfies
    <3>2. CASE IsTautology(qs)
      BY <1>3, <1>4, <3>2, TrueFacts DEF IsTautology, Satisfies
    <3>3. QED
      BY <1>7, <1>12, <2>1, <3>1, <3>2
  <2>2. CASE /\ ok' = (kept # {})
             /\ IF Cardinality(kept) > 1
                THEN db' = [a \in DOMAIN db \cup {Address} |->
                              IF a = Address THEN c ELSE db[a]]
                ELSE UNCHANGED db
             /\ IF Cardinality(kept) = 1 THEN trail' = Append(trail, unit) ELSE trail' = trail
    <3>1. kept # {} /\ kept \in SUBSET Literal
      BY <1>4, <1>12, <2>2
    <3>2. unit \in kept
      BY <1>3, <3>1, FirstMember
    <3>3. IsFiniteSet(kept)
      BY <1>3, <3>1, LiteralsFinite, FS_Subset
    <3>4. CASE Cardinality(kept) > 1
      <4>1. Address \in DOMAIN db' /\ ~db'[Address].learnt /\ db'[Address].lits = kept
        BY <1>1a, <2>2, <3>4
      <4>2. PICK a \in DOMAIN db' : ~db'[a].learnt /\ db'[a].lits = kept
        BY <4>1
      <4>3. Satisfies(v, kept)
        BY <1>12, <4>2 DEF Basis
      <4>4. QED
        BY <4>3 DEF Satisfies
    <3>5. CASE Cardinality(kept) = 1
      <4>1. Len(trail) + 1 \in DOMAIN trail' /\ trail'[Len(trail) + 1] = unit
        BY <1>3, <2>2, <3>1, <3>2, <3>5
      <4>2. PICK n \in DOMAIN trail' : trail'[n] = unit
        BY <4>1
      <4>3. True(v, unit)
        BY <1>10, <1>12, <4>2 DEF Basis
      <4>4. QED
        BY <3>2, <4>3 DEF Satisfies
    <3>6. Cardinality(kept) \in Nat /\ Cardinality(kept) # 0
      <4> HIDE DEF kept
      <4>1. QED
        BY <3>1, <3>3, FS_CardinalityType, FS_EmptySet
    <3>7. QED
      BY <3>4, <3>5, <3>6
  <2>3. QED
    BY <1>1, <2>1, <2>2
<1>13. Kept'
  <2>1. \A v : Basis(v)' => Basis(v)
    BY <1>9, <1>11, BasisNext
  <2>2. ASSUME ok', NEW v \in [Variable -> BOOLEAN], Basis(v)' PROVE SatisfiesAll(v, Formula')
    <3>1. SatisfiesAll(v, Formula)
      BY <1>3, <1>7, <2>1, <2>2 DEF Kept
    <3>2. QED
      BY <1>6, <1>12, <2>2, <3>1 DEF SatisfiesAll
  <2>3. QED
    BY <1>6, <2>2 DEF Kept
<1>14. QED
  BY <1>5, <1>8, <1>13 DEF RInv

-----------------------------------------------------------------------------
LEMMA NextRInv == IInv /\ RInv /\ [Next]_vars => RInv'
<1> SUFFICES ASSUME IInv, RInv, [Next]_vars PROVE RInv'
  OBVIOUS
<1>1. CASE AddClause
  BY <1>1, AddClauseRInv
<1>2. CASE Solve
  BY <1>2, SolveRInv
<1>3. CASE Propagate
  BY <1>3, TakeNextRInv, VisitSatisfiedRInv, VisitNewWatchRInv, VisitUnitRInv DEF Propagate
<1>4. CASE SimplifyConflict
  BY <1>4, SimplifyConflictRInv
<1>5. CASE SimplifyDB
  BY <1>5, SimplifyDBRInv
<1>6. CASE Assume
  BY <1>6, AssumeRInv
<1>7. CASE AssumeFalse
  BY <1>7, AssumeFalseRInv
<1>8. CASE AssumeConflict
  BY <1>8, AssumeConflictRInv
<1>9. CASE StartSearch
  BY <1>9, StartSearchRInv
<1>10. CASE Learn
  BY <1>10, LearnRInv
<1>11. CASE SearchConflict
  BY <1>11, SearchConflictRInv
<1>12. CASE Restart
  BY <1>12, RestartRInv
<1>13. CASE SearchSimplify
  BY <1>13, SearchSimplifyRInv
<1>14. CASE ReduceDB
  BY <1>14, ReduceDBRInv
<1>15. CASE Decide
  BY <1>15, DecideRInv
<1>16. CASE FindModel
  BY <1>16, FindModelRInv
<1>17. CASE Terminating
  BY <1>17, StutterRInv DEF Terminating
<1>18. CASE UNCHANGED vars
  BY <1>18, StutterRInv
<1>19. QED
  BY <1>1, <1>2, <1>3, <1>4, <1>5, <1>6, <1>7, <1>8, <1>9, <1>10, <1>11, <1>12, <1>13, <1>14,
     <1>15, <1>16, <1>17, <1>18 DEF Next

LEMMA SpecRInv == Spec => [](IInv /\ WInv /\ RInv)
<1>1. Init => RInv
  BY InitRInv
<1>2. IInv /\ RInv /\ [Next]_vars => RInv'
  BY NextRInv
<1>3. QED
  BY <1>1, <1>2, SpecWInv, PTL DEF Spec

-----------------------------------------------------------------------------
\* What the promise says of a query, in the terms of the solver.
LEMMA OracleModels ==
  ASSUME NEW query, NEW v
  PROVE  v \in Oracle!Models(query) <=>
           v \in FormulaModels /\ \A n \in DOMAIN query : True(v, query[n])
<1>1. Oracle!Formula = Formula
  BY DEF Oracle!Formula, Formula
<1>2. \A c : Oracle!Satisfies(v, c) <=> Satisfies(v, c)
  BY DEF Oracle!Satisfies, Oracle!True, Satisfies, True
<1>3. \A x : Satisfies(v, {x}) <=> True(v, x)
  BY DEF Satisfies
<1>4. Oracle!SatisfiesAll(v, Formula \cup {{query[n]} : n \in DOMAIN query}) <=>
        SatisfiesAll(v, Formula) /\ \A n \in DOMAIN query : True(v, query[n])
  BY <1>2, <1>3 DEF Oracle!SatisfiesAll, SatisfiesAll
<1>5. QED
  BY <1>1, <1>4 DEF Oracle!Models, FormulaModels, Variable

\* The answer UNSAT, where some assumption is false in every model.
LEMMA RefutedAnswer ==
  ASSUME IInv, given = Len(session.clauses), Len(answers) + 1 \in DOMAIN session.queries,
         \A v \in FormulaModels : \E n \in DOMAIN assumps : ~True(v, assumps[n]),
         UNCHANGED <<session, given>>, Answer("UNSAT", {})
  PROVE  Oracle!Solve
<1>1. Len(answers) < Len(session.queries)
  BY CallFacts DEF IInv, Calls
<1>2. Oracle!Models(session.queries[Len(answers) + 1]) = {}
  BY OracleModels DEF assumps
<1>3. QED
  BY <1>1, <1>2 DEF Oracle!Solve, Answer

\* A conflict that explains the answer is false where the assumptions are true.
LEMMA ExplainedAnswer ==
  ASSUME IInv, InQuery, NEW c,
         ok => c \subseteq {-x : x \in ToSet(assumps)} /\ \A v \in FormulaModels : Satisfies(v, c),
         UNCHANGED <<session, given>>, Answer("UNSAT", {})
  PROVE  Oracle!Solve
<1>1. /\ session \in Session /\ given = Len(session.clauses)
      /\ Len(answers) + 1 \in DOMAIN session.queries
      /\ Len(answers) + 1 \in 1 .. Len(session.queries)
  BY CallFacts DEF IInv, Calls, InQuery
<1>2. \A n \in DOMAIN assumps : assumps[n] \in Literal
  BY <1>1, CallFacts DEF assumps
<1>3. ASSUME NEW v \in FormulaModels PROVE \E n \in DOMAIN assumps : ~True(v, assumps[n])
  <2>1. ok /\ v \in [Variable -> BOOLEAN]
    BY DEF IInv, ClausesFollow, FormulaModels
  <2>2. PICK y \in c : True(v, y)
    BY <2>1 DEF Satisfies
  <2>3. PICK n \in DOMAIN assumps : y = -assumps[n]
    BY <2>1 DEF ToSet
  <2>4. ~True(v, assumps[n])
    BY <1>1, <1>2, <2>1, <2>2, <2>3, TrueFacts
  <2>5. QED
    BY <2>4
<1>4. QED
  BY <1>1, <1>3, RefutedAnswer

\* Nothing that the promise is about changes.
LEMMA SilentStep ==
  ASSUME UNCHANGED <<session, given, answers>>
  PROVE  UNCHANGED Oracle!vars
  BY DEF Oracle!vars

LEMMA AddClauseOracle == AddClause => Oracle!AddClause
  BY DEF AddClause, Oracle!AddClause

LEMMA SolveOracle == IInv /\ Solve => [Oracle!Next]_(Oracle!vars)
<1> SUFFICES ASSUME IInv, Solve PROVE [Oracle!Next]_(Oracle!vars)
  OBVIOUS
<1>1. CASE ok
  BY <1>1, SilentStep DEF Solve
<1>2. CASE ~ok
  <2>1. \A v \in FormulaModels : FALSE
    BY <1>2 DEF IInv, ClausesFollow
  <2>2. Len(answers) + 1 \in DOMAIN session.queries
    BY CallFacts DEF Solve, IInv, Calls
  <2>3. Oracle!Solve
    BY <1>2, <2>1, <2>2, RefutedAnswer DEF Solve
  <2>4. QED
    BY <2>3 DEF Oracle!Next
<1>3. QED
  BY <1>1, <1>2

LEMMA SimplifyConflictOracle == IInv /\ SimplifyConflict => Oracle!Solve
<1> SUFFICES ASSUME IInv, SimplifyConflict PROVE Oracle!Solve
  OBVIOUS
<1>1. pc = "simplifyDB" /\ confl # 0 /\ Answer("UNSAT", {}) /\ UNCHANGED <<session, given>>
  BY DEF SimplifyConflict, At
<1>2. decisionLevel = 0 /\ given = Len(session.clauses) /\ Len(answers) + 1 \in DOMAIN session.queries
  BY <1>1 DEF IInv, Calls
<1>3. \A v \in FormulaModels : FALSE
  BY <1>1, <1>2 DEF IInv, Queue, ClausesFollow
<1>4. QED
  BY <1>1, <1>2, <1>3, RefutedAnswer

LEMMA SearchConflictOracle == IInv /\ SearchConflict => Oracle!Solve
<1> SUFFICES ASSUME IInv, SearchConflict PROVE Oracle!Solve
  OBVIOUS
<1> DEFINE c == analyzeFinal(confl, db[confl].lits).conflict
<1>1. /\ At("search") /\ confl # 0 /\ decisionLevel = root_level
      /\ Answer("UNSAT", {}) /\ UNCHANGED <<session, given>>
  BY DEF SearchConflict
<1>2. InQuery /\ decisionLevel <= root_level
  BY <1>1, StateFacts DEF At, InQuery
<1>3. ok => c \subseteq {-x : x \in ToSet(assumps)} /\ \A v \in FormulaModels : Satisfies(v, c)
  BY <1>1, <1>2, FinalExplains
<1> HIDE DEF c
<1>4. QED
  BY <1>1, <1>2, <1>3, ExplainedAnswer

LEMMA AssumeConflictOracle == IInv /\ AssumeConflict => [Oracle!Next]_(Oracle!vars)
<1> SUFFICES ASSUME IInv, AssumeConflict PROVE [Oracle!Next]_(Oracle!vars)
  OBVIOUS
<1> DEFINE c == analyzeFinal(confl, db[confl].lits).conflict
<1>1. /\ At("assume") /\ confl # 0 /\ UNCHANGED <<session, given>>
      /\ Answer("UNSAT", {}) \/ UNCHANGED answers
  BY DEF AssumeConflict
<1>2. InQuery /\ decisionLevel <= root_level
  BY <1>1 DEF At, InQuery, IInv, Calls
<1>3. ok => c \subseteq {-x : x \in ToSet(assumps)} /\ \A v \in FormulaModels : Satisfies(v, c)
  BY <1>1, <1>2, FinalExplains
<1> HIDE DEF c
<1>4. Answer("UNSAT", {}) => Oracle!Solve
  BY <1>1, <1>2, <1>3, ExplainedAnswer
<1>5. QED
  BY <1>1, <1>4, SilentStep DEF Oracle!Next

LEMMA AssumeFalseOracle == IInv /\ AssumeFalse => [Oracle!Next]_(Oracle!vars)
<1> SUFFICES ASSUME IInv, AssumeFalse PROVE [Oracle!Next]_(Oracle!vars)
  OBVIOUS
<1> DEFINE x == assumps[decisionLevel + 1]
           a == reason[Var(x)]
           c == IF a # 0 THEN Assumed(Antecedents(a), <<>>).conflict \cup {-x} ELSE {-x}
<1>1. /\ At("assume") /\ decisionLevel < root_level /\ IsFalse(x) /\ UNCHANGED <<session, given>>
      /\ Answer("UNSAT", {}) \/ UNCHANGED answers
  BY DEF AssumeFalse
<1>2. InQuery
  BY <1>1 DEF At, InQuery
<1>3. c \subseteq {-y : y \in ToSet(assumps)} /\ \A v \in FormulaModels : Satisfies(v, c)
  <2>1. x = assumps[decisionLevel + 1] /\ a = reason[Var(x)]
    OBVIOUS
  <2>2. c = (IF a # 0 THEN Assumed(Antecedents(a), <<>>).conflict \cup {-x} ELSE {-x})
    OBVIOUS
  <2> HIDE DEF x, a, c
  <2>3. QED
    BY <1>1, <2>1, <2>2, FalseExplains
<1> HIDE DEF c
<1>4. Answer("UNSAT", {}) => Oracle!Solve
  BY <1>1, <1>2, <1>3, ExplainedAnswer
<1>5. QED
  BY <1>1, <1>4, SilentStep DEF Oracle!Next

(***************************************************************************)
(* The valuation that value_of reads when no variable is left to decide:   *)
(* it satisfies the clauses in memory, as propagation missed none, hence   *)
(* those given, and the assumptions, which are all made.                   *)
(***************************************************************************)
LEMMA ModelFound ==
  ASSUME IInv, WInv, RInv, FindModel
  PROVE  \E v \in Oracle!Models(assumps) : Oracle!TrueLiterals(v) = ToSet(trail)
<1> DEFINE value == [u \in Variable |-> IsTrue(u)]
<1>1. /\ session \in Session /\ todo = {} /\ qhead = Len(trail) /\ confl = 0
      /\ pc \in {"search", "simplified", "decide"} /\ {u \in order : IsUndef(u)} = {}
  <2>1. Deciding /\ {u \in order : IsUndef(u)} = {}
    BY DEF FindModel
  <2>2. QED
    BY <2>1, Propagated, StateFacts DEF Deciding, Tidy, Ready, At, IInv, Queue
<1>2. ok /\ ~Propagating /\ InQuery
  BY <1>1, StateFacts DEF WInv, Bottom, Propagating, InQuery
<1>3. \A u \in Variable : IsTrue(u) \/ IsFalse(u)
  BY <1>1 DEF RInv, Heap, IsUndef
<1>4. value \in [Variable -> BOOLEAN]
  BY DEF IsTrue
<1>5. \A x \in Literal : IsTrue(x) => ~IsFalse(x)
  <2>1. SUFFICES ASSUME NEW x \in Literal, IsTrue(x), IsFalse(x) PROVE FALSE
    OBVIOUS
  <2>2. PICK m \in DOMAIN trail : trail[m] = x
    BY <2>1, StateFacts, FalseFacts
  <2>3. PICK n \in DOMAIN trail : trail[n] = -x
    BY <2>1, StateFacts, FalseFacts
  <2>4. m = n
    BY <1>1, <2>2, <2>3, StateFacts, LiteralFacts
  <2>5. QED
    BY <1>1, <2>2, <2>3, <2>4, LiteralFacts
<1>6. \A x \in Literal : True(value, x) <=> IsTrue(x)
  <2>1. \A u \in Variable : u \in Literal /\ True(value, u) = IsTrue(u)
    BY <1>1, LiteralFacts DEF True
  <2>2. \A u \in Variable : True(value, -u) <=> ~True(value, u)
    BY <1>1, <1>4, <2>1, TrueFacts
  <2>3. ASSUME NEW u \in Variable PROVE True(value, -u) <=> IsTrue(-u)
    <3>1. IsTrue(-u) <=> IsFalse(u)
      BY DEF IsTrue, IsFalse
    <3>2. IsFalse(u) <=> ~IsTrue(u)
      BY <1>3, <1>5, <2>1
    <3> HIDE DEF value
    <3>3. QED
      BY <2>1, <2>2, <3>1, <3>2
  <2>4. QED
    BY <2>1, <2>3 DEF Literal
<1>7. Basis(value)
  <2>1. ASSUME NEW a \in DOMAIN db PROVE Satisfies(value, db[a].lits)
    <3>1. PICK x \in db[a].lits : IsTrue(x)
      <4>1. SUFFICES ASSUME \A x \in db[a].lits : ~IsTrue(x) PROVE FALSE
        OBVIOUS
      <4>2. Cardinality({x \in db[a].lits : ~IsFalse(x)}) > 1
        BY <1>1, <1>2, <4>1, NothingMissedHolds DEF NothingMissed
      <4>3. \A x \in db[a].lits : IsFalse(x)
        <5>1. ASSUME NEW x \in Literal PROVE IsTrue(x) \/ IsFalse(x)
          <6>1. PICK u \in Variable : x = u \/ x = -u
            BY DEF Literal
          <6>2. -(-u) = u
            BY <1>1, LiteralFacts
          <6>3. QED
            BY <1>3, <6>1, <6>2 DEF IsTrue, IsFalse
        <5>2. QED
          BY <4>1, <5>1, ClauseFacts DEF IInv, Memory
      <4>4. {x \in db[a].lits : ~IsFalse(x)} = {}
        BY <4>3
      <4>5. QED
        BY <4>2, <4>4, FS_EmptySet
    <3>2. x \in Literal
      BY DEF IInv, Memory
    <3>3. QED
      BY <1>6, <3>1, <3>2 DEF Satisfies
  <2>2. ASSUME NEW n \in DOMAIN trail PROVE True(value, trail[n])
    BY <1>6, StateFacts DEF IsTrue, ToSet
  <2>3. QED
    BY <2>1, <2>2 DEF Basis
<1>8. value \in FormulaModels
  BY <1>2, <1>4, <1>7 DEF RInv, Kept, FormulaModels
<1>9. ASSUME NEW k \in DOMAIN assumps PROVE True(value, assumps[k])
  <2>1. /\ root_level = Len(assumps) /\ root_level <= decisionLevel
        /\ Len(answers) + 1 \in 1 .. Len(session.queries)
    BY <1>1, <1>2, CallFacts DEF IInv, Calls
  <2>2. k \in 1 .. root_level /\ assumps[k] \in Literal
    BY <1>1, <2>1, CallFacts DEF assumps
  <2>3. k \in DOMAIN trail_lim /\ k <= root_level
    BY <2>1, <2>2, StateFacts
  <2>4. PICK n \in DOMAIN trail : trail[n] = assumps[k]
    BY <1>2, <2>3 DEF RInv, Made
  <2>5. QED
    BY <1>6, <2>2, <2>4 DEF IsTrue, ToSet
<1>10. Oracle!TrueLiterals(value) = ToSet(trail)
  <2>1. Oracle!TrueLiterals(value) = {IF IsTrue(u) THEN u ELSE -u : u \in Variable}
    BY DEF Oracle!TrueLiterals
  <2>2. \A u \in Variable : (IF IsTrue(u) THEN u ELSE -u) \in ToSet(trail)
    BY <1>3 DEF IsTrue, IsFalse
  <2>3. ASSUME NEW n \in DOMAIN trail
        PROVE  \E u \in Variable : trail[n] = IF IsTrue(u) THEN u ELSE -u
    <3>1. trail[n] \in Literal /\ IsTrue(trail[n])
      BY StateFacts DEF IsTrue, ToSet
    <3>2. CASE trail[n] \in Variable
      BY <3>1, <3>2
    <3>3. CASE \E u \in Variable : trail[n] = -u
      <4>1. PICK u \in Variable : trail[n] = -u
        BY <3>3
      <4>2. u \in Literal /\ IsFalse(u)
        BY <1>1, <3>1, <4>1, LiteralFacts DEF IsFalse, IsTrue
      <4>3. ~IsTrue(u)
        BY <1>5, <4>2
      <4>4. QED
        BY <4>1, <4>3
    <3>4. QED
      BY <3>1, <3>2, <3>3 DEF Literal
  <2>4. ToSet(trail) = {trail[n] : n \in DOMAIN trail}
    BY DEF ToSet
  <2> HIDE DEF value
  <2>5. QED
    BY <2>1, <2>2, <2>3, <2>4
<1> HIDE DEF value
<1>11. value \in Oracle!Models(assumps)
  BY <1>8, <1>9, OracleModels
<1>12. QED
  BY <1>10, <1>11

LEMMA FindModelOracle == IInv /\ WInv /\ RInv /\ FindModel => Oracle!Solve
<1> SUFFICES ASSUME IInv, WInv, RInv, FindModel PROVE Oracle!Solve
  OBVIOUS
<1>1. PICK v \in Oracle!Models(assumps) : Oracle!TrueLiterals(v) = ToSet(trail)
  BY ModelFound
<1>2. Answer("SAT", ToSet(trail)) /\ InQuery /\ UNCHANGED <<session, given>>
  BY DEF FindModel, Deciding, Tidy, Ready, At, InQuery
<1>3. given = Len(session.clauses) /\ Len(answers) < Len(session.queries)
  BY <1>2, CallFacts DEF IInv, Calls, InQuery
<1>4. answers' = Append(answers, [result |-> "SAT", model |-> Oracle!TrueLiterals(v)])
  BY <1>1, <1>2 DEF Answer
<1>5. QED
  BY <1>1, <1>2, <1>3, <1>4 DEF Oracle!Solve, assumps

LEMMA NextOracle == IInv /\ WInv /\ RInv /\ [Next]_vars => [Oracle!Next]_(Oracle!vars)
<1> SUFFICES ASSUME IInv, WInv, RInv, [Next]_vars PROVE [Oracle!Next]_(Oracle!vars)
  OBVIOUS
<1>1. CASE AddClause
  BY <1>1, AddClauseOracle DEF Oracle!Next
<1>2. CASE Solve
  BY <1>2, SolveOracle
<1>3. CASE SimplifyConflict
  BY <1>3, SimplifyConflictOracle DEF Oracle!Next
<1>4. CASE SearchConflict
  BY <1>4, SearchConflictOracle DEF Oracle!Next
<1>5. CASE AssumeConflict
  BY <1>5, AssumeConflictOracle
<1>6. CASE AssumeFalse
  BY <1>6, AssumeFalseOracle
<1>7. CASE FindModel
  BY <1>7, FindModelOracle DEF Oracle!Next
<1>8. CASE Propagate
  BY <1>8, SilentStep DEF Propagate, TakeNext, VisitSatisfied, VisitNewWatch, VisitUnit
<1>9. CASE SimplifyDB \/ SearchSimplify \/ ReduceDB
  BY <1>9, SilentStep DEF SimplifyDB, SearchSimplify, ReduceDB
<1>10. CASE Assume \/ StartSearch \/ Restart \/ Decide
  BY <1>10, SilentStep DEF Assume, StartSearch, Restart, Decide
<1>11. CASE Learn
  BY <1>11, SilentStep DEF Learn
<1>12. CASE Terminating \/ UNCHANGED vars
  BY <1>12, SilentStep DEF Terminating, vars
<1>13. QED
  BY <1>1, <1>2, <1>3, <1>4, <1>5, <1>6, <1>7, <1>8, <1>9, <1>10, <1>11, <1>12 DEF Next

(***************************************************************************)
(* Every answer is right: UNSAT is answered only where no valuation        *)
(* satisfies the clauses and the assumptions of the query, and what        *)
(* value_of reads after SAT is such a valuation, whatever was learnt,      *)
(* simplified and forgotten before, under other assumptions.               *)
(***************************************************************************)
THEOREM AnswersRight == Spec => Oracle!Init /\ [][Oracle!Next]_(Oracle!vars)
<1>1. Init => Oracle!Init
  BY DEF Init, Oracle!Init
<1>2. IInv /\ WInv /\ RInv /\ [Next]_vars => [Oracle!Next]_(Oracle!vars)
  BY NextOracle
<1>3. QED
  BY <1>1, <1>2, SpecRInv, PTL DEF Spec

-----------------------------------------------------------------------------
\* A variable with a unit clause in the log has its value at the top level for good.
Units ==
  \A v \in Variable : unit_id[v] # 0 =>
    session.logged /\ \E n \in DOMAIN trail : Fixed(n) /\ Var(trail[n]) = v

(***************************************************************************)
(* While the assumptions are made, the facts of the top level are those    *)
(* from before the first one, and what an assumption implies follows from  *)
(* something that is not a fact.                                           *)
(***************************************************************************)
Assuming ==
  pc = "assume" =>
    /\ decisionLevel = 0 => ~Propagating /\ confl = 0
    /\ \A n \in DOMAIN trail : LevelOf(n) = 0 /\ decisionLevel > 0 => n <= trail_lim[1]
    /\ \A n \in DOMAIN trail : LevelOf(n) # 0 /\ reason[Var(trail[n])] # 0 =>
         \E y \in db[reason[Var(trail[n])]].lits : Var(y) # Var(trail[n]) /\ level[Var(y)] # 0

AInv == Units /\ Assuming /\ AssertsHold

-----------------------------------------------------------------------------
\* What was assigned before any decision is never taken back: by any step.
LEMMA GrownFixed ==
  ASSUME UNCHANGED trail_lim, \A n \in DOMAIN trail : n \in DOMAIN trail' /\ trail'[n] = trail[n],
         NEW n \in DOMAIN trail
  PROVE  StillFixed(n)
  BY DEF StillFixed, Fixed

LEMMA OpenedFixed ==
  ASSUME IInv, trail_lim' = Append(trail_lim, Len(trail)),
         \A n \in DOMAIN trail : n \in DOMAIN trail' /\ trail'[n] = trail[n],
         NEW n \in DOMAIN trail
  PROVE  StillFixed(n)
<1>1. trail_lim \in Seq(Nat) /\ Len(trail) \in Nat /\ n \in Nat /\ n <= Len(trail)
  BY StateFacts
<1>2. \A k \in DOMAIN trail_lim' :
        (k \in DOMAIN trail_lim /\ trail_lim'[k] = trail_lim[k]) \/ trail_lim'[k] = Len(trail)
  BY <1>1
<1>3. QED
  BY <1>1, <1>2 DEF StillFixed, Fixed

LEMMA Longer ==
  ASSUME IInv, NEW x, trail' = trail \/ trail' = Append(trail, x), NEW n \in DOMAIN trail
  PROVE  n \in DOMAIN trail' /\ trail'[n] = trail[n]
  BY StateFacts, TrailFacts DEF Divided

LEMMA CancelledFixed ==
  ASSUME IInv, NEW l \in 0 .. decisionLevel, cancelUntil(l),
         l = 0 \/ (l = root_level /\ root_level' = root_level), NEW n \in DOMAIN trail
  PROVE  StillFixed(n)
  BY CancelledBacked, BackedFixed

LEMMA FixedStays ==
  ASSUME IInv, [Next]_vars, NEW n \in DOMAIN trail
  PROVE  StillFixed(n)
<1> USE DEF assignment
<1>0. CASE UNCHANGED <<trail, trail_lim>>
  BY <1>0, GrownFixed
<1>1. CASE AddClause
  <2>1. trail_lim' = trail_lim /\ \E x : trail' = trail \/ trail' = Append(trail, x)
    BY <1>1 DEF AddClause
  <2>2. QED
    BY <2>1, Longer, GrownFixed
<1>2. CASE VisitUnit
  <2>1. trail_lim' = trail_lim /\ \E x : trail' = trail \/ trail' = Append(trail, x)
    BY <1>2 DEF VisitUnit
  <2>2. QED
    BY <2>1, Longer, GrownFixed
<1>3. CASE Solve \/ TakeNext \/ VisitSatisfied \/ VisitNewWatch
  BY <1>3, <1>0 DEF Solve, TakeNext, VisitSatisfied, VisitNewWatch
<1>4. CASE SimplifyConflict \/ SimplifyDB \/ StartSearch
  BY <1>4, <1>0 DEF SimplifyConflict, SimplifyDB, StartSearch
<1>5. CASE SearchSimplify \/ ReduceDB \/ Terminating \/ UNCHANGED vars
  BY <1>5, <1>0 DEF SearchSimplify, ReduceDB, Terminating, vars
<1>6. CASE Assume \/ Decide
  <2>1. trail_lim' = Append(trail_lim, Len(trail)) /\ \E x : trail' = trail \/ trail' = Append(trail, x)
    BY <1>6 DEF Assume, Decide
  <2>2. QED
    BY <2>1, Longer, OpenedFixed
<1>7. CASE AssumeFalse \/ AssumeConflict \/ SearchConflict \/ FindModel
  <2>1. cancelUntil(0) /\ 0 \in 0 .. decisionLevel
    BY <1>7, StateFacts DEF AssumeFalse, AssumeConflict, SearchConflict, FindModel
  <2>2. QED
    BY <2>1, CancelledFixed
<1>8. CASE Restart
  <2>1. cancelUntil(root_level) /\ root_level' = root_level /\ root_level \in 0 .. decisionLevel
    BY <1>8, StateFacts DEF Restart, Ready, At, IInv, Calls
  <2>2. QED
    BY <2>1, CancelledFixed
<1>9. CASE Learn
  BY <1>9, LearnBacked, BackedFixed
<1>10. QED
  BY <1>1, <1>2, <1>3, <1>4, <1>5, <1>6, <1>7, <1>8, <1>9 DEF Next, Propagate

-----------------------------------------------------------------------------
\* The ids of the units are those there were, or of literals now fixed.
LEMMA UnitsNext ==
  ASSUME IInv, Units, [Next]_vars, session' = session,
         \A v \in Variable : unit_id'[v] # 0 =>
           \/ unit_id'[v] = unit_id[v]
           \/ session.logged /\ \E n \in DOMAIN trail' : Fixed(n)' /\ Var(trail'[n]) = v
  PROVE  Units'
<1>1. Variable' = Variable
  BY DEF Variable
<1>2. SUFFICES ASSUME NEW v \in Variable, unit_id'[v] # 0
               PROVE  session.logged /\ \E n \in DOMAIN trail' : Fixed(n)' /\ Var(trail'[n]) = v
  BY <1>1 DEF Units
<1>3. CASE unit_id'[v] = unit_id[v]
  <2>1. session.logged /\ \E n \in DOMAIN trail : Fixed(n) /\ Var(trail[n]) = v
    BY <1>2, <1>3 DEF Units
  <2>2. PICK n \in DOMAIN trail : Fixed(n) /\ Var(trail[n]) = v
    BY <2>1
  <2>3. Fixed(n)' /\ trail'[n] = trail[n]
    BY <2>2, FixedStays DEF StillFixed
  <2>4. n \in DOMAIN trail'
    BY <2>3 DEF Fixed
  <2>5. QED
    BY <2>1, <2>2, <2>3, <2>4
<1>4. QED
  BY <1>2, <1>3

\* A literal put on the trail while there is no decision.
LEMMA Topmost ==
  ASSUME IInv, NEW t \in Seq(Literal), NEW x \in Literal, trail' = Append(t, x),
         trail_lim' = <<>>
  PROVE  \E n \in DOMAIN trail' : Fixed(n)' /\ Var(trail'[n]) = Var(x)
<1>1. Len(t) + 1 \in DOMAIN trail' /\ trail'[Len(t) + 1] = x
  OBVIOUS
<1>2. \A k \in DOMAIN trail_lim' : FALSE
  OBVIOUS
<1>3. Fixed(Len(t) + 1)'
  BY <1>1, <1>2 DEF Fixed
<1>4. QED
  BY <1>1, <1>3

LEMMA AddClauseUnits == IInv /\ Units /\ AddClause => Units'
<1> SUFFICES ASSUME IInv, Units, AddClause PROVE Units'
  OBVIOUS
<1> DEFINE qs   == session.clauses[given + 1]
           kept == {x \in qs : ~IsFalse(x)}
           unit == First(kept)
           root == IF session.logged THEN addRoot(proof, qs) ELSE proof
           id   == LogId(root, LastId(root), UnitSteps(qs \ kept))
<1>1. session' = session /\ pc = "idle" /\ [Next]_vars /\ given < Len(session.clauses)
  BY DEF AddClause, Next
<1>2. \/ unit_id' = unit_id
      \/ /\ unit_id' = [unit_id EXCEPT ![Var(unit)] = id]
         /\ trail' = Append(trail, unit) /\ trail_lim' = trail_lim
         /\ Cardinality(kept) = 1
  BY DEF AddClause, memory
<1>3. CASE unit_id' = unit_id
  BY <1>1, <1>3, UnitsNext
<1>4. CASE /\ unit_id' = [unit_id EXCEPT ![Var(unit)] = id]
           /\ trail' = Append(trail, unit) /\ trail_lim' = trail_lim
           /\ Cardinality(kept) = 1
  <2>1. unit \in Literal
    <3>1. given + 1 \in 1 .. Len(session.clauses)
      BY <1>1, CallFacts DEF IInv, Calls
    <3>2. qs \subseteq Literal
      BY <3>1, CallFacts DEF IInv, Calls
    <3> HIDE DEF qs
    <3>3. kept \subseteq Literal
      BY <3>2
    <3> HIDE DEF kept
    <3>4. kept # {}
      <4>1. Cardinality(kept) = 1
        BY <1>4
      <4>2. Cardinality({}) = 0
        BY FS_EmptySet
      <4>3. QED
        BY <4>1, <4>2
    <3>5. QED
      BY <3>3, <3>4, StateFacts, FirstMember
  <2>2. trail_lim' = <<>> /\ trail \in Seq(Literal)
    <3>1. decisionLevel = 0 /\ trail_lim \in Seq(Nat) /\ trail \in Seq(Literal)
      BY <1>1, StateFacts, TrailFacts DEF IInv, Calls, Divided
    <3>2. QED
      BY <1>4, <3>1, EmptySeq DEF decisionLevel
  <2>3. \E n \in DOMAIN trail' : Fixed(n)' /\ Var(trail'[n]) = Var(unit)
    <3> HIDE DEF unit
    <3>1. QED
      BY <1>4, <2>1, <2>2, Topmost
  <2>4. ~session.logged => id = 0
    BY DEF LogId
  <2> HIDE DEF unit, id
  <2>5. ASSUME NEW v \in Variable, unit_id'[v] # 0
        PROVE  \/ unit_id'[v] = unit_id[v]
               \/ session.logged /\ \E n \in DOMAIN trail' : Fixed(n)' /\ Var(trail'[n]) = v
    <3>1. CASE v # Var(unit)
      BY <1>4, <3>1
    <3>2. CASE v = Var(unit) /\ unit_id'[v] = id
      BY <2>3, <2>4, <2>5, <3>2
    <3>3. CASE unit_id'[v] = unit_id[v]
      BY <3>3
    <3>4. QED
      BY <1>4, <3>1, <3>2, <3>3
  <2>6. QED
    BY <1>1, <2>5, UnitsNext
<1>5. QED
  BY <1>2, <1>3, <1>4

LEMMA VisitUnitUnits == IInv /\ Units /\ VisitUnit => Units'
<1> SUFFICES ASSUME IInv, Units, VisitUnit PROVE Units'
  OBVIOUS
<1>1. PICK a \in todo :
        \/ unit_id' = unit_id
        \/ /\ \E id : unit_id' = [unit_id EXCEPT ![Var(Turned(a).first)] = id]
           /\ decisionLevel = 0 /\ session.logged /\ trail' = Append(trail, Turned(a).first)
  BY DEF VisitUnit
<1>2. session' = session /\ trail_lim' = trail_lim /\ [Next]_vars
  BY DEF VisitUnit, Next, Propagate
<1> DEFINE x == Turned(a).first
<1>3. x \in Literal
  BY VisitFacts DEF IInv, Memory
<1> HIDE DEF x
<1>4. CASE unit_id' = unit_id
  BY <1>2, <1>4, UnitsNext
<1>5. CASE /\ \E id : unit_id' = [unit_id EXCEPT ![Var(x)] = id]
           /\ decisionLevel = 0 /\ session.logged /\ trail' = Append(trail, x)
  <2>1. trail_lim' = <<>> /\ trail \in Seq(Literal)
    <3>1. trail_lim \in Seq(Nat) /\ trail \in Seq(Literal)
      BY StateFacts, TrailFacts DEF Divided
    <3>2. QED
      BY <1>2, <1>5, <3>1, EmptySeq DEF decisionLevel
  <2>2. \E n \in DOMAIN trail' : Fixed(n)' /\ Var(trail'[n]) = Var(x)
    BY <1>3, <1>5, <2>1, Topmost
  <2>3. \A v \in Variable : unit_id'[v] # 0 => unit_id'[v] = unit_id[v] \/ v = Var(x)
    BY <1>5
  <2>4. QED
    BY <1>2, <1>5, <2>2, <2>3, UnitsNext
<1>6. QED
  BY <1>1, <1>4, <1>5 DEF x

\* With the log on nothing is assumed.
LEMMA LoggedFacts ==
  ASSUME IInv, session.logged, InQuery
  PROVE  root_level = 0 /\ assumps = <<>>
<1>1. session \in Session /\ Len(answers) + 1 \in DOMAIN session.queries /\ root_level = Len(assumps)
  BY DEF IInv, Calls
<1>2. assumps = <<>>
  BY <1>1, LogAssumption DEF assumps
<1>3. QED
  BY <1>1, <1>2

LEMMA LearnUnits == IInv /\ Units /\ Learn => Units'
<1> SUFFICES ASSUME IInv, Units, Learn PROVE Units'
  OBVIOUS
<1> DEFINE x == analyze.uip
           K == Max({analyze.back, root_level})
           id == LastId(analyze.log)
<1>1. /\ session' = session /\ [Next]_vars /\ At("search") /\ confl # 0
      /\ decisionLevel > root_level
      /\ trail' = Append(Cut(K), x) /\ trail_lim' = SubSeq(trail_lim, 1, K)
      /\ \/ unit_id' = unit_id
         \/ /\ unit_id' = [unit_id EXCEPT ![Var(x)] = id]
            /\ session.logged /\ analyze.rest = {}
  BY DEF Learn, Next
<1>2. CASE unit_id' = unit_id
  BY <1>1, <1>2, UnitsNext
<1>3. CASE /\ unit_id' = [unit_id EXCEPT ![Var(x)] = id]
           /\ session.logged /\ analyze.rest = {}
  <2>1. K = Max({analyze.back, root_level}) /\ Conflicting
    BY <1>1 DEF Conflicting
  <2> HIDE DEF K
  <2>2. x \in Literal /\ K = root_level
    BY <1>3, <2>1, AnalyzeFacts
  <2>3. K = 0
    BY <1>1, <1>3, <2>2, LoggedFacts DEF InQuery, At
  <2>4. trail_lim' = <<>> /\ Cut(K) \in Seq(Literal)
    <3>1. trail_lim \in Seq(Nat) /\ 0 \in 0 .. decisionLevel
      BY StateFacts
    <3>2. SubSeq(trail_lim, 1, 0) = <<>>
      BY <3>1
    <3>3. QED
      BY <1>1, <2>3, <3>1, <3>2, StateFacts, TrailFacts, CutFacts
  <2> HIDE DEF x, id
  <2>5. \E n \in DOMAIN trail' : Fixed(n)' /\ Var(trail'[n]) = Var(x)
    BY <1>1, <2>2, <2>4, Topmost
  <2>6. \A v \in Variable : unit_id'[v] # 0 => unit_id'[v] = unit_id[v] \/ v = Var(x)
    BY <1>3
  <2>7. QED
    BY <1>1, <1>3, <2>5, <2>6, UnitsNext
<1>4. QED
  BY <1>1, <1>2, <1>3

LEMMA NextUnits == IInv /\ Units /\ [Next]_vars => Units'
<1> SUFFICES ASSUME IInv, Units, [Next]_vars PROVE Units'
  OBVIOUS
<1>0. CASE UNCHANGED <<session, unit_id>>
  BY <1>0, UnitsNext
<1>1. CASE AddClause \/ VisitUnit \/ Learn
  BY <1>1, AddClauseUnits, VisitUnitUnits, LearnUnits
<1>2. CASE Solve \/ TakeNext \/ VisitSatisfied \/ VisitNewWatch
  BY <1>2, <1>0 DEF Solve, TakeNext, VisitSatisfied, VisitNewWatch, memory
<1>3. CASE SimplifyConflict \/ SimplifyDB \/ StartSearch
  BY <1>3, <1>0 DEF SimplifyConflict, SimplifyDB, StartSearch, Simplify, memory
<1>4. CASE SearchSimplify \/ ReduceDB \/ Terminating \/ UNCHANGED vars
  BY <1>4, <1>0 DEF SearchSimplify, ReduceDB, Simplify, Terminating, vars, memory
<1>5. CASE Assume \/ Decide \/ Restart
  BY <1>5, <1>0 DEF Assume, Decide, Restart, memory
<1>6. CASE AssumeFalse \/ AssumeConflict \/ SearchConflict \/ FindModel
  BY <1>6, <1>0 DEF AssumeFalse, AssumeConflict, SearchConflict, FindModel, memory
<1>7. QED
  BY <1>1, <1>2, <1>3, <1>4, <1>5, <1>6 DEF Next, Propagate

-----------------------------------------------------------------------------
\* Steps that assign nothing.
LEMMA KeepAssuming ==
  ASSUME IInv, Assuming, pc' = "assume" => pc = "assume", UNCHANGED <<trail, trail_lim, level, reason>>,
         pc' = "assume" /\ decisionLevel = 0 => ~Propagating' /\ confl' = 0,
         pc' = "assume" => \A a \in DOMAIN db : db'[a].lits = db[a].lits
  PROVE  Assuming'
<1> SUFFICES ASSUME pc' = "assume" PROVE Assuming'
  BY DEF Assuming
<1>1. decisionLevel' = decisionLevel /\ \A n : LevelOf(n)' = LevelOf(n)
  BY DEF decisionLevel, LevelOf
<1>2. \A n \in DOMAIN trail : LevelOf(n) = 0 /\ decisionLevel > 0 => n <= trail_lim[1]
  BY DEF Assuming
<1>3. ASSUME NEW n \in DOMAIN trail, LevelOf(n) # 0, reason[Var(trail[n])] # 0
      PROVE  \E y \in db'[reason[Var(trail[n])]].lits : Var(y) # Var(trail[n]) /\ level[Var(y)] # 0
  <2>1. reason[Var(trail[n])] \in DOMAIN db
    BY <1>3, StateFacts, TrailFacts DEF Reasoned, Implies
  <2>2. QED
    BY <1>3, <2>1 DEF Assuming
<1>4. QED
  BY <1>1, <1>2, <1>3 DEF Assuming

\* A literal is put on the trail above the top level.
LEMMA GrownAssuming ==
  ASSUME IInv, Assuming, pc = "assume", NEW x \in Literal,
         \A n \in DOMAIN trail : Var(trail[n]) # Var(x), trail' = Append(trail, x),
         NEW L \in Nat \ {0}, level' = [level EXCEPT ![Var(x)] = L],
         NEW a, reason' = [reason EXCEPT ![Var(x)] = a],
         \A b \in DOMAIN db : db'[b].lits = db[b].lits,
         decisionLevel' # 0, decisionLevel > 0 => trail_lim'[1] = trail_lim[1],
         decisionLevel = 0 => trail_lim'[1] = Len(trail),
         a # 0 => \E y \in db'[a].lits : Var(y) # Var(x) /\ level[Var(y)] # 0
  PROVE  Assuming'
<1>1. /\ Len(trail) \in Nat /\ DOMAIN trail = 1 .. Len(trail) /\ session \in Session /\ Assigned
      /\ trail \in Seq(Literal) /\ level \in [Variable -> Int] /\ reason \in [Variable -> Nat]
      /\ Var(x) \in Variable /\ \A n \in DOMAIN trail : Var(trail[n]) \in Variable
      /\ decisionLevel \in Nat
  BY StateFacts, TrailFacts, LiteralFacts DEF Divided
<1>2. /\ DOMAIN trail' = 1 .. Len(trail) + 1 /\ trail'[Len(trail) + 1] = x
      /\ \A n \in DOMAIN trail : trail'[n] = trail[n]
  BY <1>1
<1>3. /\ level'[Var(x)] = L /\ reason'[Var(x)] = a
      /\ \A v \in Variable : v # Var(x) => level'[v] = level[v] /\ reason'[v] = reason[v]
      /\ \A v : level[v] # 0 => level'[v] # 0
  BY <1>1
<1>4. \A n \in DOMAIN trail :
        /\ level'[Var(trail'[n])] = level[Var(trail[n])]
        /\ reason'[Var(trail'[n])] = reason[Var(trail[n])]
  BY <1>1, <1>2, <1>3
<1>5. ASSUME NEW n \in DOMAIN trail', level'[Var(trail'[n])] = 0 PROVE n <= trail_lim'[1]
  <2>1. n \in DOMAIN trail
    BY <1>1, <1>2, <1>3, <1>5
  <2>2. level[Var(trail[n])] = 0
    BY <1>4, <1>5, <2>1
  <2>3. decisionLevel > 0 => n <= trail_lim[1]
    BY <2>1, <2>2 DEF Assuming, LevelOf
  <2>4. CASE decisionLevel > 0
    BY <2>3, <2>4
  <2>5. CASE decisionLevel = 0
    BY <1>1, <2>1, <2>5
  <2>6. QED
    BY <1>1, <2>4, <2>5
<1>6. ASSUME NEW n \in DOMAIN trail', level'[Var(trail'[n])] # 0, reason'[Var(trail'[n])] # 0
      PROVE  \E y \in db'[reason'[Var(trail'[n])]].lits : Var(y) # Var(trail'[n]) /\ level'[Var(y)] # 0
  <2>0. n = Len(trail) + 1 \/ n \in DOMAIN trail
    BY <1>1, <1>2
  <2>1. CASE n = Len(trail) + 1
    BY <1>2, <1>3, <1>6, <2>1
  <2>2. CASE n \in DOMAIN trail
    <3>1. level[Var(trail[n])] # 0 /\ reason[Var(trail[n])] # 0
      BY <1>4, <1>6, <2>2
    <3>2. reason[Var(trail[n])] \in DOMAIN db
      BY <1>1, <2>2, <3>1, TrailFacts DEF Reasoned, Implies
    <3>3. PICK y \in db[reason[Var(trail[n])]].lits : Var(y) # Var(trail[n]) /\ level[Var(y)] # 0
      BY <2>2, <3>1 DEF Assuming, LevelOf
    <3>4. QED
      BY <1>2, <1>3, <1>4, <2>2, <3>2, <3>3
  <2>3. QED
    BY <2>0, <2>1, <2>2
<1>7. QED
  BY <1>5, <1>6 DEF Assuming, LevelOf

LEMMA VisitUnitAssuming == IInv /\ Assuming /\ VisitUnit => Assuming'
<1> SUFFICES ASSUME IInv, Assuming, VisitUnit PROVE Assuming'
  OBVIOUS
<1>1. PICK a \in todo :
        /\ ~IsTrue(Turned(a).first)
        /\ db' = [db EXCEPT ![a] = Turned(a)]
        /\ UNCHANGED trail_lim
        /\ pc' = pc \/ pc' = "assert"
        /\ IF IsFalse(Turned(a).first)
           THEN UNCHANGED <<trail, reason, level>>
           ELSE /\ trail' = Append(trail, Turned(a).first)
                /\ reason' = [reason EXCEPT ![Var(Turned(a).first)] = a]
                /\ level' = [level EXCEPT ![Var(Turned(a).first)] = decisionLevel]
  BY DEF VisitUnit
<1> SUFFICES ASSUME pc' = "assume" PROVE Assuming'
  BY DEF Assuming
<1>2. pc = "assume" /\ decisionLevel # 0
  BY <1>1 DEF Assuming, Propagating
<1> DEFINE x == Turned(a).first
<1>3. /\ a \in DOMAIN db /\ qhead \in DOMAIN trail /\ trail[qhead] \in Literal
      /\ x \in Literal /\ {x, -trail[qhead]} = {db[a].first, db[a].second}
      /\ Turned(a).lits = db[a].lits /\ IsFalse(-trail[qhead])
      /\ \A k \in DOMAIN trail_lim : trail_lim[k] < qhead
  <2>1. /\ a \in DOMAIN db /\ qhead \in DOMAIN trail /\ trail[qhead] \in Literal
        /\ {x, -trail[qhead]} = {db[a].first, db[a].second} /\ IsFalse(-trail[qhead])
        /\ Turned(a).lits = db[a].lits
    BY VisitFacts DEF Clause
  <2>2. QED
    BY <2>1, ClauseFacts DEF IInv, Queue
<1>4. \A b \in DOMAIN db : db'[b].lits = db[b].lits
  BY <1>1, <1>3
<1>5. /\ session \in Session /\ Assigned /\ decisionLevel \in Nat /\ DOMAIN trail_lim = 1 .. decisionLevel
      /\ \A k \in DOMAIN trail_lim : trail_lim[k] \in Nat
      /\ qhead \in Nat
  BY StateFacts
<1>6. CASE IsFalse(x)
  BY <1>1, <1>2, <1>4, <1>6, KeepAssuming
<1>7. CASE ~IsFalse(x)
  <2>1. LevelOf(qhead) # 0
    <3>1. SUFFICES ASSUME LevelOf(qhead) = 0 PROVE FALSE
      OBVIOUS
    <3>2. qhead <= trail_lim[1] /\ 1 \in DOMAIN trail_lim
      BY <1>2, <1>3, <1>5, <3>1 DEF Assuming
    <3>3. QED
      BY <1>3, <1>5, <3>2
  <2>2. \A n \in DOMAIN trail : Var(trail[n]) # Var(x)
    BY <1>1, <1>3, <1>5, <1>7, FalseFacts
  <2>3. Var(-trail[qhead]) = Var(trail[qhead])
    BY <1>3, <1>5, LiteralFacts
  <2>4. -trail[qhead] \in db'[a].lits
    BY <1>3, <1>4, ClauseFacts
  <2>5. \E y \in db'[a].lits : Var(y) # Var(x) /\ level[Var(y)] # 0
    BY <1>3, <2>1, <2>2, <2>3, <2>4 DEF LevelOf
  <2>6. decisionLevel' # 0 /\ trail_lim'[1] = trail_lim[1]
    BY <1>1, <1>2, <1>5 DEF decisionLevel
  <2>7. /\ trail' = Append(trail, x) /\ reason' = [reason EXCEPT ![Var(x)] = a]
        /\ level' = [level EXCEPT ![Var(x)] = decisionLevel] /\ decisionLevel \in Nat \ {0}
    BY <1>1, <1>2, <1>5, <1>7
  <2> HIDE DEF x
  <2>8. QED
    BY <1>2, <1>3, <1>4, <2>2, <2>5, <2>6, <2>7, GrownAssuming
<1>8. QED
  BY <1>6, <1>7

LEMMA AssumeAssuming == IInv /\ Assuming /\ Assume => Assuming'
<1> SUFFICES ASSUME IInv, Assuming, Assume PROVE Assuming'
  OBVIOUS
<1> DEFINE x == assumps[decisionLevel + 1]
<1>1. /\ pc = "assume" /\ ~IsFalse(x) /\ trail_lim' = Append(trail_lim, Len(trail))
      /\ IF IsTrue(x) THEN UNCHANGED <<trail, reason, level>>
         ELSE /\ trail' = Append(trail, x)
              /\ reason' = [reason EXCEPT ![Var(x)] = 0]
              /\ level' = [level EXCEPT ![Var(x)] = decisionLevel + 1]
      /\ db' = db /\ x \in Literal /\ pc' = pc
  BY AssumptionFacts DEF Assume, At, memory
<1>2. /\ session \in Session /\ Assigned /\ decisionLevel \in Nat /\ DOMAIN trail_lim = 1 .. decisionLevel
      /\ Len(trail) \in Nat /\ DOMAIN trail = 1 .. Len(trail) /\ trail_lim \in Seq(Nat)
  BY StateFacts
<1>3. /\ decisionLevel' # 0
      /\ decisionLevel > 0 => trail_lim'[1] = trail_lim[1]
      /\ decisionLevel = 0 => trail_lim'[1] = Len(trail)
  BY <1>1, <1>2 DEF decisionLevel
<1> HIDE DEF x
<1>4. CASE IsTrue(x)
  <2>1. UNCHANGED <<trail, reason, level, db, pc>>
    BY <1>1, <1>4
  <2>2. \A n \in DOMAIN trail : LevelOf(n) = 0 => n <= trail_lim'[1]
    BY <1>1, <1>2, <1>3 DEF Assuming
  <2>3. QED
    BY <1>1, <1>3, <2>1, <2>2 DEF Assuming, LevelOf
<1>5. CASE ~IsTrue(x)
  <2>1. \A n \in DOMAIN trail : Var(trail[n]) # Var(x)
    BY <1>1, <1>2, <1>5, FalseFacts
  <2>2. decisionLevel + 1 \in Nat \ {0} /\ \A b \in DOMAIN db : db'[b].lits = db[b].lits
    BY <1>1, <1>2
  <2>3. QED
    BY <1>1, <1>3, <1>5, <2>1, <2>2, GrownAssuming
<1>6. QED
  BY <1>4, <1>5

LEMMA NextAssuming == IInv /\ Assuming /\ [Next]_vars => Assuming'
<1> SUFFICES ASSUME IInv, Assuming, [Next]_vars PROVE Assuming'
  OBVIOUS
<1>0. CASE pc' # "assume"
  BY <1>0 DEF Assuming
<1>1. CASE VisitUnit \/ Assume
  BY <1>1, VisitUnitAssuming, AssumeAssuming
<1>2. CASE TakeNext
  <2>1. pc' = pc /\ UNCHANGED <<trail, trail_lim, level, reason, db>> /\ Propagating
    BY <1>2 DEF TakeNext, Propagating, memory
  <2>2. QED
    BY <2>1, KeepAssuming DEF Assuming
<1>3. CASE VisitSatisfied \/ VisitNewWatch
  <2>1. PICK a \in todo : \E s : db' = [db EXCEPT ![a] = [Turned(a) EXCEPT !.second = s]]
    <3>1. ASSUME NEW a \in todo
          PROVE  Turned(a) = [Turned(a) EXCEPT !.second = Turned(a).second]
      BY VisitFacts DEF Clause
    <3>2. QED
      BY <1>3, <3>1 DEF VisitSatisfied, VisitNewWatch
  <2>2. a \in DOMAIN db /\ Turned(a).lits = db[a].lits /\ Propagating
    <3>1. a \in DOMAIN db /\ Turned(a) = Clause(db[a].learnt, Turned(a).first, Turned(a).second, db[a].lits, db[a].id)
      BY VisitFacts
    <3>2. Clause(db[a].learnt, Turned(a).first, Turned(a).second, db[a].lits, db[a].id).lits = db[a].lits
      BY DEF Clause
    <3>3. QED
      BY <3>1, <3>2 DEF Propagating
  <2>3. \A b \in DOMAIN db : db'[b].lits = db[b].lits
    <3>1. \A s : [Turned(a) EXCEPT !.second = s].lits = Turned(a).lits
      BY VisitFacts DEF Clause
    <3>2. QED
      BY <2>1, <2>2, <3>1
  <2>4. pc' = pc /\ UNCHANGED <<trail, trail_lim, level, reason>>
    BY <1>3 DEF VisitSatisfied, VisitNewWatch, assignment
  <2>5. QED
    BY <2>2, <2>3, <2>4, KeepAssuming DEF Assuming
<1>4. CASE SimplifyDB
  <2>1. /\ pc = "simplifyDB" /\ ~Propagating /\ confl = 0
        /\ UNCHANGED <<trail, trail_lim, level, reason, qhead, todo, confl>>
    BY <1>4 DEF SimplifyDB, At, assignment, propagation
  <2>2. decisionLevel = 0 /\ Assigned
    BY <2>1 DEF IInv, Calls
  <2>3. \A n \in DOMAIN trail : LevelOf(n) = 0
    BY <2>2, TopLevels
  <2>4. ~Propagating' /\ decisionLevel' = 0
    BY <2>1, <2>2 DEF Propagating, decisionLevel
  <2>5. QED
    BY <2>1, <2>3, <2>4 DEF Assuming, LevelOf
<1>5. CASE Terminating \/ UNCHANGED vars
  BY <1>5, KeepAssuming DEF Terminating, vars, memory, assignment, propagation, Assuming, Propagating
<1>6. CASE AddClause \/ Solve \/ SimplifyConflict \/ StartSearch
  <2>1. pc' # "assume"
    BY <1>6 DEF AddClause, Solve, SimplifyConflict, StartSearch, Answer
  <2>2. QED
    BY <1>0, <2>1
<1>7. CASE AssumeFalse \/ AssumeConflict \/ SearchConflict \/ FindModel
  <2>1. pc' # "assume"
    BY <1>7 DEF AssumeFalse, AssumeConflict, SearchConflict, FindModel, Answer
  <2>2. QED
    BY <1>0, <2>1
<1>8. CASE Learn \/ Restart \/ SearchSimplify \/ ReduceDB \/ Decide
  <2>1. pc' # "assume"
    BY <1>8 DEF Learn, Restart, SearchSimplify, Simplify, ReduceDB, Decide, Ready, At, Tidy
  <2>2. QED
    BY <1>0, <2>1
<1>9. QED
  BY <1>0, <1>1, <1>2, <1>3, <1>4, <1>5, <1>6, <1>7, <1>8 DEF Next, Propagate

-----------------------------------------------------------------------------
(***************************************************************************)
(* analyzeFinal finds an assumption: it starts from a literal above the    *)
(* top level, and there a reason leads to another one such.                *)
(***************************************************************************)
Pending(w, n) ==
  /\ w = [seen |-> w.seen, conflict |-> w.conflict, steps |-> w.steps]
  /\ w.conflict = {} => \E m \in 1 .. Len(trail) - n : LevelOf(m) # 0 /\ Var(trail[m]) \in w.seen

LEMMA PendingStep ==
  ASSUME IInv, Assuming, pc = "assume", NEW n \in 1 .. Len(trail), NEW w, Pending(w, n - 1)
  PROVE  Pending(Trace(w, trail[Len(trail) + 1 - n]), n)
<1> DEFINE p == Len(trail) + 1 - n
           x == trail[p]
           a == reason[Var(x)]
           u == Trace(w, x)
<1>1. /\ session \in Session /\ Assigned /\ Len(trail) \in Nat /\ DOMAIN trail = 1 .. Len(trail)
      /\ \A i, j \in DOMAIN trail : Var(trail[i]) = Var(trail[j]) => i = j
  BY StateFacts
<1>2. p \in DOMAIN trail /\ Len(trail) - n = p - 1 /\ Len(trail) - (n - 1) = p
  BY <1>1
<1>3. \A m \in 1 .. p : m \in DOMAIN trail /\ (m \in 1 .. p - 1 \/ m = p)
  BY <1>1, <1>2
<1>4. w = [seen |-> w.seen, conflict |-> w.conflict, steps |-> w.steps]
  BY DEF Pending
<1>5. w.conflict = {} => \E m \in 1 .. p : LevelOf(m) # 0 /\ Var(trail[m]) \in w.seen
  BY <1>2 DEF Pending
<1> SUFFICES Pending(u, n)
  OBVIOUS
<1> HIDE DEF p
<1>6. CASE Var(x) \notin w.seen
  <2>1. u = w
    BY <1>6 DEF Trace
  <2>2. w.conflict = {} => \E m \in 1 .. p - 1 : LevelOf(m) # 0 /\ Var(trail[m]) \in w.seen
    BY <1>3, <1>5, <1>6
  <2>3. Pending(w, n)
    BY <1>2, <1>4, <2>2 DEF Pending
  <2>4. QED
    BY <2>1, <2>3
<1>7. CASE Var(x) \in w.seen /\ a = 0
  <2>1. u = [w EXCEPT !.conflict = @ \cup {-x}]
    BY <1>7 DEF Trace
  <2>2. /\ -x \in u.conflict
        /\ u = [seen |-> u.seen, conflict |-> u.conflict, steps |-> u.steps]
    BY <1>4, <2>1
  <2> HIDE DEF u, x
  <2>3. QED
    BY <2>2 DEF Pending
<1>8. CASE Var(x) \in w.seen /\ a # 0
  <2> DEFINE new == VarsOf(Deep(Antecedents(a)))
  <2>1. u = [w EXCEPT !.seen = @ \cup new, !.steps = @ \o ReasonSteps(Var(x))]
    BY <1>8 DEF Trace
  <2>2. /\ u.seen = w.seen \cup new /\ u.conflict = w.conflict
        /\ u = [seen |-> u.seen, conflict |-> u.conflict, steps |-> u.steps]
    <3> HIDE DEF new, u
    <3>1. QED
      BY <1>4, <2>1
  <2>3. LevelOf(p) # 0 => \E m \in 1 .. p - 1 : LevelOf(m) # 0 /\ Var(trail[m]) \in new
    <3>1. SUFFICES ASSUME LevelOf(p) # 0
                   PROVE  \E m \in 1 .. p - 1 : LevelOf(m) # 0 /\ Var(trail[m]) \in new
      OBVIOUS
    <3>2. PICK y \in db[a].lits : Var(y) # Var(x) /\ level[Var(y)] # 0
      BY <1>2, <1>8, <3>1 DEF Assuming
    <3>3. /\ a \in DOMAIN db /\ db[a].first = x
          /\ \A z \in Antecedents(a) : \E m \in 1 .. p - 1 : trail[m] = -z
      BY <1>1, <1>2, <1>8, ReasonFacts, TrailFacts, ZenonT(60) DEF Reasoned, Implies
    <3>4. y \in Antecedents(a)
      BY <3>2, <3>3 DEF Antecedents
    <3>5. PICK m \in 1 .. p - 1 : trail[m] = -y
      BY <3>3, <3>4
    <3>6. Var(trail[m]) = Var(y)
      BY <1>1, <3>3, <3>4, <3>5, LiteralFacts, ReasonFacts, <1>8, <1>2
    <3>7. Var(y) \in new
      BY <3>2, <3>4 DEF VarsOf, Deep, AtTop
    <3>8. QED
      BY <3>2, <3>5, <3>6, <3>7 DEF LevelOf
  <2> HIDE DEF new, u
  <2>4. u.conflict = {} => \E m \in 1 .. p - 1 : LevelOf(m) # 0 /\ Var(trail[m]) \in u.seen
    BY <1>3, <1>5, <2>2, <2>3
  <2>5. QED
    BY <1>2, <2>2, <2>4 DEF Pending
<1>9. QED
  BY <1>6, <1>7, <1>8

LEMMA FinalAssumes ==
  ASSUME IInv, Assuming, pc = "assume", confl # 0
  PROVE  analyzeFinal(confl, db[confl].lits).conflict # {}
<1> DEFINE lits  == db[confl].lits
           steps == UnitSteps(lits)
           w == TraceBack(lits, steps)
           T == {n \in 0 .. Len(trail) : ~Pending(w[n], n)}
           K == Len(trail) - Len(Cut(0))
<1>1. session \in Session /\ Assigned /\ decisionLevel # 0 /\ decisionLevel <= root_level
  BY DEF IInv, Calls, Assuming
<1>2. /\ Len(trail) \in Nat /\ DOMAIN trail = 1 .. Len(trail) /\ 0 \in 0 .. decisionLevel
      /\ Divided(trail, trail_lim) /\ Levelled(trail, trail_lim, level, root_level)
      /\ \A n \in DOMAIN trail : trail[n] \in Literal
      /\ decisionLevel \in Nat /\ root_level \in Nat /\ DOMAIN trail_lim = 1 .. decisionLevel
      /\ \A k \in DOMAIN trail_lim : trail_lim[k] \in Nat
  BY <1>1, TrailFacts, StateFacts
<1>3. analyzeFinal(confl, lits).conflict = Assumed(lits, steps).conflict
  BY <1>1, <1>2 DEF analyzeFinal
<1>4. /\ w[0] = [seen |-> VarsOf(Deep(lits)), conflict |-> {}, steps |-> steps]
      /\ \A n \in 1 .. Len(trail) : w[n] = Trace(w[n - 1], trail[Len(trail) + 1 - n])
  <2>1. Len(trail) \in Nat
    BY <1>2
  <2>2. QED
    BY <2>1, TraceBackFacts
<1>5. \E m \in DOMAIN trail : LevelOf(m) # 0 /\ Var(trail[m]) \in VarsOf(Deep(lits))
  <2>1. PICK m \in DOMAIN trail : -trail[m] \in lits /\ \A k \in DOMAIN trail_lim : trail_lim[k] < m
    BY DEF IInv, Queue
  <2>2. LevelOf(m) # 0
    <3>1. 1 \in DOMAIN trail_lim
      BY <1>1, <1>2
    <3>2. trail_lim[1] < m /\ trail_lim[1] \in Nat /\ m \in Nat
      BY <1>2, <2>1, <3>1
    <3>3. LevelOf(m) = 0 => m <= trail_lim[1]
      BY <1>1, <1>2 DEF Assuming
    <3>4. QED
      BY <3>2, <3>3
  <2>3. Var(-trail[m]) = Var(trail[m])
    BY <1>1, <1>2, LiteralFacts
  <2>4. QED
    BY <2>1, <2>2, <2>3 DEF LevelOf, VarsOf, Deep, AtTop
<1> HIDE DEF lits, steps
<1>6. T = {}
  <2>1. SUFFICES ASSUME T # {} PROVE FALSE
    OBVIOUS
  <2>2. PICK n \in T : \A m \in T : n <= m
    <3>1. T \in SUBSET Nat
      OBVIOUS
    <3> HIDE DEF T
    <3>2. QED
      BY <2>1, <3>1, LeastMember
  <2> HIDE DEF w
  <2>3. n \in 0 .. Len(trail) /\ ~Pending(w[n], n)
    BY <2>2
  <2> HIDE DEF T
  <2>4. CASE n = 0
    <3>1. Len(trail) - 0 = Len(trail)
      BY <1>2
    <3>2. Pending(w[0], 0)
      BY <1>2, <1>4, <1>5, <3>1 DEF Pending
    <3>3. QED
      BY <2>3, <2>4, <3>2
  <2>5. CASE n # 0
    <3>1. n \in 1 .. Len(trail) /\ n - 1 \in 0 .. Len(trail) /\ n - 1 < n
      BY <1>2, <2>3, <2>5
    <3>2. Pending(w[n - 1], n - 1)
      BY <2>2, <3>1 DEF T
    <3>3. w[n] = Trace(w[n - 1], trail[Len(trail) + 1 - n])
      BY <1>4, <3>1
    <3>4. Pending(w[n], n)
      BY <3>1, <3>2, <3>3, PendingStep
    <3>5. QED
      BY <2>3, <3>4
  <2>6. QED
    BY <2>4, <2>5
<1>7. Len(Cut(0)) \in 0 .. Len(trail) /\ DOMAIN Cut(0) = 1 .. Len(Cut(0))
  BY <1>1, <1>2, CutFacts
<1>8. K \in 0 .. Len(trail) /\ Len(trail) - K = Len(Cut(0))
  BY <1>2, <1>7
<1>9. Pending(w[K], K)
  <2> HIDE DEF K, w
  <2>1. QED
    BY <1>6, <1>8
<1>10. w[K] = Assumed(lits, steps)
  BY DEF Assumed
<1> HIDE DEF K, w
<1>11. ASSUME NEW m \in 1 .. Len(trail) - K PROVE LevelOf(m) = 0
  <2>1. m \in DOMAIN Cut(0) /\ m \in DOMAIN trail
    BY <1>2, <1>7, <1>8
  <2>2. QED
    BY <1>1, <1>2, <2>1, CutLevels
<1>12. w[K].conflict # {}
  BY <1>9, <1>11 DEF Pending
<1>13. QED
  BY <1>3, <1>10, <1>12 DEF lits

-----------------------------------------------------------------------------
(***************************************************************************)
(* The assertions.  removeWatch finds the clause in the lists of its two   *)
(* literals that were not cleared.                                         *)
(***************************************************************************)
LEMMA StillListed ==
  ASSUME IInv, WInv, NEW lists, NEW settled, NEW a \in DOMAIN db, Settled \subseteq settled,
         \A x \in Literal : lists[x] = IF x \in settled \/ -x \in settled THEN {} ELSE watches[x]
  PROVE  Removable(lists, a)
<1>1. SUFFICES ASSUME NEW w \in {db[a].first, db[a].second}, lists[-w] # {}
               PROVE  a \in lists[-w]
  BY DEF Removable
<1>2. w \in Literal /\ -w \in Literal /\ -(-w) = w /\ session \in Session
  BY ClauseFacts, StateFacts, LiteralFacts
<1>3. w \in Settled \/ -w \in Settled \/ a \in watches[-w]
  BY DEF WInv, Lists
<1>4. lists[-w] = watches[-w] /\ w \notin settled /\ -w \notin settled
  BY <1>1, <1>2
<1>5. QED
  BY <1>3, <1>4

LEMMA SimplifyAsserts ==
  ASSUME IInv, WInv, decisionLevel = 0, qhead = Len(trail), NEW next, next # "assert",
         Simplify(next), trail' = trail
  PROVE  pc' # "assert"
<1> DEFINE gone == {a \in DOMAIN db : ~locked(a) /\ \E x \in db[a].lits : IsTrue(x)}
<1>1. CASE pc' = next
  BY <1>1
<1>2. CASE /\ simpDB_assigns' = Len(trail)
           /\ pc' = IF \A a \in gone : Removable(Cleared, a) THEN next ELSE "assert"
  <2>1. \A x \in Literal :
          Cleared[x] = IF x \in Settled' \/ -x \in Settled' THEN {} ELSE watches[x]
    BY <1>2, ClearedFacts
  <2>2. Settled \subseteq Settled'
    <3>1. /\ simpDB_assigns \in Nat /\ simpDB_assigns <= Len(trail) /\ Len(trail) \in Nat
      BY StateFacts, SettledFacts DEF WInv
    <3>2. 1 .. simpDB_assigns \subseteq 1 .. Len(trail)
      BY <3>1
    <3>3. QED
      BY <1>2, <3>2 DEF Settled
  <2>3. \A a \in DOMAIN db : Removable(Cleared, a)
    <3> DEFINE lists == Cleared
               settled == Settled'
    <3>1. \A x \in Literal : lists[x] = IF x \in settled \/ -x \in settled THEN {} ELSE watches[x]
      BY <2>1
    <3>2. Settled \subseteq settled
      BY <2>2
    <3> HIDE DEF lists, settled
    <3>3. \A a \in DOMAIN db : Removable(lists, a)
      BY <3>1, <3>2, StillListed
    <3>4. QED
      BY <3>3 DEF lists
  <2>4. QED
    BY <1>2, <2>3
<1>3. QED
  BY <1>1, <1>2 DEF Simplify

LEMMA ReduceDBAsserts ==
  ASSUME IInv, WInv, ReduceDB
  PROVE  pc' # "assert"
<1>1. PICK dropped \in SUBSET DOMAIN db :
        pc' = IF \A a \in dropped : Removable(watches, a) THEN "decide" ELSE "assert"
  BY DEF ReduceDB, Learnts
<1>2. \A x \in Literal : watches[x] = IF x \in Settled \/ -x \in Settled THEN {} ELSE watches[x]
  BY DEF WInv, Lists
<1>3. \A a \in DOMAIN db : Removable(watches, a)
  BY <1>2, StillListed
<1>4. QED
  BY <1>1, <1>3

\* The literal that a clause implies at the top level has no unit clause yet.
LEMMA VisitUnitAsserts ==
  ASSUME IInv, Units, VisitUnit, pc # "assert"
  PROVE  pc' # "assert"
<1>1. PICK a \in todo :
        /\ ~IsTrue(Turned(a).first)
        /\ pc' = pc \/ pc' = IF unit_id[Var(Turned(a).first)] = 0 \/ IsFalse(Turned(a).first)
                             THEN pc ELSE "assert"
  BY DEF VisitUnit
<1> DEFINE x == Turned(a).first
<1>2. x \in Literal /\ session \in Session /\ Assigned /\ Var(x) \in Variable
  <2>1. a \in DOMAIN db /\ x \in {db[a].first, db[a].second}
    BY VisitFacts
  <2>2. QED
    BY <2>1, ClauseFacts, StateFacts, LiteralFacts
<1> HIDE DEF x
<1>3. unit_id[Var(x)] = 0 \/ IsFalse(x)
  <2>1. SUFFICES ASSUME unit_id[Var(x)] # 0, ~IsFalse(x) PROVE FALSE
    OBVIOUS
  <2>2. \A n \in DOMAIN trail : Var(trail[n]) # Var(x)
    BY <1>1, <1>2, <2>1, FalseFacts DEF x
  <2>3. QED
    BY <1>2, <2>1, <2>2 DEF Units
<1>4. QED
  BY <1>1, <1>3 DEF x

LEMMA NextAsserts == IInv /\ WInv /\ AInv /\ [Next]_vars => AssertsHold'
<1> SUFFICES ASSUME IInv, WInv, AInv, [Next]_vars PROVE pc' # "assert"
  BY DEF AssertsHold
<1>0. Units /\ Assuming /\ pc # "assert"
  BY DEF AInv, AssertsHold
<1>1. CASE VisitUnit
  BY <1>0, <1>1, VisitUnitAsserts
<1>2. CASE SimplifyDB \/ SearchSimplify
  <2>1. \E next \in {"assume", "simplified"} : Simplify(next)
    BY <1>2 DEF SimplifyDB, SearchSimplify
  <2>2. trail' = trail /\ \E method \in {"simplifyDB", "assume", "search"} : At(method)
    BY <1>2 DEF SimplifyDB, SearchSimplify, Ready, assignment
  <2>3. decisionLevel = 0
    BY <1>2 DEF SimplifyDB, SearchSimplify, At, IInv, Calls
  <2>4. QED
    BY <2>1, <2>2, <2>3, Propagated, SimplifyAsserts
<1>3. CASE ReduceDB
  BY <1>3, ReduceDBAsserts
<1>4. CASE AssumeFalse
  <2>1. session.logged => root_level = 0
    BY <1>4, LoggedFacts DEF AssumeFalse, At, InQuery
  <2>2. ~session.logged
    BY <1>4, <2>1, StateFacts DEF AssumeFalse
  <2>3. QED
    BY <1>4, <2>2 DEF AssumeFalse, Answer
<1>5. CASE AssumeConflict
  <2>1. analyzeFinal(confl, db[confl].lits).conflict # {}
    BY <1>0, <1>5, FinalAssumes DEF AssumeConflict, At
  <2>2. QED
    BY <1>5, <2>1 DEF AssumeConflict, Answer
<1>6. CASE AddClause \/ Solve \/ TakeNext \/ VisitSatisfied \/ VisitNewWatch
  BY <1>0, <1>6 DEF AddClause, Solve, Answer, TakeNext, VisitSatisfied, VisitNewWatch
<1>7. CASE SimplifyConflict \/ Assume \/ StartSearch \/ Learn \/ SearchConflict
  BY <1>0, <1>7 DEF SimplifyConflict, Assume, StartSearch, Learn, SearchConflict, Answer
<1>8. CASE Restart \/ Decide \/ FindModel \/ Terminating \/ UNCHANGED vars
  BY <1>0, <1>8 DEF Restart, Decide, FindModel, Answer, Terminating, vars
<1>9. QED
  BY <1>1, <1>2, <1>3, <1>4, <1>5, <1>6, <1>7, <1>8 DEF Next, Propagate

LEMMA SpecAInv == Spec => [](IInv /\ WInv /\ AInv)
<1>1. Init => AInv
  <2> SUFFICES ASSUME Init PROVE AInv
    OBVIOUS
  <2>1. Units
    BY DEF Init, Units
  <2>2. QED
    BY <2>1 DEF Init, AInv, Assuming, AssertsHold
<1>2. IInv /\ WInv /\ AInv /\ [Next]_vars => AInv'
  BY NextUnits, NextAssuming, NextAsserts DEF AInv
<1>3. QED
  BY <1>1, <1>2, SpecWInv, PTL DEF Spec

(***************************************************************************)
(* No assertion of the solver fails: removeWatch finds the clause,         *)
(* propagate derives no second unit clause for a variable, and the final   *)
(* conflict names an assumption.                                           *)
(***************************************************************************)
THEOREM AssertionsHold == Spec => []AssertsHold
<1>1. AInv => AssertsHold
  BY DEF AInv
<1>2. QED
  BY <1>1, SpecAInv, PTL

-----------------------------------------------------------------------------
(***************************************************************************)
(* The types.  Each decision above the assumptions put a literal on the    *)
(* trail, so that there are no more levels than variables.                 *)
(***************************************************************************)
Decided ==
  \A k \in DOMAIN trail_lim : k > root_level =>
    trail_lim[k] < Len(trail) /\ \A j \in DOMAIN trail_lim : k < j => trail_lim[k] < trail_lim[j]

LEMMA GrownDecided ==
  ASSUME IInv, Decided, UNCHANGED <<trail_lim, root_level>>, NEW x,
         trail' = trail \/ trail' = Append(trail, x)
  PROVE  Decided'
<1>1. /\ Len(trail) \in Nat /\ \A k \in DOMAIN trail_lim : trail_lim[k] \in Nat
      /\ trail \in Seq(Literal)
  BY StateFacts, TrailFacts DEF Divided
<1>2. Len(trail') = Len(trail) \/ Len(trail') = Len(trail) + 1
  BY <1>1
<1>3. QED
  BY <1>1, <1>2 DEF Decided

LEMMA TopDecided ==
  ASSUME trail_lim' = <<>>
  PROVE  Decided'
  BY DEF Decided

LEMMA BackedDecided ==
  ASSUME IInv, Decided, NEW l \in 0 .. decisionLevel, trail_lim' = SubSeq(trail_lim, 1, l),
         root_level' = root_level, NEW x, trail' = Cut(l) \/ trail' = Append(Cut(l), x)
  PROVE  Decided'
<1>1. /\ Len(trail) \in Nat /\ \A k \in DOMAIN trail_lim : trail_lim[k] \in Nat
      /\ trail \in Seq(Literal) /\ trail_lim \in Seq(Nat) /\ decisionLevel \in Nat
      /\ DOMAIN trail_lim = 1 .. decisionLevel /\ root_level \in Nat
  BY StateFacts, TrailFacts DEF Divided
<1>2. DOMAIN trail_lim' = 1 .. l /\ \A k \in 1 .. l : trail_lim'[k] = trail_lim[k] /\ k \in DOMAIN trail_lim
  BY <1>1 DEF decisionLevel
<1>4. Len(trail') = Len(Cut(l)) \/ Len(trail') = Len(Cut(l)) + 1
  BY StateFacts, TrailFacts, CutFacts
<1>5. SUFFICES ASSUME NEW k \in 1 .. l, k > root_level
               PROVE  /\ trail_lim[k] < Len(trail')
                      /\ \A j \in 1 .. l : k < j => trail_lim[k] < trail_lim[j]
  BY <1>2 DEF Decided
<1>6. /\ trail_lim[k] < Len(trail)
      /\ \A j \in DOMAIN trail_lim : k < j => trail_lim[k] < trail_lim[j]
  BY <1>2, <1>5 DEF Decided
<1>7. trail_lim[k] < Len(Cut(l))
  <2>1. CASE l = decisionLevel
    <3>1. Len(Cut(l)) = Len(trail)
      BY <2>1, StateFacts, TrailFacts, CutFacts
    <3>2. QED
      BY <1>6, <3>1
  <2>2. CASE l < decisionLevel
    <3>1. l + 1 \in DOMAIN trail_lim /\ k < l + 1
      BY <1>1, <2>2
    <3>2. Len(Cut(l)) = trail_lim[l + 1]
      BY <2>2, StateFacts, TrailFacts, CutFacts
    <3>3. QED
      BY <1>6, <3>1, <3>2
  <2>3. QED
    BY <1>1, <2>1, <2>2
<1>8. Len(Cut(l)) \in Nat /\ trail_lim[k] \in Nat
  BY <1>1, <1>2, StateFacts, TrailFacts, CutFacts
<1>9. QED
  BY <1>2, <1>4, <1>6, <1>7, <1>8

LEMMA OpenedDecided ==
  ASSUME IInv, Decided, trail_lim' = Append(trail_lim, Len(trail)), root_level' = root_level,
         NEW x \in Literal, trail' = Append(trail, x) \/ (trail' = trail /\ decisionLevel < root_level)
  PROVE  Decided'
<1>1. /\ Len(trail) \in Nat /\ \A k \in DOMAIN trail_lim : trail_lim[k] \in Nat
      /\ trail \in Seq(Literal) /\ trail_lim \in Seq(Nat) /\ decisionLevel \in Nat
      /\ DOMAIN trail_lim = 1 .. decisionLevel /\ root_level \in Nat
  BY StateFacts, TrailFacts DEF Divided
<1>2. /\ DOMAIN trail_lim' = 1 .. decisionLevel + 1 /\ trail_lim'[decisionLevel + 1] = Len(trail)
      /\ \A k \in 1 .. decisionLevel : trail_lim'[k] = trail_lim[k]
  BY <1>1 DEF decisionLevel
<1>3. CASE trail' = trail /\ decisionLevel < root_level
  <2>1. \A k \in DOMAIN trail_lim' : ~(k > root_level)
    BY <1>1, <1>2, <1>3
  <2>2. QED
    BY <2>1 DEF Decided
<1>4. CASE trail' = Append(trail, x)
  <2>1. Len(trail') = Len(trail) + 1
    BY <1>1, <1>4
  <2>2. SUFFICES ASSUME NEW k \in 1 .. decisionLevel + 1, k > root_level
                 PROVE  /\ trail_lim'[k] < Len(trail) + 1
                        /\ \A j \in 1 .. decisionLevel + 1 : k < j => trail_lim'[k] < trail_lim'[j]
    BY <1>2, <2>1 DEF Decided
  <2>3. CASE k = decisionLevel + 1
    BY <1>1, <1>2, <2>3
  <2>4. CASE k \in 1 .. decisionLevel
    <3>1. /\ trail_lim[k] < Len(trail)
          /\ \A j \in 1 .. decisionLevel : k < j => trail_lim[k] < trail_lim[j]
      BY <1>1, <2>2, <2>4 DEF Decided
    <3>2. trail_lim'[k] = trail_lim[k] /\ trail_lim[k] \in Nat
      BY <1>1, <1>2, <2>4
    <3>3. ASSUME NEW j \in 1 .. decisionLevel + 1, k < j PROVE trail_lim'[k] < trail_lim'[j]
      <4>1. CASE j = decisionLevel + 1
        BY <1>2, <3>1, <3>2, <4>1
      <4>2. CASE j \in 1 .. decisionLevel
        BY <1>2, <3>1, <3>2, <3>3, <4>2
      <4>3. QED
        BY <1>1, <4>1, <4>2
    <3>4. QED
      BY <1>1, <3>1, <3>2, <3>3
  <2>5. QED
    BY <1>1, <2>3, <2>4
<1>5. QED
  BY <1>3, <1>4

LEMMA CancelledDecided ==
  ASSUME IInv, cancelUntil(0)
  PROVE  Decided'
<1>1. trail_lim \in Seq(Nat)
  BY StateFacts
<1>2. trail_lim' = <<>>
  BY <1>1 DEF cancelUntil
<1>3. QED
  BY <1>2, TopDecided

LEMMA NextDecided == IInv /\ Decided /\ [Next]_vars => Decided'
<1> SUFFICES ASSUME IInv, Decided, [Next]_vars PROVE Decided'
  OBVIOUS
<1>0. CASE UNCHANGED <<trail, trail_lim, root_level>>
  BY <1>0, GrownDecided
<1>1. CASE AddClause \/ VisitUnit
  <2>1. /\ UNCHANGED <<trail_lim, root_level>>
        /\ \E x : trail' = trail \/ trail' = Append(trail, x)
    BY <1>1 DEF AddClause, VisitUnit, assignment
  <2>2. QED
    BY <2>1, GrownDecided
<1>2. CASE Solve \/ SimplifyDB
  <2>1. trail_lim' = trail_lim /\ decisionLevel = 0
    BY <1>2 DEF Solve, SimplifyDB, At, assignment, IInv, Calls
  <2>2. trail_lim \in Seq(Nat)
    BY StateFacts
  <2>3. trail_lim' = <<>>
    BY <2>1, <2>2, EmptySeq DEF decisionLevel
  <2>4. QED
    BY <2>3, TopDecided
<1>3. CASE TakeNext \/ VisitSatisfied \/ VisitNewWatch
  BY <1>3, <1>0 DEF TakeNext, VisitSatisfied, VisitNewWatch, assignment
<1>4. CASE SimplifyConflict \/ StartSearch \/ SearchSimplify \/ ReduceDB
  BY <1>4, <1>0 DEF SimplifyConflict, StartSearch, SearchSimplify, ReduceDB, assignment
<1>5. CASE Terminating \/ UNCHANGED vars
  BY <1>5, <1>0 DEF Terminating, vars, assignment
<1>6. CASE AssumeFalse \/ AssumeConflict \/ SearchConflict \/ FindModel
  <2>1. cancelUntil(0)
    BY <1>6 DEF AssumeFalse, AssumeConflict, SearchConflict, FindModel
  <2>2. QED
    BY <2>1, CancelledDecided
<1>7. CASE Restart
  <2>1. /\ trail' = Cut(root_level) /\ trail_lim' = SubSeq(trail_lim, 1, root_level)
        /\ root_level' = root_level /\ pc = "search"
    BY <1>7 DEF Restart, cancelUntil, Ready, At
  <2>2. root_level \in 0 .. decisionLevel
    BY <2>1, StateFacts DEF IInv, Calls
  <2>3. QED
    BY <2>1, <2>2, BackedDecided
<1>8. CASE Learn
  <2> DEFINE K == Max({analyze.back, root_level})
             x == analyze.uip
  <2>1. /\ trail' = Append(Cut(K), x) /\ trail_lim' = SubSeq(trail_lim, 1, K)
        /\ root_level' = root_level
    BY <1>8 DEF Learn
  <2>2. K \in 0 .. decisionLevel
    BY <1>8, LearnBacked
  <2> HIDE DEF K, x
  <2>3. QED
    BY <2>1, <2>2, BackedDecided
<1>9. CASE Assume
  <2> DEFINE x == assumps[decisionLevel + 1]
  <2>1. /\ x \in Literal /\ decisionLevel < root_level /\ root_level' = root_level
        /\ trail_lim' = Append(trail_lim, Len(trail)) /\ (trail' = trail \/ trail' = Append(trail, x))
    BY <1>9, AssumptionFacts DEF Assume
  <2> HIDE DEF x
  <2>2. QED
    BY <2>1, OpenedDecided
<1>10. CASE Decide
  <2>1. PICK v \in Variable : trail' = Append(trail, -v)
    BY <1>10 DEF Decide, Selectable
  <2>2. -v \in Literal
    BY StateFacts, LiteralFacts
  <2>3. trail_lim' = Append(trail_lim, Len(trail)) /\ root_level' = root_level
    BY <1>10 DEF Decide
  <2>4. QED
    BY <2>1, <2>2, <2>3, OpenedDecided
<1>11. QED
  BY <1>1, <1>2, <1>3, <1>4, <1>5, <1>6, <1>7, <1>8, <1>9, <1>10 DEF Next, Propagate

\* The place on the trail of the k-th assumption, or decision above them.
Opens(k, n) ==
  /\ n \in DOMAIN trail
  /\ k <= root_level => /\ trail[n] = assumps[k]
                        /\ \A j \in DOMAIN trail_lim : j > root_level => n <= trail_lim[j]
  /\ k > root_level => n = trail_lim[k] + 1

LEMMA OpensApart ==
  ASSUME IInv, Decided, InQuery, NEW j \in DOMAIN trail_lim, NEW k \in DOMAIN trail_lim, j < k,
         NEW m, Opens(j, m), NEW n, Opens(k, n)
  PROVE  Var(trail[m]) # Var(trail[n])
<1>1. /\ session \in Session /\ trail_lim \in Seq(Nat) /\ decisionLevel \in Nat
      /\ DOMAIN trail_lim = 1 .. decisionLevel /\ root_level \in Nat
      /\ m \in DOMAIN trail /\ n \in DOMAIN trail /\ m \in Nat /\ n \in Nat
      /\ \A p, q \in DOMAIN trail : Var(trail[p]) = Var(trail[q]) => p = q
      /\ \A i \in DOMAIN trail_lim : trail_lim[i] \in Nat
  BY StateFacts DEF Opens
<1>2. CASE k <= root_level
  <2>1. trail[m] = assumps[j] /\ trail[n] = assumps[k]
    BY <1>1, <1>2 DEF Opens
  <2>2. /\ Len(answers) + 1 \in 1 .. Len(session.queries) /\ root_level = Len(assumps)
        /\ DOMAIN assumps = 1 .. Len(assumps)
    BY <1>1, CallFacts DEF IInv, Calls, assumps
  <2>3. Var(assumps[j]) # Var(assumps[k])
    <3>1. j \in DOMAIN assumps /\ k \in DOMAIN assumps /\ j # k
      BY <1>1, <1>2, <2>2
    <3>2. Len(answers) + 1 \in DOMAIN session.queries
      BY <1>1, <2>2, CallFacts
    <3>3. QED
      BY <1>1, <3>1, <3>2, SessionAssumption DEF assumps
  <2>4. QED
    BY <2>1, <2>3
<1>3. CASE k > root_level /\ j <= root_level
  <2>1. n = trail_lim[k] + 1 /\ m <= trail_lim[k]
    BY <1>3 DEF Opens
  <2>2. m # n
    BY <1>1, <2>1
  <2>3. QED
    BY <1>1, <2>2
<1>4. CASE j > root_level
  <2>1. k > root_level
    BY <1>1, <1>4
  <2>2. n = trail_lim[k] + 1 /\ m = trail_lim[j] + 1 /\ trail_lim[j] < trail_lim[k]
    BY <1>1, <1>4, <2>1 DEF Opens, Decided
  <2>3. m # n
    BY <1>1, <2>2
  <2>4. QED
    BY <1>1, <2>3
<1>5. QED
  BY <1>1, <1>2, <1>3, <1>4

LEMMA LevelsBounded ==
  ASSUME IInv, RInv, Decided,
         pc \in {"idle", "simplifyDB", "assume", "search", "simplified", "decide"}
  PROVE  decisionLevel <= session.vars
<1>1. /\ session \in Session /\ decisionLevel \in Nat /\ DOMAIN trail_lim = 1 .. decisionLevel
      /\ root_level \in Nat /\ DOMAIN trail = 1 .. Len(trail) /\ Len(trail) \in Nat
      /\ \A k \in DOMAIN trail_lim : trail_lim[k] \in Nat
      /\ \A n \in DOMAIN trail : Var(trail[n]) \in Variable
  BY StateFacts
<1>2. session.vars \in Nat
  BY <1>1, SessionAssumption
<1>3. CASE ~InQuery
  <2>1. decisionLevel = 0
    <3>1. pc \in {"idle", "simplifyDB"}
      BY <1>3 DEF InQuery
    <3>2. QED
      BY <3>1 DEF IInv, Calls
  <2>2. QED
    BY <1>2, <2>1
<1>4. CASE InQuery
  <2> DEFINE Q(k, v) == \E n \in DOMAIN trail : Opens(k, n) /\ Var(trail[n]) = v
             f == [k \in 1 .. decisionLevel |-> CHOOSE v \in Variable : Q(k, v)]
  <2>1. ASSUME NEW k \in 1 .. decisionLevel PROVE \E v \in Variable : Q(k, v)
    <3>1. \E n \in DOMAIN trail : Opens(k, n)
      <4>1. CASE k <= root_level
        <5>1. PICK n \in DOMAIN trail :
                trail[n] = assumps[k] /\ \A j \in DOMAIN trail_lim : j > root_level => n <= trail_lim[j]
          BY <1>1, <1>4, <4>1 DEF RInv, Made
        <5>2. ~(k > root_level)
          BY <1>1, <4>1
        <5>3. QED
          BY <4>1, <5>1, <5>2 DEF Opens
      <4>2. CASE k > root_level
        <5>1. trail_lim[k] < Len(trail) /\ trail_lim[k] \in Nat
          BY <1>1, <4>2 DEF Decided
        <5>2. trail_lim[k] + 1 \in DOMAIN trail
          BY <1>1, <5>1
        <5>3. QED
          BY <1>1, <4>2, <5>2 DEF Opens
      <4>3. QED
        BY <1>1, <4>1, <4>2
    <3>2. QED
      BY <1>1, <3>1
  <2> HIDE DEF Q
  <2>2. \A k \in 1 .. decisionLevel : f[k] \in Variable /\ Q(k, f[k])
    BY <2>1
  <2>3. f \in [1 .. decisionLevel -> Variable]
    BY <2>2
  <2> HIDE DEF f
  <2>4. ASSUME NEW j \in 1 .. decisionLevel, NEW k \in 1 .. decisionLevel, j < k PROVE f[j] # f[k]
    <3>1. PICK m \in DOMAIN trail : Opens(j, m) /\ Var(trail[m]) = f[j]
      BY <2>2 DEF Q
    <3>2. PICK n \in DOMAIN trail : Opens(k, n) /\ Var(trail[n]) = f[k]
      BY <2>2 DEF Q
    <3>3. j \in DOMAIN trail_lim /\ k \in DOMAIN trail_lim
      BY <1>1
    <3>4. Var(trail[m]) # Var(trail[n])
      BY <1>4, <2>4, <3>1, <3>2, <3>3, OpensApart
    <3>5. QED
      BY <3>1, <3>2, <3>4
  <2>5. f \in Injection(1 .. decisionLevel, Variable)
    <3>1. \A j, k \in DOMAIN f : f[j] = f[k] => j = k
      BY <1>1, <2>3, <2>4
    <3>2. QED
      BY <2>3, <3>1 DEF Injection, IsInjective
  <2>6. IsFiniteSet(Variable) /\ Cardinality(Variable) = session.vars
    BY <1>2, FS_Interval, SMTT(60) DEF Variable
  <2>7. Cardinality(1 .. decisionLevel) = decisionLevel
    BY <1>1, FS_Interval
  <2>8. QED
    BY <2>5, <2>6, <2>7, FS_Injection
<1>5. QED
  BY <1>3, <1>4

-----------------------------------------------------------------------------
(***************************************************************************)
(* The log only grows, and its clauses keep their names.                   *)
(***************************************************************************)
IsLog(log) == log \in Seq(ToSet(log))

Grows(log, longer) ==
  /\ IsLog(longer)
  /\ LastId(log) <= LastId(longer)
  /\ \A id \in 1 .. LastId(log) : longer[id] = log[id]

LEMMA LogFacts ==
  ASSUME NEW log, IsLog(log)
  PROVE  LastId(log) \in Nat /\ DOMAIN log = 1 .. LastId(log) /\ Grows(log, log)
<1>1. Len(log) \in Nat /\ DOMAIN log = 1 .. Len(log)
  BY DEF IsLog
<1>2. QED
  BY <1>1 DEF Grows, LastId

LEMMA EntryAdded ==
  ASSUME NEW log, IsLog(log), NEW entry
  PROVE  /\ Grows(log, Append(log, entry))
         /\ LastId(Append(log, entry)) = LastId(log) + 1
         /\ Append(log, entry)[LastId(log) + 1] = entry
<1> DEFINE T == ToSet(log) \cup {entry}
           longer == Append(log, entry)
<1>1. Len(log) \in Nat /\ DOMAIN log = 1 .. Len(log) /\ \A i \in DOMAIN log : log[i] \in ToSet(log)
  BY DEF IsLog, ToSet
<1>2. log \in Seq(T)
  <2>1. log = [i \in 1 .. Len(log) |-> log[i]]
    BY DEF IsLog
  <2>2. QED
    BY <1>1, <2>1
<1> HIDE DEF T
<1>3. entry \in T
  BY DEF T
<1>4. /\ longer \in Seq(T) /\ Len(longer) = Len(log) + 1 /\ longer[Len(log) + 1] = entry
      /\ \A i \in 1 .. Len(log) : longer[i] = log[i]
  BY <1>1, <1>2, <1>3
<1> HIDE DEF longer
<1>5. IsLog(longer)
  <2>1. DOMAIN longer = 1 .. Len(longer) /\ \A i \in DOMAIN longer : longer[i] \in ToSet(longer)
    BY <1>4 DEF ToSet
  <2>2. longer = [i \in 1 .. Len(longer) |-> longer[i]] /\ Len(longer) \in Nat
    BY <1>4
  <2>3. QED
    BY <2>1, <2>2 DEF IsLog
<1>6. QED
  BY <1>1, <1>4, <1>5 DEF Grows, LastId, longer

LEMMA GrowsOn ==
  ASSUME NEW a, NEW b, NEW c, IsLog(a), Grows(a, b), Grows(b, c)
  PROVE  Grows(a, c)
<1>1. LastId(a) \in Nat /\ LastId(b) \in Nat /\ LastId(c) \in Nat
  BY LogFacts DEF Grows
<1>2. QED
  BY <1>1 DEF Grows

\* endChain, with an id for the clause derived.
LEMMA ChainAdded ==
  ASSUME NEW log, IsLog(log), NEW start \in 1 .. LastId(log), NEW steps
  PROVE  /\ Grows(log, endChain(log, start, steps))
         /\ ChainId(log, start, steps) \in 1 .. LastId(endChain(log, start, steps))
         /\ steps # <<>> => ChainId(log, start, steps) = LastId(endChain(log, start, steps))
<1>1. LastId(log) \in Nat
  BY LogFacts
<1>2. CASE steps = <<>>
  BY <1>1, <1>2, LogFacts DEF endChain, ChainId
<1>3. CASE steps # <<>>
  BY <1>1, <1>3, EntryAdded DEF endChain, ChainId
<1>4. QED
  BY <1>2, <1>3

LEMMA ChainGrows ==
  ASSUME NEW log, IsLog(log), NEW start, NEW steps
  PROVE  Grows(log, endChain(log, start, steps)) /\ Grows(log, Log(log, start, steps))
  BY LogFacts, EntryAdded DEF endChain, Log

LEMMA FinalGrows ==
  ASSUME IsLog(proof), NEW a, NEW lits
  PROVE  Grows(proof, analyzeFinal(a, lits).log)
  BY ChainGrows, LogFacts DEF analyzeFinal

LEMMA NextGrows == IsLog(proof) /\ [Next]_vars => Grows(proof, proof')
<1> SUFFICES ASSUME IsLog(proof), [Next]_vars PROVE Grows(proof, proof')
  OBVIOUS
<1>0. CASE proof' = proof
  BY <1>0, LogFacts
<1>1. CASE AddClause
  <2> DEFINE qs   == session.clauses[given + 1]
             root == IF session.logged THEN addRoot(proof, qs) ELSE proof
  <2>1. proof' = proof \/ \E steps : proof' = Log(root, LastId(root), steps)
    BY <1>1 DEF AddClause, memory
  <2>2. Grows(proof, root)
    BY LogFacts, EntryAdded DEF addRoot
  <2> HIDE DEF root
  <2>3. \A steps : Grows(root, Log(root, LastId(root), steps))
    BY <2>2, ChainGrows DEF Grows
  <2>4. QED
    BY <1>0, <2>1, <2>2, <2>3, GrowsOn
<1>2. CASE VisitUnit
  <2>1. PICK a \in todo : proof' = proof \/ proof' = UnitLog(Turned(a))
    BY <1>2 DEF VisitUnit
  <2> DEFINE c    == Turned(a)
             unit == endChain(proof, c.id, UnitSteps(c.lits \ {c.first}))
  <2>2. Grows(proof, unit)
    BY ChainGrows
  <2>3. UnitLog(c) = unit \/ \E start, steps : UnitLog(c) = endChain(unit, start, steps)
    BY DEF UnitLog
  <2> HIDE DEF c, unit
  <2>4. \A start, steps : Grows(unit, endChain(unit, start, steps))
    BY <2>2, ChainGrows DEF Grows
  <2>5. QED
    BY <1>0, <2>1, <2>2, <2>3, <2>4, GrowsOn DEF c
<1>3. CASE Learn
  <2>1. proof' = analyze.log
    BY <1>3 DEF Learn
  <2>2. \E start, steps : analyze.log = Log(proof, start, steps)
    BY DEF analyze
  <2>3. QED
    BY <2>1, <2>2, ChainGrows
<1>4. CASE AssumeFalse
  <2>1. proof' = proof \/ \E start, steps : proof' = Log(proof, start, steps)
    BY <1>4 DEF AssumeFalse
  <2>2. QED
    BY <1>0, <2>1, ChainGrows
<1>5. CASE AssumeConflict \/ SearchConflict
  <2>1. proof' = analyzeFinal(confl, db[confl].lits).log
    BY <1>5 DEF AssumeConflict, SearchConflict
  <2>2. QED
    BY <2>1, FinalGrows
<1>6. CASE Solve \/ TakeNext \/ VisitSatisfied \/ VisitNewWatch
  BY <1>6, <1>0 DEF Solve, TakeNext, VisitSatisfied, VisitNewWatch, memory
<1>7. CASE SimplifyConflict \/ SimplifyDB \/ StartSearch \/ SearchSimplify \/ ReduceDB
  BY <1>7, <1>0 DEF SimplifyConflict, SimplifyDB, StartSearch, SearchSimplify, ReduceDB, Simplify, memory
<1>8. CASE Assume \/ Restart \/ Decide \/ FindModel \/ Terminating \/ UNCHANGED vars
  BY <1>8, <1>0 DEF Assume, Restart, Decide, FindModel, Terminating, vars, memory
<1>9. QED
  BY <1>1, <1>2, <1>3, <1>4, <1>5, <1>6, <1>7, <1>8 DEF Next, Propagate

\* The clauses and units are named by what is in the log.
Ids ==
  /\ IsLog(proof)
  /\ \A a \in DOMAIN db : IF session.logged THEN db[a].id \in 1 .. LastId(proof) ELSE db[a].id = 0
  /\ unit_id \in [Variable -> 0 .. LastId(proof)]

LEMMA IdsNext ==
  ASSUME Ids, session' = session, Grows(proof, proof'),
         \A a \in DOMAIN db' :
           \/ a \in DOMAIN db /\ db'[a].id = db[a].id
           \/ IF session.logged THEN db'[a].id \in 1 .. LastId(proof') ELSE db'[a].id = 0,
         \/ unit_id' = unit_id
         \/ \E v, id : unit_id' = [unit_id EXCEPT ![v] = id] /\ id \in 0 .. LastId(proof')
  PROVE  Ids'
<1>1. IsLog(proof') /\ LastId(proof) <= LastId(proof')
  BY DEF Grows
<1>2. LastId(proof) \in Nat /\ LastId(proof') \in Nat
  BY <1>1, LogFacts DEF Ids
<1>3. Variable' = Variable
  BY DEF Variable
<1>4. \A n \in 0 .. LastId(proof) : n \in 0 .. LastId(proof')
  BY <1>1, <1>2
<1>5. \A a \in DOMAIN db' : IF session.logged THEN db'[a].id \in 1 .. LastId(proof') ELSE db'[a].id = 0
  <2>1. SUFFICES ASSUME NEW a \in DOMAIN db', a \in DOMAIN db /\ db'[a].id = db[a].id
                 PROVE  IF session.logged THEN db'[a].id \in 1 .. LastId(proof') ELSE db'[a].id = 0
    OBVIOUS
  <2>2. CASE session.logged
    BY <1>1, <1>2, <2>1, <2>2 DEF Ids
  <2>3. CASE ~session.logged
    BY <2>1, <2>3 DEF Ids
  <2>4. QED
    BY <2>2, <2>3
<1>6. unit_id' \in [Variable -> 0 .. LastId(proof')]
  <2>1. unit_id \in [Variable -> 0 .. LastId(proof')]
    BY <1>4 DEF Ids
  <2>2. QED
    BY <2>1
<1>7. QED
  BY <1>1, <1>3, <1>5, <1>6 DEF Ids

\* newClause of a clause that is not learnt.
LEMMA AddClauseIds == Ids /\ AddClause => Ids'
<1> SUFFICES ASSUME Ids, AddClause PROVE Ids'
  OBVIOUS
<1> DEFINE qs    == session.clauses[given + 1]
           kept  == {x \in qs : ~IsFalse(x)}
           root  == IF session.logged THEN addRoot(proof, qs) ELSE proof
           steps == UnitSteps(qs \ kept)
           id    == LogId(root, LastId(root), steps)
           unit  == First(kept)
           c     == Clause(FALSE, unit, First(kept \ {unit}), kept, id)
<1>1. /\ session' = session
      /\ \/ UNCHANGED <<proof, db, unit_id>>
         \/ /\ proof' = Log(root, LastId(root), steps)
            /\ \/ db' = db
               \/ db' = [a \in DOMAIN db \cup {Address} |-> IF a = Address THEN c ELSE db[a]]
            /\ unit_id' = unit_id \/ unit_id' = [unit_id EXCEPT ![Var(unit)] = id]
  BY DEF AddClause, memory
<1>2. Grows(proof, proof')
  BY NextGrows DEF Next, Ids
<1>3. CASE UNCHANGED <<proof, db, unit_id>>
  BY <1>1, <1>2, <1>3, IdsNext
<1>4. CASE /\ proof' = Log(root, LastId(root), steps)
           /\ \/ db' = db
              \/ db' = [a \in DOMAIN db \cup {Address} |-> IF a = Address THEN c ELSE db[a]]
           /\ unit_id' = unit_id \/ unit_id' = [unit_id EXCEPT ![Var(unit)] = id]
  <2>1. c.id = id
    BY DEF Clause
  <2>2. IF session.logged THEN id \in 1 .. LastId(proof') ELSE id = 0
    <3>1. CASE session.logged
      <4>1. IsLog(root) /\ LastId(root) \in 1 .. LastId(root)
        <5>1. root = addRoot(proof, qs) /\ IsLog(proof) /\ LastId(proof) \in Nat
          BY <3>1, LogFacts DEF Ids
        <5>2. QED
          BY <5>1, EntryAdded DEF addRoot, Grows
      <4> HIDE DEF root, steps
      <4>2. id = ChainId(root, LastId(root), steps) /\ proof' = endChain(root, LastId(root), steps)
        BY <1>4, <3>1 DEF Log, LogId
      <4>3. QED
        BY <3>1, <4>1, <4>2, ChainAdded
    <3>2. CASE ~session.logged
      BY <3>2 DEF LogId
    <3>3. QED
      BY <3>1, <3>2
  <2> HIDE DEF c, id, unit
  <2>3. \A a \in DOMAIN db' : (a \in DOMAIN db /\ db'[a].id = db[a].id) \/ db'[a].id = id
    BY <1>4, <2>1
  <2>4. id \in 0 .. LastId(proof')
    <3>1. LastId(proof') \in Nat
      BY <1>2, LogFacts DEF Grows
    <3>2. QED
      BY <2>2, <3>1
  <2>5. QED
    BY <1>1, <1>2, <1>4, <2>2, <2>3, <2>4, IdsNext
<1>5. QED
  BY <1>1, <1>3, <1>4

\* A clause visited keeps its id.
LEMMA TurnedId ==
  ASSUME IInv, NEW a \in todo
  PROVE  a \in DOMAIN db /\ Turned(a).id = db[a].id
  BY VisitFacts DEF Clause

LEMMA VisitUnitIds == IInv /\ Ids /\ VisitUnit => Ids'
<1> SUFFICES ASSUME IInv, Ids, VisitUnit PROVE Ids'
  OBVIOUS
<1>1. PICK a \in todo :
        /\ session' = session
        /\ db' = [db EXCEPT ![a] = Turned(a)]
        /\ LET c  == Turned(a)
               id == LogId(proof, c.id, UnitSteps(c.lits \ {c.first}))
           IN  \/ UNCHANGED <<unit_id, proof>>
               \/ /\ session.logged
                  /\ proof' = UnitLog(c)
                  /\ \/ unit_id' = unit_id
                     \/ ~IsFalse(c.first) /\ unit_id' = [unit_id EXCEPT ![Var(c.first)] = id]
  BY DEF VisitUnit
<1>2. Grows(proof, proof')
  BY NextGrows DEF Next, Propagate, Ids
<1> DEFINE c     == Turned(a)
           steps == UnitSteps(c.lits \ {c.first})
           id    == LogId(proof, c.id, steps)
           v     == Var(c.first)
<1>3. \A b \in DOMAIN db' : b \in DOMAIN db /\ db'[b].id = db[b].id
  BY <1>1, TurnedId
<1>4. CASE UNCHANGED <<unit_id, proof>> \/ unit_id' = unit_id
  BY <1>1, <1>2, <1>3, <1>4, IdsNext
<1>5. CASE /\ session.logged /\ proof' = UnitLog(c) /\ ~IsFalse(c.first)
           /\ unit_id' = [unit_id EXCEPT ![v] = id]
  <2>1. c.id \in 1 .. LastId(proof)
    BY <1>5, TurnedId DEF Ids
  <2>2. proof' = endChain(proof, c.id, steps) /\ id = ChainId(proof, c.id, steps)
    BY <1>5 DEF UnitLog, LogId
  <2> HIDE DEF c, steps, id, v
  <2>3. id \in 0 .. LastId(proof')
    <3>1. id \in 1 .. LastId(proof')
      BY <2>1, <2>2, ChainAdded DEF Ids
    <3>2. LastId(proof') \in Nat
      BY <1>2, LogFacts DEF Grows
    <3>3. QED
      BY <3>1, <3>2
  <2>4. QED
    BY <1>1, <1>2, <1>3, <1>5, <2>3, IdsNext
<1>6. QED
  BY <1>1, <1>4, <1>5

LEMMA LearnIds == IInv /\ Ids /\ Learn => Ids'
<1> SUFFICES ASSUME IInv, Ids, Learn PROVE Ids'
  OBVIOUS
<1> DEFINE x    == analyze.uip
           rest == analyze.rest
           lits == {x} \cup rest
           id   == IF session.logged THEN LastId(analyze.log) ELSE 0
<1>1. session' = session /\ proof' = analyze.log /\ confl # 0
  BY DEF Learn
<1>1a. \/ unit_id' = unit_id
       \/ session.logged /\ \E v : unit_id' = [unit_id EXCEPT ![v] = id]
  <2>1. unit_id' = unit_id \/ (rest = {} /\ session.logged
                              /\ unit_id' = [unit_id EXCEPT ![Var(x)] = LastId(analyze.log)])
    BY DEF Learn
  <2>2. QED
    BY <2>1
<1>1b. IF rest = {} THEN UNCHANGED <<db, watches>>
       ELSE \E y \in SecondWatch(rest) :
              LET c == Clause(TRUE, x, y, lits, id) IN
              /\ db' = [b \in DOMAIN db \cup {Address} |-> IF b = Address THEN c ELSE db[b]]
              /\ watches' = Watching(c, Address)
  BY DEF Learn
<1>2. Grows(proof, proof')
  BY NextGrows DEF Next, Ids
<1>3. confl \in DOMAIN db
  BY <1>1 DEF IInv, Queue
<1>4. IF session.logged THEN id \in 1 .. LastId(proof') ELSE id = 0
  <2>1. CASE session.logged
    <3>1. db[confl].id \in 1 .. LastId(proof) /\ LastId(proof) \in Nat /\ LastId(proof') \in Nat
      BY <1>2, <1>3, <2>1, LogFacts DEF Ids, Grows
    <3>2. LastId(proof) <= LastId(proof') /\ id = LastId(proof')
      BY <1>1, <1>2, <2>1 DEF Grows
    <3> HIDE DEF id
    <3>3. QED
      BY <2>1, <3>1, <3>2
  <2>2. CASE ~session.logged
    BY <2>2
  <2>3. QED
    BY <2>1, <2>2
<1> HIDE DEF id, x, rest, lits
<1>5. \A a \in DOMAIN db' : (a \in DOMAIN db /\ db'[a].id = db[a].id) \/ db'[a].id = id
  <2>1. CASE rest = {}
    BY <1>1b, <2>1
  <2>2. CASE rest # {}
    <3>1. PICK y : db' = [b \in DOMAIN db \cup {Address} |->
                            IF b = Address THEN Clause(TRUE, x, y, lits, id) ELSE db[b]]
      BY <1>1b, <2>2
    <3>2. Clause(TRUE, x, y, lits, id).id = id
      BY DEF Clause
    <3>3. QED
      BY <3>1, <3>2
  <2>3. QED
    BY <2>1, <2>2
<1>6. id \in 0 .. LastId(proof')
  <2>1. LastId(proof') \in Nat
    BY <1>2, LogFacts DEF Grows
  <2>2. QED
    BY <1>4, <2>1
<1>7. QED
  BY <1>1, <1>1a, <1>2, <1>4, <1>5, <1>6, IdsNext

LEMMA NextIds == IInv /\ Ids /\ [Next]_vars => Ids'
<1> SUFFICES ASSUME IInv, Ids, [Next]_vars PROVE Ids'
  OBVIOUS
<1>0. Grows(proof, proof')
  BY NextGrows DEF Ids
<1>1. CASE AddClause \/ VisitUnit \/ Learn
  BY <1>1, AddClauseIds, VisitUnitIds, LearnIds
<1>2. CASE VisitSatisfied \/ VisitNewWatch
  <2>1. PICK a \in todo : \/ db' = [db EXCEPT ![a] = Turned(a)]
                             \/ \E s : db' = [db EXCEPT ![a] = [Turned(a) EXCEPT !.second = s]]
    BY <1>2 DEF VisitSatisfied, VisitNewWatch
  <2>2. /\ a \in DOMAIN db /\ Turned(a).id = db[a].id
        /\ \A s : [Turned(a) EXCEPT !.second = s].id = db[a].id
    BY VisitFacts DEF Clause
  <2>3. \A b \in DOMAIN db' : b \in DOMAIN db /\ db'[b].id = db[b].id
    BY <2>1, <2>2
  <2>4. UNCHANGED <<session, unit_id>>
    BY <1>2 DEF VisitSatisfied, VisitNewWatch
  <2>5. QED
    BY <1>0, <2>3, <2>4, IdsNext
<1>3. CASE SimplifyDB \/ SearchSimplify \/ ReduceDB
  <2>1. UNCHANGED <<session, unit_id>> /\ \E dropped, lists : db' = db \/ Drop(dropped, lists)
    BY <1>3 DEF SimplifyDB, SearchSimplify, ReduceDB, Simplify, memory
  <2>2. \A b \in DOMAIN db' : b \in DOMAIN db /\ db'[b].id = db[b].id
    BY <2>1 DEF Drop
  <2>3. QED
    BY <1>0, <2>1, <2>2, IdsNext
<1>4. CASE UNCHANGED <<session, unit_id, db>>
  BY <1>0, <1>4, IdsNext
<1>5. CASE Solve \/ TakeNext \/ SimplifyConflict \/ StartSearch
  BY <1>5, <1>4 DEF Solve, TakeNext, SimplifyConflict, StartSearch, memory
<1>6. CASE Assume \/ Restart \/ Decide \/ FindModel \/ Terminating \/ UNCHANGED vars
  BY <1>6, <1>4 DEF Assume, Restart, Decide, FindModel, Terminating, vars, memory
<1>7. CASE AssumeFalse \/ AssumeConflict \/ SearchConflict
  BY <1>7, <1>4 DEF AssumeFalse, AssumeConflict, SearchConflict
<1>8. QED
  BY <1>1, <1>2, <1>3, <1>5, <1>6, <1>7 DEF Next, Propagate

\* The clauses in memory have two literals at least, and finitely many.
LEMMA LiteralsOf ==
  ASSUME IInv, Lists, NEW a \in DOMAIN db
  PROVE  IsFiniteSet(db[a].lits) /\ Cardinality(db[a].lits) > 1
<1> DEFINE p == db[a].first
           q == db[a].second
<1>1. session \in Session
  BY StateFacts
<1>2. db[a].lits \subseteq Literal /\ p \in db[a].lits /\ q \in db[a].lits /\ p # q
  BY ClauseFacts DEF Lists
<1>3. IsFiniteSet(db[a].lits)
  BY <1>1, <1>2, LiteralsFinite, FS_Subset
<1> HIDE DEF p, q
<1>4. {p, q} \subseteq db[a].lits /\ IsFiniteSet({p, q})
  BY <1>2, <1>3, FS_Subset
<1>5. Cardinality({p, q}) = 2
  <2>1. IsFiniteSet({}) /\ Cardinality({}) = 0
    BY FS_EmptySet
  <2>2. IsFiniteSet({p}) /\ Cardinality({p}) = 1
    BY FS_Singleton
  <2>3. Cardinality({p} \cup {q}) = 2
    <3>1. q \notin {p}
      BY <1>2
    <3>2. Cardinality({p} \cup {q}) = Cardinality({p}) + 1
      BY <2>2, <3>1, FS_AddElement
    <3>3. QED
      BY <2>2, <3>2
  <2>4. {p} \cup {q} = {p, q}
    OBVIOUS
  <2>5. QED
    BY <2>3, <2>4
<1>6. Cardinality(db[a].lits) \in Nat /\ 2 <= Cardinality(db[a].lits)
  BY <1>3, <1>4, <1>5, FS_Subset, FS_CardinalityType
<1>7. QED
  BY <1>3, <1>6

LEMMA SessionKept == [Next]_vars => session' = session
<1> SUFFICES ASSUME [Next]_vars PROVE session' = session
  OBVIOUS
<1>1. CASE AddClause \/ Solve \/ TakeNext \/ VisitSatisfied \/ VisitNewWatch \/ VisitUnit
  BY <1>1 DEF AddClause, Solve, TakeNext, VisitSatisfied, VisitNewWatch, VisitUnit
<1>2. CASE SimplifyConflict \/ SimplifyDB \/ Assume \/ StartSearch \/ Learn
  BY <1>2 DEF SimplifyConflict, SimplifyDB, Assume, StartSearch, Learn
<1>3. CASE AssumeFalse \/ AssumeConflict \/ SearchConflict \/ Restart
  BY <1>3 DEF AssumeFalse, AssumeConflict, SearchConflict, Restart
<1>4. CASE SearchSimplify \/ ReduceDB \/ Decide \/ FindModel \/ Terminating \/ UNCHANGED vars
  BY <1>4 DEF SearchSimplify, ReduceDB, Decide, FindModel, Terminating, vars
<1>5. QED
  BY <1>1, <1>2, <1>3, <1>4 DEF Next, Propagate

\* Where the program is, and what it counts.
Typing ==
  /\ pc \in {"idle", "simplifyDB", "assume", "search", "simplified", "decide", "assert"}
  /\ Len(answers) <= Len(session.queries)
  /\ ok \in BOOLEAN
  /\ {conflictC, restarts, nof_learnts} \subseteq Nat

Levels == level \in [Variable -> -1 .. session.vars]

TInv == Decided /\ Ids /\ Typing /\ Levels

LEMMA NextPlaces == IInv /\ Typing /\ [Next]_vars =>
                      pc' \in {"idle", "simplifyDB", "assume", "search", "simplified", "decide", "assert"}
<1> SUFFICES ASSUME IInv, Typing, [Next]_vars
             PROVE  pc' \in {"idle", "simplifyDB", "assume", "search", "simplified", "decide", "assert"}
  OBVIOUS
<1>0. pc \in {"idle", "simplifyDB", "assume", "search", "simplified", "decide", "assert"}
  BY DEF Typing
<1>1. CASE pc' = pc
  BY <1>0, <1>1
<1>2. CASE pc' \in {"idle", "simplifyDB", "assume", "search", "simplified", "decide", "assert"}
  BY <1>2
<1>3. CASE VisitUnit
  <2>1. pc' = pc \/ pc' = "assert"
    BY <1>3 DEF VisitUnit
  <2>2. QED
    BY <1>1, <1>2, <2>1
<1>4. CASE SimplifyDB \/ SearchSimplify
  <2>1. pc' \in {"assume", "simplified", "assert"}
    BY <1>4 DEF SimplifyDB, SearchSimplify, Simplify
  <2>2. QED
    BY <1>2, <2>1
<1>5. CASE ReduceDB
  <2>1. pc' \in {"decide", "assert"}
    BY <1>5 DEF ReduceDB
  <2>2. QED
    BY <1>2, <2>1
<1>6. CASE AddClause \/ TakeNext \/ VisitSatisfied \/ VisitNewWatch
  BY <1>1, <1>6 DEF AddClause, TakeNext, VisitSatisfied, VisitNewWatch
<1>7. CASE Assume \/ Learn \/ Restart \/ Terminating \/ UNCHANGED vars
  BY <1>1, <1>7 DEF Assume, Learn, Restart, Terminating, vars
<1>8. CASE Solve \/ SimplifyConflict \/ StartSearch \/ SearchConflict \/ Decide \/ FindModel
  BY <1>2, <1>8 DEF Solve, SimplifyConflict, StartSearch, SearchConflict, Decide, FindModel, Answer
<1>9. CASE AssumeFalse \/ AssumeConflict
  <2>1. pc' \in {"idle", "assert"}
    BY <1>9 DEF AssumeFalse, AssumeConflict, Answer
  <2>2. QED
    BY <1>2, <2>1
<1>10. QED
  BY <1>3, <1>4, <1>5, <1>6, <1>7, <1>8, <1>9 DEF Next, Propagate

\* No more answers than queries.
LEMMA NextAnswers == IInv /\ Typing /\ [Next]_vars => Len(answers') <= Len(session.queries)
<1> SUFFICES ASSUME IInv, Typing, [Next]_vars PROVE Len(answers') <= Len(session.queries)
  OBVIOUS
<1>0. Len(answers) <= Len(session.queries) /\ Len(answers) \in Nat /\ Len(session.queries) \in Nat
  BY StateFacts, CallFacts DEF Typing, IInv, Calls
<1>1. CASE answers' = answers
  BY <1>0, <1>1
<1>2. ASSUME NEW result, NEW model, Answer(result, model), Len(answers) < Len(session.queries)
      PROVE  Len(answers') <= Len(session.queries)
  <2>1. Len(answers') = Len(answers) + 1
    BY <1>0, <1>2 DEF Answer
  <2>2. QED
    BY <1>0, <1>2, <2>1
<1>3. CASE pc = "simplifyDB" \/ InQuery
  <2>1. Len(answers) + 1 \in 1 .. Len(session.queries)
    BY <1>3, StateFacts, CallFacts DEF IInv, Calls
  <2>2. Len(answers) < Len(session.queries)
    BY <1>0, <2>1
  <2>3. answers' = answers \/ \E result, model : Answer(result, model)
    <3>1. CASE AddClause \/ Solve \/ TakeNext \/ VisitSatisfied \/ VisitNewWatch \/ VisitUnit
      BY <3>1 DEF AddClause, Solve, TakeNext, VisitSatisfied, VisitNewWatch, VisitUnit
    <3>2. CASE SimplifyConflict \/ SimplifyDB \/ Assume \/ StartSearch \/ Learn
      BY <3>2 DEF SimplifyConflict, SimplifyDB, Assume, StartSearch, Learn
    <3>3. CASE AssumeFalse
      BY <3>3 DEF AssumeFalse
    <3>4. CASE AssumeConflict \/ SearchConflict
      BY <3>4 DEF AssumeConflict, SearchConflict
    <3>5. CASE Restart \/ SearchSimplify \/ ReduceDB \/ Decide \/ FindModel \/ Terminating
      BY <3>5 DEF Restart, SearchSimplify, ReduceDB, Decide, FindModel, Terminating, vars
    <3>6. QED
      BY <3>1, <3>2, <3>3, <3>4, <3>5 DEF Next, Propagate, vars
  <2>4. QED
    BY <1>1, <1>2, <2>2, <2>3
<1>4. CASE pc = "idle" /\ [Solve]_vars
  BY <1>1, <1>2, <1>4 DEF Solve, vars
<1>5. CASE ~(pc = "simplifyDB" \/ InQuery) /\ ~Solve
  <2>1. AddClause \/ Terminating \/ UNCHANGED vars \/ Propagate
    BY <1>5 DEF Next, InQuery, SimplifyConflict, SimplifyDB, Assume, AssumeFalse, AssumeConflict,
              StartSearch, Learn, SearchConflict, Restart, SearchSimplify, ReduceDB, Decide, FindModel,
              Deciding, Tidy, Ready, At
  <2>2. QED
    BY <1>1, <2>1 DEF AddClause, Terminating, vars, Propagate, TakeNext, VisitSatisfied, VisitNewWatch,
                     VisitUnit
<1>6. QED
  BY <1>3, <1>4, <1>5 DEF Solve

LEMMA NextCounters == IInv /\ IInv' /\ Typing /\ [Next]_vars =>
                        ok' \in BOOLEAN /\ {conflictC', restarts', nof_learnts'} \subseteq Nat
<1> SUFFICES ASSUME IInv, IInv', Typing, [Next]_vars
             PROVE  ok' \in BOOLEAN /\ conflictC' \in Nat /\ restarts' \in Nat /\ nof_learnts' \in Nat
  OBVIOUS
<1>0. ok \in BOOLEAN /\ conflictC \in Nat /\ restarts \in Nat /\ nof_learnts \in Nat
  BY DEF Typing
<1>1. CASE ok' = ok /\ UNCHANGED counters
  BY <1>0, <1>1 DEF counters
<1>2. CASE (ok' \in BOOLEAN) /\ UNCHANGED counters
  BY <1>0, <1>2 DEF counters
<1>3. CASE AddClause
  <2>1. UNCHANGED counters
    BY <1>3 DEF AddClause
  <2>2. ok' = ok \/ \E kept : ok' = (kept # {})
    BY <1>3 DEF AddClause, memory
  <2>3. CASE ok' = ok
    BY <1>1, <2>1, <2>3
  <2>4. CASE \E kept : ok' = (kept # {})
    <3>1. ok' = TRUE \/ ok' = FALSE
      BY <2>4
    <3>2. QED
      BY <1>2, <2>1, <3>1
  <2>5. QED
    BY <2>2, <2>3, <2>4
<1>4. CASE VisitUnit
  <2>1. UNCHANGED counters
    BY <1>4 DEF VisitUnit
  <2>2. ok' = ok \/ ok' = (ok /\ decisionLevel # 0)
    BY <1>4 DEF VisitUnit
  <2>3. CASE ok' = ok
    BY <1>1, <2>1, <2>3
  <2>4. CASE ok' = (ok /\ decisionLevel # 0)
    <3>1. ok' = TRUE \/ ok' = FALSE
      BY <2>4
    <3>2. QED
      BY <1>2, <2>1, <3>1
  <2>5. QED
    BY <2>2, <2>3, <2>4
<1>5. CASE SimplifyConflict
  BY <1>2, <1>5 DEF SimplifyConflict
<1>6. CASE Solve
  BY <1>0, <1>6 DEF Solve, memory
<1>7. CASE SimplifyDB
  <2> DEFINE plain == {a \in DOMAIN db' : ~db'[a].learnt}
  <2>1. ok' = ok /\ UNCHANGED <<conflictC, restarts>> /\ nof_learnts' = Cardinality(plain) \div 3
    BY <1>7 DEF SimplifyDB, Simplify, memory
  <2>2. IsFiniteSet(DOMAIN db')
    BY DEF IInv, Memory
  <2>3. Cardinality(plain) \in Nat
    BY <2>2, FS_Subset, FS_CardinalityType
  <2> HIDE DEF plain
  <2>4. QED
    BY <1>0, <2>1, <2>3
<1>8. CASE Learn
  BY <1>0, <1>8 DEF Learn
<1>9. CASE Restart
  BY <1>0, <1>9 DEF Restart, memory
<1>10. CASE TakeNext \/ VisitSatisfied \/ VisitNewWatch
  BY <1>1, <1>10 DEF TakeNext, VisitSatisfied, VisitNewWatch, memory
<1>11. CASE Assume \/ AssumeFalse \/ AssumeConflict \/ StartSearch \/ SearchConflict
  BY <1>1, <1>11 DEF Assume, AssumeFalse, AssumeConflict, StartSearch, SearchConflict, memory
<1>12. CASE SearchSimplify \/ ReduceDB
  BY <1>1, <1>12 DEF SearchSimplify, Simplify, ReduceDB, memory
<1>13. CASE Decide \/ FindModel \/ Terminating \/ UNCHANGED vars
  BY <1>1, <1>13 DEF Decide, FindModel, Terminating, vars, memory
<1>14. QED
  BY <1>3, <1>4, <1>5, <1>6, <1>7, <1>8, <1>9, <1>10, <1>11, <1>12, <1>13 DEF Next, Propagate

LEMMA NextTyping == IInv /\ IInv' /\ Typing /\ [Next]_vars => Typing'
<1> SUFFICES ASSUME IInv, IInv', Typing, [Next]_vars PROVE Typing'
  OBVIOUS
<1>1. session' = session
  BY SessionKept
<1>2. QED
  BY <1>1, NextPlaces, NextAnswers, NextCounters DEF Typing

\* What a level may become.
LEMMA LevelsSet ==
  ASSUME session \in Session, Levels, session' = session,
         level' = level \/ \E v, l : level' = [level EXCEPT ![v] = l] /\ l \in 0 .. session.vars
  PROVE  Levels'
<1>1. session.vars \in Nat
  BY SessionAssumption
<1>2. Variable' = Variable
  BY DEF Variable
<1>3. CASE level' = level
  BY <1>2, <1>3 DEF Levels
<1>4. CASE \E v, l : level' = [level EXCEPT ![v] = l] /\ l \in 0 .. session.vars
  <2>1. PICK v, l : level' = [level EXCEPT ![v] = l] /\ l \in 0 .. session.vars
    BY <1>4
  <2>2. l \in -1 .. session.vars
    BY <1>1, <2>1
  <2>3. QED
    BY <1>2, <2>1, <2>2 DEF Levels
<1>5. QED
  BY <1>3, <1>4

(***************************************************************************)
(* A step that is not the failure of an assertion leaves no more levels    *)
(* than there are variables, and gives a variable one of those levels.     *)
(***************************************************************************)
LEMMA NextLevels ==
  IInv /\ RInv /\ AInv /\ TInv /\ IInv' /\ RInv' /\ AInv' /\ Decided' /\ Typing' /\ [Next]_vars => Levels'
<1>0. \/ ~(IInv /\ RInv /\ AInv /\ Decided /\ Typing)
      \/ decisionLevel \in Nat /\ decisionLevel <= session.vars
  BY LevelsBounded, StateFacts DEF AInv, AssertsHold, Typing
<1>0a. (~(IInv /\ RInv /\ AInv /\ Decided /\ Typing)
         \/ (decisionLevel \in Nat /\ decisionLevel <= session.vars))'
  BY <1>0, PTL
<1> SUFFICES ASSUME IInv, RInv, AInv, TInv, IInv', RInv', AInv', Decided', Typing', [Next]_vars
             PROVE  Levels'
  OBVIOUS
<1>1. /\ decisionLevel \in 0 .. session.vars /\ decisionLevel' \in 0 .. session.vars
      /\ session' = session /\ session \in Session /\ Levels /\ session.vars \in Nat
  <2>1. session \in Session /\ session.vars \in Nat /\ session' = session
    BY StateFacts, SessionKept, SessionAssumption
  <2>2. decisionLevel \in Nat /\ decisionLevel <= session.vars
    BY <1>0 DEF TInv
  <2>3. decisionLevel' \in Nat /\ decisionLevel' <= session'.vars
    BY <1>0a
  <2>4. QED
    BY <2>1, <2>2, <2>3 DEF TInv
<1>2. CASE level' = level
  BY <1>1, <1>2, LevelsSet
<1>3. CASE AddClause
  <2>1. level' = level \/ \E v : level' = [level EXCEPT ![v] = 0]
    BY <1>3 DEF AddClause, assignment
  <2>2. 0 \in 0 .. session.vars
    BY <1>1
  <2>3. QED
    BY <1>1, <2>1, <2>2, LevelsSet
<1>4. CASE VisitUnit
  <2>1. level' = level \/ \E v : level' = [level EXCEPT ![v] = decisionLevel]
    BY <1>4 DEF VisitUnit
  <2>2. QED
    BY <1>1, <2>1, LevelsSet
<1>5. CASE Assume \/ Decide
  <2>1. /\ level' = level \/ \E v : level' = [level EXCEPT ![v] = decisionLevel + 1]
        /\ trail_lim' = Append(trail_lim, Len(trail))
    BY <1>5 DEF Assume, Decide
  <2>2. trail_lim \in Seq(Nat) /\ Len(trail) \in Nat
    BY StateFacts
  <2>3. decisionLevel' = decisionLevel + 1
    BY <2>1, <2>2 DEF decisionLevel
  <2>4. QED
    BY <1>1, <2>1, <2>3, LevelsSet
<1>6. CASE Learn
  <2> DEFINE K == Max({analyze.back, root_level})
  <2>1. \E v, l : level' = [level EXCEPT ![v] = l] /\ l \in {0, K}
    BY <1>6 DEF Learn
  <2>2. K \in 0 .. decisionLevel
    BY <1>6, LearnBacked
  <2> HIDE DEF K
  <2>3. K \in 0 .. session.vars /\ 0 \in 0 .. session.vars
    BY <1>1, <2>2
  <2>4. PICK v, l : level' = [level EXCEPT ![v] = l] /\ l \in 0 .. session.vars
    BY <2>1, <2>3
  <2>5. QED
    BY <1>1, <2>4, LevelsSet
<1>7. CASE AssumeFalse \/ AssumeConflict \/ SearchConflict \/ Restart \/ FindModel
  BY <1>7, <1>2 DEF AssumeFalse, AssumeConflict, SearchConflict, Restart, FindModel, cancelUntil
<1>8. CASE Solve \/ TakeNext \/ VisitSatisfied \/ VisitNewWatch \/ SimplifyConflict \/ SimplifyDB
  BY <1>8, <1>2 DEF Solve, TakeNext, VisitSatisfied, VisitNewWatch, SimplifyConflict, SimplifyDB, assignment
<1>9. CASE StartSearch \/ SearchSimplify \/ ReduceDB \/ Terminating \/ UNCHANGED vars
  BY <1>9, <1>2 DEF StartSearch, SearchSimplify, ReduceDB, Terminating, vars, assignment
<1>10. QED
  BY <1>3, <1>4, <1>5, <1>6, <1>7, <1>8, <1>9 DEF Next, Propagate

LEMMA InitTInv == Init => TInv
<1> SUFFICES ASSUME Init PROVE TInv
  OBVIOUS
<1>1. session \in Session /\ session.vars \in Nat
  BY SessionAssumption DEF Init
<1>2. Decided
  BY DEF Init, Decided
<1>3. Ids
  <2>1. IsLog(<<>>) /\ LastId(<<>>) = 0
    BY DEF IsLog, LastId
  <2>2. DOMAIN db = {}
    BY DEF Init
  <2>3. unit_id \in [Variable -> 0 .. 0]
    BY DEF Init
  <2>4. proof = <<>>
    BY DEF Init
  <2>5. QED
    BY <2>1, <2>2, <2>3, <2>4 DEF Ids
<1>4. Typing
  <2>1. answers = <<>> /\ Len(answers) = 0
    BY DEF Init
  <2>2. Len(session.queries) \in Nat
    BY <1>1, CallFacts
  <2>3. QED
    BY <2>1, <2>2 DEF Typing, Init
<1>5. Levels
  BY <1>1 DEF Init, Levels
<1>6. QED
  BY <1>2, <1>3, <1>4, <1>5 DEF TInv

LEMMA SpecTInv == Spec => [](IInv /\ WInv /\ RInv /\ AInv /\ TInv)
<1> DEFINE J == IInv /\ WInv /\ RInv /\ AInv
<1>1. Spec => []J
  BY SpecWInv, SpecRInv, SpecAInv, PTL
<1>2. J /\ TInv /\ [Next]_vars /\ J' => TInv'
  <2> SUFFICES ASSUME J, TInv, [Next]_vars, J' PROVE TInv'
    OBVIOUS
  <2>1. Decided' /\ Ids' /\ Typing'
    BY NextDecided, NextIds, NextTyping DEF TInv
  <2>2. QED
    BY <2>1, NextLevels DEF TInv
<1>3. QED
  BY <1>1, <1>2, InitTInv, PTL DEF Spec

LEMMA TypesFollow == IInv /\ WInv /\ RInv /\ AInv /\ TInv => TypeOK
<1> SUFFICES ASSUME IInv, WInv, RInv, AInv, TInv PROVE TypeOK
  OBVIOUS
<1>1. /\ session \in Session /\ given \in 0 .. Len(session.clauses)
      /\ Len(answers) <= Len(session.queries) /\ ok \in BOOLEAN
      /\ {conflictC, restarts, nof_learnts} \subseteq Nat
      /\ pc \in {"idle", "simplifyDB", "assume", "search", "simplified", "decide", "assert"}
  BY DEF IInv, Calls, TInv, Typing
<1>2. ASSUME NEW a \in DOMAIN db
      PROVE  /\ db[a].lits \subseteq Literal /\ Cardinality(db[a].lits) > 1
             /\ {db[a].first, db[a].second} \subseteq db[a].lits /\ db[a].first # db[a].second
             /\ db[a].id \in IF session.logged THEN 1 .. LastId(proof) ELSE {0}
  <2>1. db[a].lits \subseteq Literal /\ {db[a].first, db[a].second} \subseteq db[a].lits
    BY ClauseFacts
  <2>2. Cardinality(db[a].lits) > 1 /\ db[a].first # db[a].second
    BY LiteralsOf DEF WInv, Lists
  <2>3. db[a].id \in IF session.logged THEN 1 .. LastId(proof) ELSE {0}
    BY DEF TInv, Ids
  <2>4. QED
    BY <2>1, <2>2, <2>3
<1>3. /\ trail \in Seq(Literal)
      /\ \A i, j \in DOMAIN trail : i # j => Var(trail[i]) # Var(trail[j])
      /\ \A i, j \in DOMAIN trail_lim : i < j => trail_lim[i] <= trail_lim[j]
  BY <1>1, StateFacts, TrailFacts DEF Divided
<1>4. trail_lim \in Seq(0 .. Len(trail))
  <2>1. /\ trail_lim \in Seq(Nat) /\ Len(trail) \in Nat
        /\ \A k \in DOMAIN trail_lim : trail_lim[k] \in Nat /\ trail_lim[k] <= Len(trail)
    BY StateFacts
  <2>2. \A k \in 1 .. Len(trail_lim) : trail_lim[k] \in 0 .. Len(trail)
    BY <2>1
  <2>3. QED
    BY <2>1, <2>2
<1>5. level \in [Variable -> -1 .. session.vars] /\ unit_id \in [Variable -> 0 .. LastId(proof)]
  BY DEF TInv, Levels, Ids
<1>6. qhead \in 0 .. Len(trail) /\ root_level \in Nat /\ order \subseteq Variable
  BY StateFacts DEF IInv, Queue, RInv, Heap
<1>7. simpDB_assigns \in 0 .. Len(trail)
  BY StateFacts, SettledFacts DEF WInv
<1>8. QED
  BY <1>1, <1>2, <1>3, <1>4, <1>5, <1>6, <1>7 DEF TypeOK

(***************************************************************************)
(* The state has the types it should.  Not plain: that every level is that *)
(* of an assumption or decision of its own, so that there are no more than *)
(* variables; that each clause in memory keeps two literals; and that its  *)
(* id and those of the units are in the log.                               *)
(***************************************************************************)
THEOREM SolverTypes == Spec => []TypeOK
  BY SpecTInv, TypesFollow, PTL

-----------------------------------------------------------------------------
(***************************************************************************)
(* The chains of the log.  What the steps of a chain lead to is said with  *)
(* the clauses met on the way; that Along computes them is shown once.     *)
(***************************************************************************)
LEMMA ResolvesNone ==
  ASSUME NEW log, NEW c
  PROVE  Resolves(log, c, <<>>, c)
<1> DEFINE w == [n \in 0 .. 0 |-> c]
<1>1. <<>> \in Seq([id : Nat, pivot : Nat]) /\ Len(<<>>) = 0
  OBVIOUS
<1>2. w[0] = c /\ \A n \in 1 .. 0 : FALSE
  OBVIOUS
<1> HIDE DEF w
<1>3. QED
  BY <1>1, <1>2 DEF Resolves

LEMMA ResolvesOne ==
  ASSUME NEW log, IsLog(log), NEW id \in 1 .. LastId(log), NEW pivot \in Nat, NEW c,
         IsPivot(c, ClauseOf(log, id), pivot), NEW d, d = Resolvent(c, ClauseOf(log, id), pivot),
         ~IsTautology(d)
  PROVE  Resolves(log, c, <<[id |-> id, pivot |-> pivot]>>, d)
<1> DEFINE w     == [n \in 0 .. 1 |-> IF n = 0 THEN c ELSE d]
           step  == [id |-> id, pivot |-> pivot]
           steps == <<step>>
<1>1. step \in [id : Nat, pivot : Nat] /\ step.id = id /\ step.pivot = pivot
  BY LogFacts
<1> HIDE DEF step
<1>2. steps \in Seq([id : Nat, pivot : Nat]) /\ Len(steps) = 1 /\ steps[1] = step
  BY <1>1
<1>3. w[0] = c /\ w[1] = d
  OBVIOUS
<1> HIDE DEF w, steps
<1>4. \A n \in 1 .. Len(steps) : n = 1 /\ n - 1 = 0
  BY <1>2
<1>5. \A n \in 1 .. Len(steps) :
            /\ steps[n].id \in 1 .. LastId(log)
            /\ w[n] = Resolvent(w[n - 1], ClauseOf(log, steps[n].id), steps[n].pivot)
            /\ IsPivot(w[n - 1], ClauseOf(log, steps[n].id), steps[n].pivot)
            /\ ~IsTautology(w[n])
  BY <1>1, <1>2, <1>3, <1>4
<1>6. Resolves(log, c, steps, d)
  BY <1>2, <1>3, <1>5 DEF Resolves
<1>7. QED
  BY <1>6 DEF steps, step

LEMMA ResolvesThen ==
  ASSUME NEW log, NEW c, NEW s, NEW d, Resolves(log, c, s, d), NEW t, NEW e, Resolves(log, d, t, e)
  PROVE  Resolves(log, c, s \o t, e)
<1> DEFINE S == [id : Nat, pivot : Nat]
           Right(w, steps, n) ==
             /\ steps[n].id \in 1 .. LastId(log)
             /\ w[n] = Resolvent(w[n - 1], ClauseOf(log, steps[n].id), steps[n].pivot)
             /\ IsPivot(w[n - 1], ClauseOf(log, steps[n].id), steps[n].pivot)
             /\ ~IsTautology(w[n])
<1>1. PICK u : u[0] = c /\ u[Len(s)] = d /\ \A n \in 1 .. Len(s) : Right(u, s, n)
  BY DEF Resolves
<1>2. PICK v : v[0] = d /\ v[Len(t)] = e /\ \A n \in 1 .. Len(t) : Right(v, t, n)
  BY DEF Resolves
<1>3. s \in Seq(S) /\ t \in Seq(S)
  BY DEF Resolves
<1> DEFINE A == Len(s)
           B == Len(t)
           st == s \o t
           w == [n \in 0 .. A + B |-> IF n <= A THEN u[n] ELSE v[n - A]]
<1> HIDE DEF S
<1>4. /\ st \in Seq(S) /\ Len(st) = A + B /\ A \in Nat /\ B \in Nat
      /\ \A n \in 1 .. A : st[n] = s[n]
      /\ \A n \in A + 1 .. A + B : st[n] = t[n - A]
  BY <1>3
<1>5. /\ w[0] = c /\ \A n \in 0 .. A : w[n] = u[n]
      /\ \A n \in A .. A + B : w[n] = v[n - A]
  <2>1. \A n \in 0 .. A : n \in 0 .. A + B /\ n <= A
    BY <1>4
  <2>2. \A n \in 0 .. A : w[n] = u[n]
    BY <2>1
  <2>3. 0 \in 0 .. A /\ A \in 0 .. A
    BY <1>4
  <2>4. ASSUME NEW n \in A .. A + B PROVE w[n] = v[n - A]
    <3>1. CASE n = A
      <4>1. n - A = 0
        BY <1>4, <3>1
      <4>2. w[n] = u[A] /\ v[n - A] = v[0]
        BY <2>2, <2>3, <3>1, <4>1
      <4>3. QED
        BY <1>1, <1>2, <4>2
    <3>2. CASE n # A
      <4>1. ~(n <= A) /\ n \in 0 .. A + B
        BY <1>4, <3>2
      <4>2. QED
        BY <4>1
    <3>3. QED
      BY <3>1, <3>2
  <2> HIDE DEF w
  <2>5. w[0] = c
    BY <1>1, <2>2, <2>3
  <2>6. QED
    BY <2>2, <2>4, <2>5
<1> HIDE DEF w, st, A, B
<1>6. ASSUME NEW n \in 1 .. A + B PROVE Right(w, st, n)
  <2>1. CASE n \in 1 .. A
    <3>1. n \in 0 .. A /\ n - 1 \in 0 .. A
      BY <1>4, <2>1
    <3>2. w[n] = u[n] /\ w[n - 1] = u[n - 1] /\ st[n] = s[n]
      BY <1>4, <1>5, <2>1, <3>1
    <3>3. Right(u, s, n)
      BY <1>1, <2>1 DEF A
    <3>4. QED
      BY <3>2, <3>3
  <2>2. CASE n \in A + 1 .. A + B
    <3> DEFINE m == n - A
    <3>1. m \in 1 .. B /\ n \in A .. A + B /\ n - 1 \in A .. A + B /\ (n - 1) - A = m - 1
      BY <1>4, <2>2
    <3>2. w[n] = v[m] /\ w[n - 1] = v[m - 1] /\ st[n] = t[m]
      BY <1>4, <1>5, <2>2, <3>1
    <3>3. Right(v, t, m)
      BY <1>2, <3>1 DEF B
    <3> HIDE DEF m
    <3>4. QED
      BY <3>2, <3>3
  <2>3. QED
    BY <1>4, <2>1, <2>2
<1>7. w[Len(st)] = e
  <2>1. A + B \in A .. A + B /\ (A + B) - A = B
    BY <1>4
  <2>2. w[A + B] = v[B]
    BY <1>5, <2>1
  <2>3. QED
    BY <1>2, <1>4, <2>2 DEF B
<1>8. \A n \in 1 .. Len(st) : Right(w, st, n)
  BY <1>4, <1>6
<1>9. QED
  BY <1>4, <1>5, <1>7, <1>8 DEF Resolves, S, st

\* A chain of such steps is right, and derives what they lead to.
LEMMA ResolvesIs ==
  ASSUME NEW log, NEW start \in 1 .. LastId(log), NEW steps, NEW d,
         Resolves(log, ClauseOf(log, start), steps, d)
  PROVE  RightChain(log, start, steps) /\ ChainClause(log, start, steps) = d
<1> DEFINE N       == Len(steps)
           F(w, n) == IF n = 0 THEN ClauseOf(log, start)
                      ELSE Resolvent(w[n - 1], ClauseOf(log, steps[n].id), steps[n].pivot)
           R(w)    == w = [n \in 0 .. N |-> F(w, n)]
           along   == Along(log, start, steps)
<1>1. N \in Nat
  BY DEF Resolves
<1>2. PICK u :
        /\ u[0] = ClauseOf(log, start) /\ u[N] = d
        /\ \A n \in 1 .. N :
             /\ steps[n].id \in 1 .. LastId(log)
             /\ u[n] = Resolvent(u[n - 1], ClauseOf(log, steps[n].id), steps[n].pivot)
             /\ IsPivot(u[n - 1], ClauseOf(log, steps[n].id), steps[n].pivot)
             /\ ~IsTautology(u[n])
  BY DEF Resolves
<1> DEFINE w == [n \in 0 .. N |-> u[n]]
<1> HIDE DEF N
<1>3. R(w)
  <2>1. \A n \in 1 .. N : n \in 0 .. N /\ n - 1 \in 0 .. N
    BY <1>1
  <2>2. ASSUME NEW n \in 0 .. N PROVE u[n] = F(w, n)
    <3>1. CASE n = 0
      BY <1>2, <3>1
    <3>2. CASE n # 0
      <4>1. n \in 1 .. N /\ w[n - 1] = u[n - 1]
        BY <1>1, <2>1, <3>2
      <4> HIDE DEF w
      <4>2. QED
        BY <1>2, <3>2, <4>1
    <3>3. QED
      BY <3>1, <3>2
  <2> HIDE DEF F
  <2>3. [n \in 0 .. N |-> u[n]] = [n \in 0 .. N |-> F(w, n)]
    BY <2>2
  <2>4. QED
    BY <2>3
<1>4. R(along)
  <2>1. \E f : R(f)
    BY <1>3
  <2>2. R(CHOOSE f : R(f))
    <3> HIDE DEF R
    <3>1. QED
      BY <2>1
  <2>3. along = CHOOSE f : R(f)
    BY DEF Along, N
  <2> HIDE DEF R, along
  <2>4. QED
    BY <2>2, <2>3
<1> HIDE DEF along
<1>5. /\ along[0] = ClauseOf(log, start)
      /\ \A n \in 1 .. N : along[n] = Resolvent(along[n - 1], ClauseOf(log, steps[n].id), steps[n].pivot)
  <2>1. \A n \in 0 .. N : along[n] = F(along, n)
    <3> HIDE DEF F
    <3>1. QED
      BY <1>4
  <2>2. 0 \in 0 .. N /\ \A n \in 1 .. N : n \in 0 .. N /\ n # 0
    BY <1>1
  <2>3. QED
    BY <2>1, <2>2
<1> HIDE DEF F, R
<1>6. \A n \in 0 .. N : along[n] = u[n]
  <2> DEFINE T == {n \in 0 .. N : along[n] # u[n]}
  <2>1. SUFFICES ASSUME T # {} PROVE FALSE
    OBVIOUS
  <2>2. PICK n \in T : \A m \in T : n <= m
    <3>1. T \in SUBSET Nat
      OBVIOUS
    <3> HIDE DEF T
    <3>2. QED
      BY <2>1, <3>1, LeastMember
  <2>3. n \in 0 .. N /\ along[n] # u[n]
    BY <2>2
  <2>4. n # 0
    BY <1>2, <1>5, <2>3
  <2>5. n \in 1 .. N /\ n - 1 \in 0 .. N /\ n - 1 < n
    BY <1>1, <2>3, <2>4
  <2>6. along[n - 1] = u[n - 1]
    BY <2>2, <2>5
  <2>7. QED
    BY <1>2, <1>5, <2>3, <2>5, <2>6
<1>7. ChainClause(log, start, steps) = d
  <2>1. N \in 0 .. N
    BY <1>1
  <2>2. along[N] = d
    BY <1>2, <1>6, <2>1
  <2>3. QED
    BY <2>2 DEF ChainClause, along, N
<1>8. RightChain(log, start, steps)
  <2>1. ASSUME NEW n \in 1 .. N
        PROVE  /\ steps[n].id \in 1 .. LastId(log)
               /\ IsPivot(along[n - 1], ClauseOf(log, steps[n].id), steps[n].pivot)
               /\ ~IsTautology(along[n])
    <3>1. n \in 0 .. N /\ n - 1 \in 0 .. N
      BY <1>1
    <3>2. along[n] = u[n] /\ along[n - 1] = u[n - 1]
      BY <1>6, <3>1
    <3>3. QED
      BY <1>2, <3>2
  <2>2. QED
    BY <2>1 DEF RightChain, along, N
<1>9. QED
  BY <1>7, <1>8

\* To resolve on the variable of a literal.
LEMMA OnLiteral ==
  ASSUME session \in Session, NEW x \in Literal, NEW c, NEW d
  PROVE  /\ Var(x) \in Nat
         /\ Resolvent(c, d, Var(x)) = (c \cup d) \ {x, -x}
         /\ x \in c /\ -x \in d => IsPivot(c, d, Var(x))
<1>1. x \in Int /\ x # 0 /\ -(-x) = x /\ Var(x) \in Variable
  BY LiteralFacts
<1>2. Variable \subseteq Nat \ {0}
  BY LiteralFacts
<1>3. CASE x > 0
  BY <1>1, <1>2, <1>3 DEF Var, Resolvent, IsPivot
<1>4. CASE ~(x > 0)
  <2>1. Var(x) = -x /\ -Var(x) = x
    BY <1>1, <1>4 DEF Var
  <2>2. {Var(x), -Var(x)} = {x, -x}
    BY <2>1
  <2>3. QED
    BY <1>1, <1>2, <2>1, <2>2 DEF Resolvent, IsPivot
<1>5. QED
  BY <1>3, <1>4

\* The literals in order are all of them, and each is met once.
LEMMA InOrderFacts ==
  ASSUME NEW lits, IsFiniteSet(lits)
  PROVE  LET f == InOrder(lits) IN
         /\ Len(f) \in Nat /\ DOMAIN f = 1 .. Len(f)
         /\ \A n \in 1 .. Len(f) : f[n] \in lits
         /\ \A x \in lits : \E n \in 1 .. Len(f) : f[n] = x
         /\ \A m, n \in 1 .. Len(f) : f[m] = f[n] => m = n
<1> DEFINE K == Cardinality(lits)
           R(f) == f \in [1 .. K -> lits] /\ IsInjective(f)
           f == InOrder(lits)
<1>1. K \in Nat /\ ExistsBijection(1 .. K, lits)
  BY FS_CardinalityType
<1>2. \E g : R(g)
  BY <1>1 DEF ExistsBijection, Bijection, Injection
<1>3. R(CHOOSE g : R(g))
  <2> HIDE DEF R
  <2>1. QED
    BY <1>2
<1>4. f \in [1 .. K -> lits] /\ IsInjective(f)
  <2>1. f = CHOOSE g \in [1 .. K -> lits] : IsInjective(g)
    BY DEF InOrder, SetToSeq
  <2> HIDE DEF f, K
  <2>2. \E g \in [1 .. K -> lits] : IsInjective(g)
    BY <1>2
  <2>3. QED
    BY <2>1, <2>2
<1> HIDE DEF f
<1>5. f \in Injection(1 .. K, lits)
  BY <1>4 DEF Injection
<1>6. Cardinality(1 .. K) = K
  <2>1. Cardinality(1 .. K) = IF 1 > K THEN 0 ELSE K - 1 + 1
    BY <1>1, FS_Interval
  <2>2. QED
    BY <1>1, <2>1
<1>7. f \in Surjection(1 .. K, lits)
  <2> DEFINE D == 1 .. K
  <2>1. f \in Injection(D, lits) /\ Cardinality(D) = Cardinality(lits)
    BY <1>5, <1>6
  <2> HIDE DEF D, K
  <2>2. f \in Surjection(D, lits)
    BY <2>1, FS_Injection
  <2>3. QED
    BY <2>2 DEF D
<1> HIDE DEF K
<1>8. f \in Seq(lits) /\ Len(f) = K
  BY <1>1, <1>4
<1>9. QED
  BY <1>1, <1>4, <1>7, <1>8 DEF Surjection, IsInjective, f

(***************************************************************************)
(* The literals that are false at the top level are resolved away with the *)
(* units of the log.                                                       *)
(***************************************************************************)
LEMMA ResolvesUnits ==
  ASSUME session \in Session, NEW log, NEW lits \in SUBSET Literal, NEW c, ~IsTautology(c),
         \A x \in lits : AtTop(Var(x)) =>
           /\ x \in c
           /\ unit_id[Var(x)] \in 1 .. LastId(log)
           /\ ClauseOf(log, unit_id[Var(x)]) = {-x},
         LastId(log) \in Nat
  PROVE  Resolves(log, c, UnitSteps(lits), c \ {x \in lits : AtTop(Var(x))})
<1> DEFINE U == {x \in lits : AtTop(Var(x))}
           f == InOrder(U)
           N == Len(f)
           s == UnitSteps(lits)
           w == [n \in 0 .. N |-> c \ {f[m] : m \in 1 .. n}]
<1>1. IsFiniteSet(U)
  BY LiteralsFinite, FS_Subset
<1>2. /\ N \in Nat /\ DOMAIN f = 1 .. N
      /\ \A n \in 1 .. N : f[n] \in U
      /\ \A x \in U : \E n \in 1 .. N : f[n] = x
      /\ \A m, n \in 1 .. N : f[m] = f[n] => m = n
  <2> HIDE DEF U
  <2>1. QED
    BY <1>1, InOrderFacts
<1>3. s = [n \in 1 .. N |-> [id |-> unit_id[Var(f[n])], pivot |-> Var(f[n])]]
  BY <1>2 DEF UnitSteps
<1> HIDE DEF f, s, N
<1>4. \A n \in 1 .. N : /\ f[n] \in Literal /\ f[n] \in c /\ -f[n] \notin c
                        /\ unit_id[Var(f[n])] \in 1 .. LastId(log)
                        /\ ClauseOf(log, unit_id[Var(f[n])]) = {-f[n]}
                        /\ Var(f[n]) \in Nat
  <2>1. ASSUME NEW n \in 1 .. N
        PROVE  /\ f[n] \in Literal /\ f[n] \in c /\ -f[n] \notin c
               /\ unit_id[Var(f[n])] \in 1 .. LastId(log)
               /\ ClauseOf(log, unit_id[Var(f[n])]) = {-f[n]}
               /\ Var(f[n]) \in Nat
    <3>1. f[n] \in lits /\ AtTop(Var(f[n]))
      BY <1>2
    <3>2. f[n] \in Literal /\ f[n] \in c
      BY <3>1
    <3>3. -f[n] \notin c
      BY <3>2 DEF IsTautology
    <3>4. QED
      BY <3>1, <3>2, <3>3, OnLiteral
  <2>2. QED
    BY <2>1
<1>5. s \in Seq([id : Nat, pivot : Nat]) /\ Len(s) = N
  <2>1. \A n \in 1 .. N : [id |-> unit_id[Var(f[n])], pivot |-> Var(f[n])] \in [id : Nat, pivot : Nat]
    BY <1>4
  <2>2. QED
    BY <1>2, <1>3, <2>1
<1>6. w[0] = c /\ w[N] = c \ U
  <2>1. w[0] = c \ {f[m] : m \in 1 .. 0} /\ w[N] = c \ {f[m] : m \in 1 .. N}
    BY <1>2
  <2>2. {f[m] : m \in 1 .. N} = U
    <3> HIDE DEF U
    <3>1. QED
      BY <1>2
  <2>3. 1 .. 0 = {}
    OBVIOUS
  <2> HIDE DEF w, U
  <2>4. QED
    BY <2>1, <2>2, <2>3
<1>7. ASSUME NEW n \in 1 .. N
      PROVE  /\ s[n].id \in 1 .. LastId(log)
             /\ w[n] = Resolvent(w[n - 1], ClauseOf(log, s[n].id), s[n].pivot)
             /\ IsPivot(w[n - 1], ClauseOf(log, s[n].id), s[n].pivot)
             /\ ~IsTautology(w[n])
  <2> DEFINE y == f[n]
  <2>1. s[n].id = unit_id[Var(y)] /\ s[n].pivot = Var(y)
    BY <1>3
  <2>2. /\ y \in Literal /\ y \in c /\ -y \notin c
        /\ unit_id[Var(y)] \in 1 .. LastId(log) /\ ClauseOf(log, unit_id[Var(y)]) = {-y}
    BY <1>4
  <2>3. w[n] = c \ {f[m] : m \in 1 .. n} /\ w[n - 1] = c \ {f[m] : m \in 1 .. n - 1}
    BY <1>2
  <2>4. \A m \in 1 .. n - 1 : f[m] # y
    <3>1. \A m \in 1 .. n - 1 : m \in 1 .. N /\ m # n
      BY <1>2
    <3>2. QED
      BY <1>2, <3>1
  <2>5. {f[m] : m \in 1 .. n} = {f[m] : m \in 1 .. n - 1} \cup {y}
    <3>1. \A m \in 1 .. n : m \in 1 .. n - 1 \/ m = n
      BY <1>2
    <3>2. n \in 1 .. n /\ \A m \in 1 .. n - 1 : m \in 1 .. n
      BY <1>2
    <3>3. QED
      BY <3>1, <3>2
  <2> HIDE DEF y, w
  <2>6. y \in w[n - 1] /\ w[n] = (w[n - 1] \cup {-y}) \ {y, -y}
    BY <2>2, <2>3, <2>4, <2>5
  <2>7. ~IsTautology(w[n])
    BY <2>3 DEF IsTautology
  <2>8. Resolvent(w[n - 1], {-y}, Var(y)) = (w[n - 1] \cup {-y}) \ {y, -y} /\ IsPivot(w[n - 1], {-y}, Var(y))
    BY <2>2, <2>6, OnLiteral
  <2>9. QED
    BY <2>1, <2>2, <2>6, <2>7, <2>8
<1> HIDE DEF w, U
<1>8. \A n \in 1 .. Len(s) : /\ s[n].id \in 1 .. LastId(log)
                             /\ w[n] = Resolvent(w[n - 1], ClauseOf(log, s[n].id), s[n].pivot)
                             /\ IsPivot(w[n - 1], ClauseOf(log, s[n].id), s[n].pivot)
                             /\ ~IsTautology(w[n])
  BY <1>5, <1>7
<1>9. Resolves(log, c, s, c \ U)
  BY <1>5, <1>6, <1>8 DEF Resolves
<1>10. QED
  BY <1>9 DEF s, U

LEMMA SameBefore ==
  ASSUME NEW log, NEW longer, IsLog(log), Grows(log, longer), NEW n \in 0 .. LastId(log)
  PROVE  SubSeq(longer, 1, n) = SubSeq(log, 1, n)
<1>1. LastId(log) \in Nat /\ n \in Nat /\ \A id \in 1 .. n : longer[id] = log[id]
  BY LogFacts DEF Grows
<1>2. \A s : SubSeq(s, 1, n) = [i \in 1 .. n |-> s[i]]
  BY <1>1
<1>3. QED
  BY <1>1, <1>2

LEMMA AllBefore ==
  ASSUME NEW log, IsLog(log)
  PROVE  SubSeq(log, 1, LastId(log)) = log
<1>1. log \in Seq(ToSet(log)) /\ LastId(log) \in Nat /\ LastId(log) = Len(log)
  BY LogFacts DEF IsLog, LastId
<1>2. QED
  BY <1>1

LEMMA RightAppended ==
  ASSUME NEW log, IsLog(log), NEW F, RightLog(log, F), NEW G, F \subseteq G, NEW e,
         \/ e.kind = "root" /\ e.clause \in G /\ ~IsTautology(e.clause)
         \/ /\ e.kind = "chain" /\ e.start \in 1 .. LastId(log)
            /\ Resolves(log, ClauseOf(log, e.start), e.steps, e.clause)
  PROVE  RightLog(Append(log, e), G)
<1> DEFINE longer == Append(log, e)
           N      == LastId(log)
<1>1. /\ N \in Nat /\ DOMAIN log = 1 .. N /\ Grows(log, longer)
      /\ longer[N + 1] = e /\ LastId(longer) = N + 1
  BY LogFacts, EntryAdded
<1>2. DOMAIN longer = 1 .. N + 1
  BY <1>1, LogFacts DEF Grows
<1> HIDE DEF longer, N
<1>3. ASSUME NEW n \in 1 .. N PROVE RightEntry(longer, G, n)
  <2>1. longer[n] = log[n] /\ RightEntry(log, F, n) /\ n - 1 \in 0 .. N
    BY <1>1 DEF Grows, RightLog, N
  <2>2. SubSeq(longer, 1, n - 1) = SubSeq(log, 1, n - 1)
    BY <1>1, <2>1, SameBefore DEF N
  <2>3. QED
    BY <2>1, <2>2 DEF RightEntry
<1>4. RightEntry(longer, G, N + 1)
  <2>1. N \in 0 .. N /\ (N + 1) - 1 = N
    BY <1>1
  <2>2. SubSeq(longer, 1, N) = SubSeq(log, 1, N) /\ SubSeq(log, 1, N) = log
    BY <1>1, <2>1, SameBefore, AllBefore DEF N
  <2>3. QED
    BY <1>1, <2>1, <2>2 DEF RightEntry
<1>5. \A n \in 1 .. N + 1 : n \in 1 .. N \/ n = N + 1
  BY <1>1
<1>6. QED
  BY <1>2, <1>3, <1>4, <1>5 DEF RightLog, longer

\* A clause keeps its name.
LEMMA ClauseKept ==
  ASSUME NEW log, NEW longer, Grows(log, longer), NEW id \in 1 .. LastId(log)
  PROVE  ClauseOf(longer, id) = ClauseOf(log, id)
  BY DEF Grows, ClauseOf

\* endChain of right steps, and the id of the clause they lead to.
LEMMA RightAdded ==
  ASSUME NEW log, IsLog(log), NEW F, RightLog(log, F), NEW start \in 1 .. LastId(log), NEW steps, NEW d,
         Resolves(log, ClauseOf(log, start), steps, d)
  PROVE  LET longer == endChain(log, start, steps)
             id     == ChainId(log, start, steps)
         IN  /\ RightLog(longer, F) /\ Grows(log, longer) /\ IsLog(longer)
             /\ id \in 1 .. LastId(longer) /\ ClauseOf(longer, id) = d
             /\ steps # <<>> => id = LastId(longer)
<1> DEFINE longer == endChain(log, start, steps)
           id     == ChainId(log, start, steps)
           e      == [kind |-> "chain", start |-> start, steps |-> steps,
                      clause |-> ChainClause(log, start, steps)]
<1>1. /\ Grows(log, longer) /\ id \in 1 .. LastId(longer)
      /\ steps # <<>> => id = LastId(longer)
  BY ChainAdded
<1>2. IsLog(longer)
  BY <1>1 DEF Grows
<1>3. RightChain(log, start, steps) /\ ChainClause(log, start, steps) = d
  BY ResolvesIs
<1>4. CASE steps = <<>>
  <2>1. longer = log /\ id = start
    BY <1>4 DEF endChain, ChainId
  <2>2. d = ClauseOf(log, start)
    BY <1>4 DEF Resolves
  <2>3. QED
    BY <1>1, <1>2, <2>1, <2>2
<1>5. CASE steps # <<>>
  <2>1. longer = Append(log, e) /\ id = LastId(log) + 1
    BY <1>5 DEF endChain, ChainId
  <2>2. e.kind = "chain" /\ e.start = start /\ e.steps = steps /\ e.clause = d
    BY <1>3
  <2> HIDE DEF e, longer, id
  <2>3. RightLog(longer, F)
    BY <2>1, <2>2, RightAppended
  <2>4. longer[id] = e
    BY <2>1, EntryAdded
  <2>5. ClauseOf(longer, id) = d
    BY <2>2, <2>4 DEF ClauseOf
  <2>6. QED
    BY <1>1, <1>2, <2>3, <2>5 DEF longer, id
<1>6. QED
  BY <1>4, <1>5

\* addRoot
LEMMA RootAdded ==
  ASSUME NEW log, IsLog(log), NEW F, RightLog(log, F), NEW G, F \subseteq G, NEW c \in G, ~IsTautology(c)
  PROVE  LET longer == addRoot(log, c) IN
         /\ RightLog(longer, G) /\ Grows(log, longer) /\ IsLog(longer)
         /\ LastId(longer) \in 1 .. LastId(longer) /\ ClauseOf(longer, LastId(longer)) = c
<1> DEFINE e == [kind |-> "root", clause |-> c]
           longer == addRoot(log, c)
<1>1. longer = Append(log, e) /\ e.kind = "root" /\ e.clause = c
  BY DEF addRoot
<1> HIDE DEF e
<1>2. RightLog(longer, G)
  BY <1>1, RightAppended
<1>3. /\ Grows(log, longer) /\ LastId(longer) = LastId(log) + 1 /\ longer[LastId(log) + 1] = e
      /\ LastId(log) \in Nat
  BY <1>1, EntryAdded, LogFacts
<1> HIDE DEF longer
<1>4. LastId(longer) \in 1 .. LastId(longer)
  BY <1>3
<1>5. ClauseOf(longer, LastId(longer)) = c
  BY <1>1, <1>3 DEF ClauseOf
<1>6. IsLog(longer)
  BY <1>3 DEF Grows
<1>7. QED
  BY <1>2, <1>3, <1>4, <1>5, <1>6 DEF longer

-----------------------------------------------------------------------------
(***************************************************************************)
(* The log is a derivation from the formula, and whatever gets a name was  *)
(* derived under that name.  This is inductive, given the rest.            *)
(***************************************************************************)
LogSound ==
  session.logged =>
    /\ RightLog(proof, Formula)
    /\ \A a \in DOMAIN db : ClauseOf(proof, db[a].id) = db[a].lits
    /\ \A x \in ToSet(trail) :
         AtTop(Var(x)) => unit_id[Var(x)] # 0 /\ ClauseOf(proof, unit_id[Var(x)]) = {x}

\* Such a derivation passes the check of Proof.C.
LEMMA LogSoundIsRight ==
  ASSUME IInv, Ids, LogSound
  PROVE  ProofSound
<1>1. SUFFICES ASSUME session.logged, NEW n \in DOMAIN proof, proof[n].kind # "root"
               PROVE  RightChain(SubSeq(proof, 1, n - 1), proof[n].start, proof[n].steps)
  BY DEF ProofSound, LogSound, RightLog, RightEntry
<1>2. RightEntry(proof, Formula, n)
  BY <1>1 DEF LogSound, RightLog
<1>3. QED
  BY <1>1, <1>2, ResolvesIs DEF RightEntry

LEMMA RightMore ==
  ASSUME NEW log, NEW F, NEW G, F \subseteq G, RightLog(log, F)
  PROVE  RightLog(log, G)
  BY DEF RightLog, RightEntry

LEMMA SoundFacts ==
  ASSUME IInv, Ids, LogSound, session.logged
  PROVE  /\ RightLog(proof, Formula) /\ IsLog(proof)
         /\ \A a \in DOMAIN db : /\ db[a].id \in 1 .. LastId(proof)
                                 /\ ClauseOf(proof, db[a].id) = db[a].lits
         /\ \A n \in DOMAIN trail : LevelOf(n) = 0 =>
              /\ unit_id[Var(trail[n])] \in 1 .. LastId(proof)
              /\ ClauseOf(proof, unit_id[Var(trail[n])]) = {trail[n]}
<1>1. IsLog(proof) /\ \A a \in DOMAIN db : db[a].id \in 1 .. LastId(proof)
  BY DEF Ids
<1>2. RightLog(proof, Formula) /\ \A a \in DOMAIN db : ClauseOf(proof, db[a].id) = db[a].lits
  BY DEF LogSound
<1>3. ASSUME NEW n \in DOMAIN trail, LevelOf(n) = 0
      PROVE  /\ unit_id[Var(trail[n])] \in 1 .. LastId(proof)
             /\ ClauseOf(proof, unit_id[Var(trail[n])]) = {trail[n]}
  <2>1. trail[n] \in ToSet(trail) /\ AtTop(Var(trail[n]))
    BY <1>3 DEF ToSet, AtTop, LevelOf
  <2>2. unit_id[Var(trail[n])] # 0 /\ ClauseOf(proof, unit_id[Var(trail[n])]) = {trail[n]}
    BY <2>1 DEF LogSound
  <2>3. unit_id[Var(trail[n])] \in 0 .. LastId(proof) /\ LastId(proof) \in Nat
    BY <1>1, StateFacts, LogFacts DEF Ids
  <2>4. QED
    BY <2>2, <2>3
<1>4. QED
  BY <1>1, <1>2, <1>3

LEMMA SoundNext ==
  ASSUME IInv, Ids, LogSound, session' = session, Grows(proof, proof'),
         session.logged =>
           /\ RightLog(proof', Formula')
           /\ \A a \in DOMAIN db' :
                \/ a \in DOMAIN db /\ db'[a].id = db[a].id /\ db'[a].lits = db[a].lits
                \/ ClauseOf(proof', db'[a].id) = db'[a].lits
           /\ \A n \in DOMAIN trail' : level'[Var(trail'[n])] = 0 =>
                \/ /\ unit_id'[Var(trail'[n])] = unit_id[Var(trail'[n])]
                   /\ \E m \in DOMAIN trail : trail[m] = trail'[n] /\ LevelOf(m) = 0
                \/ /\ unit_id'[Var(trail'[n])] # 0
                   /\ ClauseOf(proof', unit_id'[Var(trail'[n])]) = {trail'[n]}
  PROVE  LogSound'
<1> SUFFICES ASSUME session.logged PROVE LogSound'
  BY DEF LogSound
<1>1. RightLog(proof', Formula') => (RightLog(proof, Formula))'
  BY DEF RightLog, RightEntry, Resolves, LastId, ClauseOf
<1>2. ASSUME NEW a \in DOMAIN db' PROVE ClauseOf(proof', db'[a].id) = db'[a].lits
  <2>1. CASE a \in DOMAIN db /\ db'[a].id = db[a].id /\ db'[a].lits = db[a].lits
    BY <2>1, SoundFacts, ClauseKept
  <2>2. QED
    BY <2>1
<1>3. ASSUME NEW n \in DOMAIN trail', level'[Var(trail'[n])] = 0
      PROVE  /\ unit_id'[Var(trail'[n])] # 0
             /\ ClauseOf(proof', unit_id'[Var(trail'[n])]) = {trail'[n]}
  <2> SUFFICES ASSUME unit_id'[Var(trail'[n])] = unit_id[Var(trail'[n])],
                      \E m \in DOMAIN trail : trail[m] = trail'[n] /\ LevelOf(m) = 0
               PROVE  /\ unit_id'[Var(trail'[n])] # 0
                      /\ ClauseOf(proof', unit_id'[Var(trail'[n])]) = {trail'[n]}
    BY <1>3
  <2>1. PICK m \in DOMAIN trail : trail[m] = trail'[n] /\ LevelOf(m) = 0
    OBVIOUS
  <2>2. /\ unit_id[Var(trail[m])] \in 1 .. LastId(proof)
        /\ ClauseOf(proof, unit_id[Var(trail[m])]) = {trail[m]}
    BY <2>1, SoundFacts
  <2>3. ClauseOf(proof', unit_id[Var(trail[m])]) = {trail[m]}
    BY <2>2, ClauseKept
  <2>4. unit_id[Var(trail[m])] # 0
    BY <2>2
  <2>5. QED
    BY <2>1, <2>3, <2>4
<1>4. \A x \in ToSet(trail)' : level'[Var(x)] = 0 =>
        unit_id'[Var(x)] # 0 /\ ClauseOf(proof', unit_id'[Var(x)]) = {x}
  BY <1>3 DEF ToSet
<1>5. QED
  BY <1>1, <1>2, <1>4 DEF LogSound, AtTop

\* Nothing is logged.
LEMMA SoundKept ==
  ASSUME IInv, Ids, LogSound, UNCHANGED <<session, given, proof, unit_id>>,
         \A a \in DOMAIN db' : a \in DOMAIN db /\ db'[a].id = db[a].id /\ db'[a].lits = db[a].lits,
         session.logged => \A n \in DOMAIN trail' : level'[Var(trail'[n])] = 0 =>
           \E m \in DOMAIN trail : trail[m] = trail'[n] /\ LevelOf(m) = 0
  PROVE  LogSound'
<1>1. Grows(proof, proof')
  BY LogFacts DEF Ids
<1>2. session.logged => RightLog(proof', Formula')
  BY SoundFacts DEF Formula
<1>3. QED
  BY <1>1, <1>2, SoundNext

\* Literals that are false, at the top level or not, exclude each other.
LEMMA FalseClause ==
  ASSUME IInv, NEW c \in SUBSET Literal, \A x \in c : IsFalse(x)
  PROVE  ~IsTautology(c)
<1>1. SUFFICES ASSUME NEW x \in c, -x \in c PROVE FALSE
  BY DEF IsTautology
<1>2. session \in Session /\ Assigned
  BY StateFacts
<1>3. x \in Literal /\ -x \in Literal /\ IsFalse(x) /\ IsFalse(-x)
  BY <1>1
<1>4. Var(-x) = Var(x) /\ -x # x
  BY <1>2, <1>3, LiteralFacts
<1>5. QED
  BY <1>2, <1>3, <1>4, FalseUnique

LEMMA UnitsResolve ==
  ASSUME IInv, Ids, LogSound, session.logged, NEW log, Grows(proof, log),
         NEW lits \in SUBSET Literal, NEW c, ~IsTautology(c),
         \A x \in lits : AtTop(Var(x)) => x \in c /\ IsFalse(x)
  PROVE  Resolves(log, c, UnitSteps(lits), c \ {x \in lits : AtTop(Var(x))})
<1>1. session \in Session /\ Assigned /\ LastId(log) \in Nat /\ LastId(proof) \in Nat
  BY StateFacts, LogFacts DEF Ids, Grows
<1>2. ASSUME NEW x \in lits, AtTop(Var(x))
      PROVE  /\ unit_id[Var(x)] \in 1 .. LastId(log)
             /\ ClauseOf(log, unit_id[Var(x)]) = {-x}
  <2>1. x \in Literal /\ IsFalse(x)
    BY <1>2
  <2>2. PICK n \in DOMAIN trail : trail[n] = -x
    BY <1>1, <2>1, FalseFacts
  <2>3. Var(trail[n]) = Var(x) /\ LevelOf(n) = 0
    BY <1>1, <1>2, <2>1, <2>2, FalseFacts DEF AtTop, LevelOf
  <2>4. unit_id[Var(x)] \in 1 .. LastId(proof) /\ ClauseOf(proof, unit_id[Var(x)]) = {-x}
    BY <2>2, <2>3, SoundFacts
  <2>5. unit_id[Var(x)] \in 1 .. LastId(log)
    BY <1>1, <2>4 DEF Grows
  <2>6. QED
    BY <2>4, <2>5, ClauseKept
<1>3. QED
  BY <1>1, <1>2, ResolvesUnits

\* The chain that removes the false literals of a clause that is added.
LEMMA AddClauseLogged ==
  ASSUME IInv, Ids, LogSound, AddClause, ~UNCHANGED <<memory, assignment>>, session.logged
  PROVE  LET qs    == session.clauses[given + 1]
             kept  == {x \in qs : ~IsFalse(x)}
             steps == UnitSteps(qs \ kept)
             root  == addRoot(proof, qs)
             id    == ChainId(root, LastId(root), steps)
         IN  /\ RightLog(proof', Formula') /\ id \in 1 .. LastId(proof')
             /\ ClauseOf(proof', id) = kept /\ id = LastId(proof')
<1> DEFINE qs    == session.clauses[given + 1]
           kept  == {x \in qs : ~IsFalse(x)}
           steps == UnitSteps(qs \ kept)
           root  == addRoot(proof, qs)
           id    == ChainId(root, LastId(root), steps)
<1>1. /\ session' = session /\ given' = given + 1 /\ pc = "idle"
      /\ Grows(proof, proof')
  BY NextGrows DEF Next, AddClause, Ids
<1>2. /\ session \in Session /\ Assigned /\ decisionLevel = 0 /\ given \in Nat
      /\ given + 1 \in 1 .. Len(session.clauses)
  <2>1. session \in Session /\ given \in 0 .. Len(session.clauses) /\ given < Len(session.clauses)
    BY DEF IInv, Calls, AddClause
  <2>2. Len(session.clauses) \in Nat
    BY <2>1, CallFacts
  <2>3. decisionLevel = 0
    BY <1>1 DEF IInv, Calls
  <2>4. QED
    BY <2>1, <2>2, <2>3, StateFacts
<1>3. qs \in SUBSET Literal
  BY <1>2, CallFacts
<1>4. qs \in Formula' /\ Formula \subseteq Formula'
  BY <1>1, <1>2 DEF Formula
<1> HIDE DEF qs
<1>5. /\ ~IsTautology(qs) /\ \A x \in qs : ~IsTrue(x)
      /\ proof' = endChain(root, LastId(root), steps)
  BY DEF AddClause, Log, qs
<1>6. RightLog(proof, Formula) /\ IsLog(proof)
  BY SoundFacts
<1>7. /\ RightLog(root, Formula') /\ Grows(proof, root) /\ IsLog(root)
      /\ LastId(root) \in 1 .. LastId(root) /\ ClauseOf(root, LastId(root)) = qs
  BY <1>4, <1>5, <1>6, RootAdded
<1> HIDE DEF root
<1>8. \A x \in qs \ kept : IsFalse(x) /\ x \in qs /\ AtTop(Var(x))
  <2>1. SUFFICES ASSUME NEW x \in qs \ kept PROVE IsFalse(x) /\ x \in qs /\ AtTop(Var(x))
    OBVIOUS
  <2>2. x \in Literal /\ IsFalse(x) /\ x \in qs
    BY <1>3
  <2>3. PICK n \in DOMAIN trail : trail[n] = -x
    BY <1>2, <2>2, FalseFacts
  <2>4. Var(trail[n]) = Var(x) /\ LevelOf(n) = 0
    BY <1>2, <2>2, <2>3, FalseFacts, TopLevels
  <2>5. QED
    BY <2>2, <2>4 DEF LevelOf, AtTop
<1>9. qs \ {x \in qs \ kept : AtTop(Var(x))} = kept
  BY <1>8
<1>10. qs \ kept \in SUBSET Literal
  BY <1>3
<1>11. Resolves(root, qs, steps, kept)
  <2> DEFINE out == qs \ kept
  <2>1. out \in SUBSET Literal /\ \A x \in out : AtTop(Var(x)) => x \in qs /\ IsFalse(x)
    BY <1>8, <1>10
  <2> HIDE DEF out
  <2>2. Resolves(root, qs, UnitSteps(out), qs \ {x \in out : AtTop(Var(x))})
    BY <1>5, <1>7, <2>1, UnitsResolve
  <2>3. QED
    BY <1>9, <2>2 DEF out
<1> HIDE DEF steps, kept
<1>12. /\ RightLog(proof', Formula') /\ id \in 1 .. LastId(proof')
       /\ ClauseOf(proof', id) = kept /\ (steps # <<>> => id = LastId(proof'))
  BY <1>5, <1>7, <1>11, RightAdded
<1>13. steps = <<>> => id = LastId(proof')
  BY <1>5 DEF endChain, ChainId
<1> HIDE DEF id
<1>14. QED
  BY <1>12, <1>13 DEF id, root, steps, kept, qs

\* newClause of a clause that is not learnt, and the unit it may be.
LEMMA AddClauseSound == IInv /\ Ids /\ LogSound /\ AddClause => LogSound'
<1> SUFFICES ASSUME IInv, Ids, LogSound, AddClause PROVE LogSound'
  OBVIOUS
<1> DEFINE qs    == session.clauses[given + 1]
           kept  == {x \in qs : ~IsFalse(x)}
           steps == UnitSteps(qs \ kept)
           unit  == First(kept)
<1>1. /\ session' = session /\ given' = given + 1 /\ pc = "idle"
      /\ Grows(proof, proof')
  BY NextGrows DEF Next, AddClause, Ids
<1>2. /\ session \in Session /\ Assigned /\ decisionLevel = 0 /\ given \in Nat
      /\ given + 1 \in 1 .. Len(session.clauses)
  <2>1. session \in Session /\ given \in 0 .. Len(session.clauses) /\ given < Len(session.clauses)
    BY DEF IInv, Calls, AddClause
  <2>2. Len(session.clauses) \in Nat
    BY <2>1, CallFacts
  <2>3. decisionLevel = 0
    BY <1>1 DEF IInv, Calls
  <2>4. QED
    BY <2>1, <2>2, <2>3, StateFacts
<1>3. qs \in SUBSET Literal
  BY <1>2, CallFacts
<1>4. qs \in Formula' /\ Formula \subseteq Formula'
  BY <1>1, <1>2 DEF Formula
<1> HIDE DEF qs
<1>5. CASE UNCHANGED <<memory, assignment>>
  <2>1. UNCHANGED <<proof, unit_id, db, trail, level>>
    BY <1>5 DEF memory, assignment
  <2>2. session.logged => RightLog(proof', Formula')
    BY <1>4, <2>1, SoundFacts, RightMore
  <2>3. \A n \in DOMAIN trail' : level'[Var(trail'[n])] = 0 =>
          \E m \in DOMAIN trail : trail[m] = trail'[n] /\ LevelOf(m) = 0
    BY <2>1 DEF LevelOf
  <2>4. QED
    BY <1>1, <2>1, <2>2, <2>3, SoundNext
<1>6. CASE ~UNCHANGED <<memory, assignment>>
  <2> DEFINE root == addRoot(proof, qs)
             id   == ChainId(root, LastId(root), steps)
  <2>1. /\ ~IsTautology(qs) /\ \A x \in qs : ~IsTrue(x)
        /\ session.logged => proof' = endChain(root, LastId(root), steps)
    BY <1>6 DEF AddClause, Log, qs
  <2>2. ASSUME session.logged
        PROVE  /\ \/ db' = db
                  \/ /\ DOMAIN db' = DOMAIN db \cup {Address}
                     /\ \A a \in DOMAIN db \ {Address} : db'[a] = db[a]
                     /\ db'[Address].id = id /\ db'[Address].lits = kept
               /\ \/ UNCHANGED <<trail, level, unit_id>>
                  \/ /\ Cardinality(kept) = 1
                     /\ unit_id' = [unit_id EXCEPT ![Var(unit)] = id]
                     /\ trail' = Append(trail, unit)
                     /\ level' = [level EXCEPT ![Var(unit)] = 0]
    <3> DEFINE c == Clause(FALSE, unit, First(kept \ {unit}), kept, id)
    <3>1. c.id = id /\ c.lits = kept
      BY DEF Clause
    <3>2. LogId(IF session.logged THEN addRoot(proof, qs) ELSE proof,
                LastId(IF session.logged THEN addRoot(proof, qs) ELSE proof), steps) = id
      BY <2>2 DEF LogId
    <3>3. \/ db' = db
          \/ db' = [a \in DOMAIN db \cup {Address} |-> IF a = Address THEN c ELSE db[a]]
      BY <1>6, <3>2 DEF AddClause, qs
    <3>4. \/ UNCHANGED <<trail, level, unit_id>>
          \/ /\ Cardinality(kept) = 1
             /\ unit_id' = [unit_id EXCEPT ![Var(unit)] = id]
             /\ trail' = Append(trail, unit)
             /\ level' = [level EXCEPT ![Var(unit)] = 0]
      BY <1>6, <3>2 DEF AddClause, qs
    <3> HIDE DEF c, id, steps, unit, kept
    <3>5. \/ db' = db
          \/ /\ DOMAIN db' = DOMAIN db \cup {Address}
             /\ \A a \in DOMAIN db \ {Address} : db'[a] = db[a]
             /\ db'[Address].id = id /\ db'[Address].lits = kept
      BY <3>1, <3>3
    <3>6. QED
      BY <3>4, <3>5
  <2>3. ASSUME session.logged
        PROVE  /\ RightLog(proof', Formula') /\ id \in 1 .. LastId(proof')
               /\ ClauseOf(proof', id) = kept
    BY <1>6, <2>3, AddClauseLogged DEF qs
  <2>4. ASSUME session.logged, NEW a \in DOMAIN db'
        PROVE  \/ a \in DOMAIN db /\ db'[a].id = db[a].id /\ db'[a].lits = db[a].lits
               \/ ClauseOf(proof', db'[a].id) = db'[a].lits
    <3> HIDE DEF id, kept, unit, steps, root
    <3>1. QED
      BY <2>2, <2>3, <2>4
  <2>5. ASSUME session.logged, NEW n \in DOMAIN trail', level'[Var(trail'[n])] = 0
        PROVE  \/ /\ unit_id'[Var(trail'[n])] = unit_id[Var(trail'[n])]
                  /\ \E m \in DOMAIN trail : trail[m] = trail'[n] /\ LevelOf(m) = 0
               \/ /\ unit_id'[Var(trail'[n])] # 0
                  /\ ClauseOf(proof', unit_id'[Var(trail'[n])]) = {trail'[n]}
    <3>1. CASE UNCHANGED <<trail, level, unit_id>>
      BY <2>5, <3>1 DEF LevelOf
    <3>2. CASE /\ Cardinality(kept) = 1
               /\ unit_id' = [unit_id EXCEPT ![Var(unit)] = id]
               /\ trail' = Append(trail, unit)
               /\ level' = [level EXCEPT ![Var(unit)] = 0]
      <4>1. kept = {unit}
        <5>1. kept \in SUBSET Literal /\ IsFiniteSet(kept)
          <6>1. kept \in SUBSET Literal
            BY <1>3
          <6>2. QED
            BY <1>2, <6>1, LiteralsFinite, FS_Subset
        <5> HIDE DEF kept
        <5>2. \E x : kept = {x}
          BY <3>2, <5>1, FS_Singleton
        <5>3. kept # {}
          BY <5>2
        <5>4. unit \in kept
          BY <1>2, <5>1, <5>3, FirstMember
        <5>5. QED
          BY <5>2, <5>4
      <4>2. unit \in Literal /\ ~IsFalse(unit) /\ ~IsTrue(unit)
        BY <1>3, <2>1, <4>1
      <4>3. \A m \in DOMAIN trail : Var(trail[m]) # Var(unit)
        BY <1>2, <4>2, FalseFacts
      <4>4. /\ Len(trail) \in Nat /\ DOMAIN trail = 1 .. Len(trail) /\ trail \in Seq(Literal)
            /\ Var(unit) \in Variable /\ \A m \in DOMAIN trail : Var(trail[m]) \in Variable
        BY <1>2, <4>2, TrailFacts, LiteralFacts DEF Divided
      <4>5. unit_id \in [Variable -> 0 .. LastId(proof)] /\ level \in [Variable -> Int]
        BY <1>2, TrailFacts DEF Ids
      <4> HIDE DEF unit, id, kept
      <4>6. CASE n \in DOMAIN trail
        <5>1. trail'[n] = trail[n]
          BY <3>2, <4>4, <4>6
        <5>2. Var(trail[n]) # Var(unit) /\ Var(trail[n]) \in Variable
          BY <4>3, <4>4, <4>6
        <5>3. unit_id'[Var(trail[n])] = unit_id[Var(trail[n])] /\ level'[Var(trail[n])] = level[Var(trail[n])]
          BY <3>2, <4>5, <5>2
        <5>4. QED
          BY <2>5, <4>6, <5>1, <5>3 DEF LevelOf
      <4>7. CASE n = Len(trail) + 1
        <5>1. trail'[n] = unit
          BY <3>2, <4>4, <4>7
        <5>2. unit_id'[Var(unit)] = id
          BY <3>2, <4>4, <4>5
        <5>3. id # 0 /\ ClauseOf(proof', id) = {unit}
          BY <2>3, <2>5, <4>1
        <5>4. QED
          BY <5>1, <5>2, <5>3
      <4>8. n \in DOMAIN trail \/ n = Len(trail) + 1
        BY <3>2, <4>4
      <4>9. QED
        BY <4>6, <4>7, <4>8
    <3>3. QED
      BY <2>2, <2>5, <3>1, <3>2
  <2>6. QED
    BY <1>1, <2>3, <2>4, <2>5, SoundNext
<1>7. QED
  BY <1>5, <1>6

(***************************************************************************)
(* propagate: the unit clause gets an id at the top level, and where it    *)
(* contradicts another one, the empty clause is derived.                   *)
(***************************************************************************)
LEMMA UnitLogged ==
  ASSUME IInv, WInv, Ids, LogSound, session.logged, decisionLevel = 0,
         NEW a \in todo, ~IsTrue(Turned(a).first), NewWatch(Turned(a)) = {}
  PROVE  LET c  == Turned(a)
             id == LogId(proof, c.id, UnitSteps(c.lits \ {c.first}))
         IN  /\ RightLog(UnitLog(c), Formula)
             /\ ~IsFalse(c.first) => id # 0 /\ ClauseOf(UnitLog(c), id) = {c.first}
             /\ IsFalse(c.first) => EndsEmpty(UnitLog(c))
<1> DEFINE c     == Turned(a)
           f     == c.first
           s     == c.second
           lits  == db[a].lits
           steps == UnitSteps(lits \ {f})
           id    == ChainId(proof, db[a].id, steps)
           unit  == endChain(proof, db[a].id, steps)
<1>1. /\ session \in Session /\ Assigned /\ a \in DOMAIN db
      /\ c.lits = lits /\ c.id = db[a].id
      /\ f \in lits /\ s \in lits /\ f \in Literal /\ s \in Literal /\ f # s /\ IsFalse(s)
      /\ lits \subseteq Literal
  BY StateFacts, VisitFacts, TurnedFacts, TurnedId, ClauseFacts DEF Clause
<1>2. ~IsTrue(f) /\ \A x \in lits \ {f} : IsFalse(x) /\ x \in lits
  BY <1>1 DEF NewWatch
<1>3. /\ UnitLog(c) = IF IsFalse(f)
                      THEN endChain(unit, unit_id[Var(f)], <<[id |-> LastId(unit), pivot |-> Var(f)]>>)
                      ELSE unit
      /\ LogId(proof, c.id, UnitSteps(c.lits \ {c.first})) = id
  BY <1>1 DEF UnitLog, LogId
<1> HIDE DEF c, f, s, lits
<1>4. \A x \in lits \ {f} : AtTop(Var(x))
  <2>1. SUFFICES ASSUME NEW x \in lits \ {f} PROVE AtTop(Var(x))
    OBVIOUS
  <2>2. x \in Literal /\ IsFalse(x)
    BY <1>1, <1>2
  <2>3. PICK n \in DOMAIN trail : trail[n] = -x
    BY <1>1, <2>2, FalseFacts
  <2>4. Var(trail[n]) = Var(x) /\ LevelOf(n) = 0
    BY <1>1, <2>2, <2>3, FalseFacts, TopLevels
  <2>5. QED
    BY <2>4 DEF LevelOf, AtTop
<1>5. ~IsTautology(lits)
  <2>1. SUFFICES ASSUME NEW x \in lits, -x \in lits PROVE FALSE
    BY DEF IsTautology
  <2>2. x \in Literal /\ -x \in Literal /\ -(-x) = x /\ -x # x /\ Var(x) = Var(-x)
    BY <1>1, <2>1, LiteralFacts
  <2>3. CASE x = f
    <3>1. IsFalse(-x)
      BY <1>2, <2>1, <2>2, <2>3
    <3>2. QED
      BY <1>2, <2>2, <2>3, <3>1 DEF IsFalse, IsTrue
  <2>4. CASE -x = f
    <3>1. IsFalse(x)
      BY <1>2, <2>1, <2>2, <2>4
    <3>2. QED
      BY <1>2, <2>4, <3>1 DEF IsFalse, IsTrue
  <2>5. CASE x # f /\ -x # f
    <3>1. IsFalse(x) /\ IsFalse(-x)
      BY <1>2, <2>1, <2>5
    <3>2. QED
      BY <1>1, <2>2, <3>1, FalseUnique
  <2>6. QED
    BY <2>3, <2>4, <2>5
<1>6. /\ RightLog(proof, Formula) /\ IsLog(proof) /\ Grows(proof, proof)
      /\ db[a].id \in 1 .. LastId(proof) /\ ClauseOf(proof, db[a].id) = lits
  BY <1>1, SoundFacts, LogFacts DEF lits
<1>7. Resolves(proof, lits, steps, {f})
  <2> DEFINE out == lits \ {f}
  <2>1. /\ out \in SUBSET Literal /\ \A x \in out : AtTop(Var(x)) => x \in lits /\ IsFalse(x)
        /\ lits \ {x \in out : AtTop(Var(x))} = {f}
    BY <1>1, <1>2, <1>4
  <2> HIDE DEF out
  <2>2. Resolves(proof, lits, UnitSteps(out), lits \ {x \in out : AtTop(Var(x))})
    BY <1>5, <1>6, <2>1, UnitsResolve
  <2>3. QED
    BY <2>1, <2>2 DEF out
<1>8. steps # <<>>
  <2> DEFINE U == {x \in lits \ {f} : AtTop(Var(x))}
  <2>1. s \in U /\ U \in SUBSET Literal
    BY <1>1, <1>4
  <2>2. IsFiniteSet(U)
    BY <1>1, <2>1, LiteralsFinite, FS_Subset
  <2>3. steps = [n \in DOMAIN InOrder(U) |-> [id |-> unit_id[Var(InOrder(U)[n])], pivot |-> Var(InOrder(U)[n])]]
    BY DEF UnitSteps
  <2> HIDE DEF U, steps
  <2>4. \E n \in 1 .. Len(InOrder(U)) : InOrder(U)[n] = s
    BY <2>1, <2>2, InOrderFacts
  <2>5. DOMAIN InOrder(U) = 1 .. Len(InOrder(U))
    BY <2>2, InOrderFacts
  <2>6. DOMAIN steps # {}
    BY <2>3, <2>4, <2>5
  <2>7. QED
    BY <2>6
<1> HIDE DEF steps
<1>9. /\ RightLog(unit, Formula) /\ Grows(proof, unit) /\ IsLog(unit)
      /\ id \in 1 .. LastId(unit) /\ ClauseOf(unit, id) = {f} /\ id = LastId(unit)
  BY <1>6, <1>7, <1>8, RightAdded
<1> HIDE DEF unit, id
<1>10. CASE ~IsFalse(f)
  <2>1. UnitLog(c) = unit /\ id # 0
    BY <1>3, <1>9, <1>10
  <2>2. QED
    BY <1>3, <1>9, <1>10, <2>1 DEF c, f
<1>11. CASE IsFalse(f)
  <2> DEFINE step == <<[id |-> LastId(unit), pivot |-> Var(f)]>>
             u    == unit_id[Var(f)]
  <2>1. PICK n \in DOMAIN trail : trail[n] = -f
    BY <1>1, <1>11, FalseFacts
  <2>2. Var(trail[n]) = Var(f) /\ LevelOf(n) = 0
    BY <1>1, <1>11, <2>1, FalseFacts, TopLevels
  <2>3. u \in 1 .. LastId(proof) /\ ClauseOf(proof, u) = {-f}
    BY <2>1, <2>2, SoundFacts
  <2>4. ClauseOf(unit, u) = {-f} /\ u \in 1 .. LastId(unit)
    <3>1. LastId(proof) \in Nat /\ LastId(unit) \in Nat /\ LastId(proof) <= LastId(unit)
      BY <1>6, <1>9, LogFacts DEF Grows
    <3>2. QED
      BY <1>9, <2>3, <3>1, ClauseKept
  <2>5. -f \in Literal /\ -(-f) = f /\ Var(-f) = Var(f)
    BY <1>1, LiteralFacts
  <2>6. /\ Var(f) \in Nat /\ IsPivot({-f}, {f}, Var(f))
        /\ Resolvent({-f}, {f}, Var(f)) = {}
    <3>1. /\ Resolvent({-f}, {f}, Var(-f)) = ({-f} \cup {f}) \ {-f, -(-f)}
          /\ Var(-f) \in Nat
          /\ IsPivot({-f}, {f}, Var(-f))
      BY <1>1, <2>5, OnLiteral
    <3>2. QED
      BY <2>5, <3>1
  <2>7. Resolves(unit, {-f}, step, {})
    <3>1. ~IsTautology({})
      BY DEF IsTautology
    <3>2. QED
      BY <1>9, <2>6, <3>1, ResolvesOne
  <2> HIDE DEF u
  <2>8. RightLog(endChain(unit, u, step), Formula) /\ EndsEmpty(endChain(unit, u, step))
    <3>1. step # <<>>
      OBVIOUS
    <3> HIDE DEF step
    <3> DEFINE longer == endChain(unit, u, step)
    <3>2. Resolves(unit, ClauseOf(unit, u), step, {})
      BY <2>4, <2>7
    <3>3. /\ RightLog(longer, Formula) /\ ChainId(unit, u, step) \in 1 .. LastId(longer)
          /\ ClauseOf(longer, ChainId(unit, u, step)) = {}
          /\ ChainId(unit, u, step) = LastId(longer)
      BY <1>9, <2>4, <3>1, <3>2, RightAdded
    <3> HIDE DEF longer
    <3>4. QED
      BY <3>3 DEF EndsEmpty, longer
  <2> HIDE DEF step
  <2>9. UnitLog(c) = endChain(unit, u, step)
    BY <1>3, <1>11 DEF step, u
  <2>10. QED
    BY <1>11, <2>8, <2>9 DEF c, f
<1>12. QED
  BY <1>10, <1>11

LEMMA VisitUnitSound == IInv /\ WInv /\ Ids /\ LogSound /\ VisitUnit => LogSound'
<1> SUFFICES ASSUME IInv, WInv, Ids, LogSound, VisitUnit PROVE LogSound'
  OBVIOUS
<1>1. PICK a \in todo :
        LET c  == Turned(a)
            id == LogId(proof, c.id, UnitSteps(c.lits \ {c.first}))
        IN  /\ ~IsTrue(c.first) /\ NewWatch(c) = {}
            /\ UNCHANGED <<session, given>>
            /\ db' = [db EXCEPT ![a] = c]
            /\ \/ /\ decisionLevel = 0 /\ session.logged /\ proof' = UnitLog(c)
                  /\ unit_id' = IF IsFalse(c.first) THEN unit_id ELSE [unit_id EXCEPT ![Var(c.first)] = id]
               \/ ~(decisionLevel = 0 /\ session.logged) /\ UNCHANGED <<unit_id, proof>>
            /\ \/ IsFalse(c.first) /\ UNCHANGED <<trail, level>>
               \/ /\ ~IsFalse(c.first) /\ trail' = Append(trail, c.first)
                  /\ level' = [level EXCEPT ![Var(c.first)] = decisionLevel]
  BY DEF VisitUnit
<1> DEFINE c  == Turned(a)
           f  == c.first
           id == LogId(proof, c.id, UnitSteps(c.lits \ {c.first}))
<1>2. Grows(proof, proof')
  BY NextGrows DEF Next, Propagate, Ids
<1>3. /\ session \in Session /\ Assigned /\ a \in DOMAIN db /\ f \in Literal
      /\ c.lits = db[a].lits /\ c.id = db[a].id
  BY StateFacts, VisitFacts, TurnedFacts, TurnedId DEF Clause
<1>4. \A b \in DOMAIN db' : b \in DOMAIN db /\ db'[b].id = db[b].id /\ db'[b].lits = db[b].lits
  <2> HIDE DEF c
  <2>1. db' = [db EXCEPT ![a] = c]
    BY <1>1 DEF c
  <2>2. QED
    BY <1>3, <2>1
<1>5. /\ ~IsTrue(f)
      /\ \/ /\ decisionLevel = 0 /\ session.logged /\ proof' = UnitLog(c)
            /\ unit_id' = IF IsFalse(f) THEN unit_id ELSE [unit_id EXCEPT ![Var(f)] = id]
         \/ ~(decisionLevel = 0 /\ session.logged) /\ UNCHANGED <<unit_id, proof>>
      /\ \/ IsFalse(f) /\ UNCHANGED <<trail, level>>
         \/ /\ ~IsFalse(f) /\ trail' = Append(trail, f)
            /\ level' = [level EXCEPT ![Var(f)] = decisionLevel]
  BY <1>1
<1>6. Formula' = Formula
  BY <1>1 DEF Formula
<1>7. session.logged /\ decisionLevel = 0 =>
        RightLog(UnitLog(c), Formula) /\ (~IsFalse(f) => id # 0 /\ ClauseOf(UnitLog(c), id) = {f})
  BY <1>1, UnitLogged
<1> HIDE DEF c, f, id
<1>8. session.logged => RightLog(proof', Formula')
  BY <1>5, <1>6, <1>7, SoundFacts
<1>9. ASSUME session.logged, NEW n \in DOMAIN trail', level'[Var(trail'[n])] = 0
      PROVE  \/ /\ unit_id'[Var(trail'[n])] = unit_id[Var(trail'[n])]
                /\ \E m \in DOMAIN trail : trail[m] = trail'[n] /\ LevelOf(m) = 0
             \/ /\ unit_id'[Var(trail'[n])] # 0
                /\ ClauseOf(proof', unit_id'[Var(trail'[n])]) = {trail'[n]}
  <2>1. CASE IsFalse(f) /\ UNCHANGED <<trail, level>>
    BY <1>5, <1>9, <2>1 DEF LevelOf
  <2>2. CASE /\ ~IsFalse(f) /\ trail' = Append(trail, f)
             /\ level' = [level EXCEPT ![Var(f)] = decisionLevel]
    <3>1. \A m \in DOMAIN trail : Var(trail[m]) # Var(f)
      BY <1>3, <1>5, <2>2, FalseFacts
    <3>2. /\ Len(trail) \in Nat /\ DOMAIN trail = 1 .. Len(trail) /\ trail \in Seq(Literal)
          /\ Var(f) \in Variable /\ \A m \in DOMAIN trail : Var(trail[m]) \in Variable
      BY <1>3, TrailFacts, LiteralFacts DEF Divided
    <3>3. unit_id \in [Variable -> 0 .. LastId(proof)] /\ level \in [Variable -> Int]
      BY <1>3, TrailFacts DEF Ids
    <3>4. CASE n \in DOMAIN trail
      <4>1. trail'[n] = trail[n]
        BY <2>2, <3>2, <3>4
      <4>2. Var(trail[n]) # Var(f) /\ Var(trail[n]) \in Variable
        BY <3>1, <3>2, <3>4
      <4>3. unit_id'[Var(trail[n])] = unit_id[Var(trail[n])]
        BY <1>5, <2>2, <3>3, <4>2
      <4>4. level'[Var(trail[n])] = level[Var(trail[n])]
        BY <2>2, <3>3, <4>2
      <4>5. QED
        BY <1>9, <3>4, <4>1, <4>3, <4>4 DEF LevelOf
    <3>5. CASE n = Len(trail) + 1
      <4>1. trail'[n] = f
        BY <2>2, <3>2, <3>5
      <4>2. level'[Var(f)] = decisionLevel
        BY <2>2, <3>2, <3>3
      <4>3. decisionLevel = 0
        BY <1>9, <4>1, <4>2
      <4>4. proof' = UnitLog(c) /\ unit_id' = [unit_id EXCEPT ![Var(f)] = id]
        BY <1>5, <1>9, <2>2, <4>3
      <4>5. unit_id'[Var(f)] = id
        BY <3>2, <3>3, <4>4
      <4>6. QED
        BY <1>7, <1>9, <2>2, <4>1, <4>3, <4>4, <4>5
    <3>6. n \in DOMAIN trail \/ n = Len(trail) + 1
      BY <2>2, <3>2
    <3>7. QED
      BY <3>4, <3>5, <3>6
  <2>3. QED
    BY <1>5, <2>1, <2>2
<1>10. session' = session
  BY <1>1
<1>11. QED
  BY <1>2, <1>4, <1>8, <1>9, <1>10, SoundNext

(***************************************************************************)
(* analyze: the chain resolves the conflict with the reasons met, and the  *)
(* clause it leads to holds exactly the literals found and those still     *)
(* open.                                                                   *)
(***************************************************************************)
LEMMA NoteAll ==
  ASSUME session \in Session, Assigned, decisionLevel # 0, NEW w, Noted(w),
         NEW lits \in SUBSET Literal, \A x \in lits : IsFalse(x)
  PROVE  LET u == Note(w, lits) IN
         /\ u.lits \cup OpenIn(u.seen) = w.lits \cup OpenIn(w.seen) \cup Deep(lits)
         /\ u.steps = w.steps /\ u.uip = w.uip /\ Noted(u)
<1> DEFINE new     == {x \in Deep(lits) : Var(x) \notin w.seen}
           current == {x \in new : level[Var(x)] = decisionLevel}
           u       == Note(w, lits)
<1>1. u = [w EXCEPT !.seen = @ \cup VarsOf(new), !.path = @ + Cardinality(current),
                    !.lits = @ \cup (new \ current)]
  BY DEF Note
<1>2. w = [seen |-> w.seen, path |-> w.path, lits |-> w.lits, steps |-> w.steps, uip |-> w.uip]
  BY DEF Noted
<1>3. new \subseteq Deep(lits)
  OBVIOUS
<1>4. /\ Noted(u) /\ OpenIn(w.seen) \subseteq OpenIn(u.seen)
      /\ OpenIn(u.seen) \subseteq OpenIn(w.seen) \cup lits
      /\ w.lits \subseteq u.lits /\ Deep(lits) \subseteq u.lits \cup OpenIn(u.seen)
      /\ u.uip = w.uip
  BY NoteFacts
<1> HIDE DEF new, current, u
<1>5. u.steps = w.steps /\ u.lits = w.lits \cup (new \ current)
  BY <1>1, <1>2
<1>6. \A x \in OpenIn(u.seen) : x \in lits => x \in Deep(lits)
  BY DEF OpenIn, Deep, AtTop
<1>7. QED
  BY <1>3, <1>4, <1>5, <1>6 DEF u

\* One literal is resolved with its reason, whose false units are removed.
LEMMA ReasonResolves ==
  ASSUME IInv, Ids, LogSound, session.logged,
         NEW p \in DOMAIN trail, reason[Var(trail[p])] # 0,
         NEW c \in SUBSET Literal, \A x \in c : IsFalse(x) /\ ~AtTop(Var(x)), -trail[p] \in c
  PROVE  Resolves(proof, c, ReasonSteps(Var(trail[p])),
                  (c \ {-trail[p]}) \cup Deep(Antecedents(reason[Var(trail[p])])))
<1> DEFINE x == trail[p]
           a == reason[Var(x)]
           A == Antecedents(a)
           r == (c \ {-x}) \cup A
<1>1. session \in Session /\ Assigned
  BY StateFacts
<1>2. /\ -x \in Literal /\ IsFalse(-x) /\ Var(-x) = Var(x) /\ -(-x) = x /\ x \in Literal
      /\ \A n \in DOMAIN trail : -trail[n] = -x => n = p
  BY <1>1, PositionFacts, TrailFacts
<1>3. /\ a \in DOMAIN db /\ A \subseteq Literal
      /\ \A y \in A : IsFalse(y) /\ \E m \in 1 .. p - 1 : trail[m] = -y
  BY ReasonFacts
<1>4. db[a].first = x
  BY <1>1, TrailFacts DEF Reasoned, Implies
<1>5. db[a].first \in db[a].lits
  BY <1>3, ClauseFacts DEF Clause
<1>6. A = db[a].lits \ {x}
  BY <1>4 DEF Antecedents
<1> HIDE DEF x, a, A
<1>7. -x \notin A
  <2>1. SUFFICES ASSUME -x \in A PROVE FALSE
    OBVIOUS
  <2>2. PICK m \in 1 .. p - 1 : trail[m] = -(-x)
    BY <1>3, <2>1
  <2>3. m \in DOMAIN trail /\ m # p
    BY <1>1, TrailFacts
  <2>4. -trail[m] = -x
    BY <1>2, <2>2
  <2>5. QED
    BY <1>2, <2>3, <2>4
<1>8. x \notin c
  <2>1. SUFFICES ASSUME x \in c PROVE FALSE
    OBVIOUS
  <2>2. IsFalse(x)
    BY <2>1
  <2>3. x = -x
    BY <1>1, <1>2, <2>2, FalseUnique
  <2>4. QED
    BY <1>1, <1>2, <2>3, LiteralFacts
<1>9. r \in SUBSET Literal /\ \A y \in r : IsFalse(y)
  BY <1>3
<1>10. ~IsTautology(r)
  <2> HIDE DEF r
  <2>1. QED
    BY <1>9, FalseClause
<1>11. Resolvent(c, db[a].lits, Var(x)) = r /\ IsPivot(c, db[a].lits, Var(x)) /\ Var(x) \in Nat
  <2>1. /\ Resolvent(c, db[a].lits, Var(-x)) = (c \cup db[a].lits) \ {-x, x}
        /\ IsPivot(c, db[a].lits, Var(-x)) /\ Var(-x) \in Nat
    BY <1>1, <1>2, <1>4, <1>5, OnLiteral DEF x
  <2>2. (c \cup db[a].lits) \ {-x, x} = r
    BY <1>4, <1>5, <1>6, <1>7, <1>8
  <2>3. QED
    BY <1>2, <2>1, <2>2
<1>12. db[a].id \in 1 .. LastId(proof) /\ ClauseOf(proof, db[a].id) = db[a].lits /\ IsLog(proof)
  BY <1>3, SoundFacts
<1> HIDE DEF r
<1>13. Resolves(proof, c, <<[id |-> db[a].id, pivot |-> Var(x)]>>, r)
  BY <1>10, <1>11, <1>12, ResolvesOne
<1>14. Resolves(proof, r, UnitSteps(A), r \ {y \in A : AtTop(Var(y))})
  <2>1. A \subseteq r
    BY DEF r
  <2>2. Grows(proof, proof)
    BY <1>12, LogFacts
  <2>3. QED
    BY <1>3, <1>10, <2>1, <2>2, UnitsResolve
<1>15. r \ {y \in A : AtTop(Var(y))} = (c \ {-x}) \cup Deep(A)
  BY DEF r, Deep
<1>16. ReasonSteps(Var(x)) = <<[id |-> db[a].id, pivot |-> Var(x)]>> \o UnitSteps(A)
  BY DEF ReasonSteps, a, A
<1>17. Resolves(proof, c, ReasonSteps(Var(x)), (c \ {-x}) \cup Deep(A))
  <2> DEFINE first == <<[id |-> db[a].id, pivot |-> Var(x)]>>
             next  == UnitSteps(A)
             e     == r \ {y \in A : AtTop(Var(y))}
  <2>1. Resolves(proof, c, first, r) /\ Resolves(proof, r, next, e)
    BY <1>13, <1>14
  <2>2. ReasonSteps(Var(x)) = first \o next
    BY <1>16
  <2>3. e = (c \ {-x}) \cup Deep(A)
    BY <1>15
  <2> HIDE DEF first, next, e
  <2>4. Resolves(proof, c, first \o next, e)
    BY <2>1, ResolvesThen
  <2>5. QED
    BY <2>2, <2>3, <2>4
<1>18. QED
  BY <1>17 DEF x, a, A

Derives(w) ==
  /\ w.uip = 0 => Resolves(proof, db[confl].lits, w.steps, w.lits \cup OpenIn(w.seen))
  /\ w.uip # 0 => Resolves(proof, db[confl].lits, w.steps, w.lits \cup {w.uip})

LEMMA DerivesStart ==
  ASSUME IInv, Conflicting, Ids, LogSound, session.logged
  PROVE  Derives(WalkStart)
<1> DEFINE c == db[confl].lits
           s == [seen |-> {}, path |-> 0, lits |-> {}, steps |-> UnitSteps(c), uip |-> 0]
           w == WalkStart
<1>1. /\ session \in Session /\ Assigned /\ decisionLevel # 0
      /\ c \in SUBSET Literal /\ \A x \in c : IsFalse(x)
  BY ConflictFacts
<1>2. w = Note(s, c)
  BY DEF WalkStart
<1>3. Noted(s) /\ OpenIn(s.seen) = {}
  <2>1. OpenIn({}) = {}
    BY DEF OpenIn
  <2>2. QED
    BY <2>1, FS_EmptySet DEF Noted
<1>4. s.lits = {} /\ s.uip = 0 /\ s.steps = UnitSteps(c)
  OBVIOUS
<1> HIDE DEF s, c, w
<1>5. w.lits \cup OpenIn(w.seen) = Deep(c) /\ w.steps = UnitSteps(c) /\ w.uip = 0
  BY <1>1, <1>2, <1>3, <1>4, NoteAll
<1>6. Resolves(proof, c, UnitSteps(c), c \ {x \in c : AtTop(Var(x))})
  <2>1. Grows(proof, proof)
    BY SoundFacts, LogFacts
  <2>2. ~IsTautology(c)
    BY <1>1, FalseClause
  <2>3. QED
    BY <1>1, <2>1, <2>2, UnitsResolve
<1>7. c \ {x \in c : AtTop(Var(x))} = Deep(c)
  BY DEF Deep
<1>8. QED
  BY <1>5, <1>6, <1>7 DEF Derives, c, w

LEMMA DerivesStep ==
  ASSUME IInv, Conflicting, Ids, LogSound, session.logged,
         NEW n \in 1 .. Len(trail), NEW w, Found(w, n - 1), Derives(w)
  PROVE  Derives(Back(w, trail[Len(trail) + 1 - n]))
<1> DEFINE p == Len(trail) + 1 - n
           x == trail[p]
           b == Passed(w, x)
           u == Back(w, x)
<1>1. session \in Session /\ Assigned /\ decisionLevel # 0
  BY ConflictFacts
<1>2. Noted(w)
  BY DEF Found
<1> HIDE DEF p
<1>3. CASE w.uip # 0 \/ Var(x) \notin w.seen
  <2>1. u = w
    BY <1>3 DEF Back
  <2>2. QED
    BY <2>1 DEF p
<1>4. CASE w.uip = 0 /\ Var(x) \in w.seen
  <2>1. p = Len(trail) + 1 - n
    BY DEF p
  <2>2. /\ b.lits = w.lits /\ b.steps = w.steps /\ b.uip = 0
        /\ b = [seen |-> b.seen, path |-> b.path, lits |-> b.lits, steps |-> b.steps, uip |-> b.uip]
        /\ p \in DOMAIN trail /\ -x \in OpenIn(w.seen) /\ OpenIn(b.seen) = OpenIn(w.seen) \ {-x}
        /\ b.path = Cardinality(OpenIn(b.seen)) /\ IsFiniteSet(OpenIn(b.seen))
        /\ Noted(b)
        /\ b.path # 0 => reason[Var(x)] # 0
    <3> HIDE DEF b, x
    <3>1. \A q : q = Len(trail) + 1 - n /\ Var(trail[q]) \in w.seen =>
            LET y == trail[q]
                d == Passed(w, y)
            IN  /\ d.lits = w.lits /\ d.steps = w.steps /\ d.uip = 0
                /\ d = [seen |-> d.seen, path |-> d.path, lits |-> d.lits, steps |-> d.steps, uip |-> d.uip]
                /\ q \in DOMAIN trail /\ -y \in OpenIn(w.seen) /\ OpenIn(d.seen) = OpenIn(w.seen) \ {-y}
                /\ d.path = Cardinality(OpenIn(d.seen)) /\ IsFiniteSet(OpenIn(d.seen))
                /\ Noted(d)
                /\ d.path # 0 => reason[Var(y)] # 0
      BY <1>4, StepFacts
    <3>2. QED
      BY <1>4, <2>1, <3>1 DEF x, b
  <2>3. CASE b.path = 0
    <3>1. u = [b EXCEPT !.uip = -x]
      BY <1>4, <2>3 DEF Back, Passed
    <3> HIDE DEF u, b, x
    <3>2. u.lits = b.lits /\ u.steps = b.steps /\ u.uip = -x
      BY <2>2, <3>1
    <3>3. OpenIn(b.seen) = {}
      BY <2>2, <2>3, FS_EmptySet
    <3>4. OpenIn(w.seen) = {-x}
      BY <2>2, <3>3
    <3>5. -x \in Literal
      BY <2>2 DEF OpenIn
    <3>6. -x # 0
      BY <1>1, <3>5, LiteralFacts
    <3>7. Derives(u)
      BY <1>4, <2>2, <3>2, <3>4, <3>6 DEF Derives
    <3>8. QED
      BY <3>7 DEF u, x, p
  <2>4. CASE b.path # 0
    <3> DEFINE lits  == Antecedents(reason[Var(x)])
               steps == w.steps \o ReasonSteps(Var(x))
               d     == [b EXCEPT !.steps = steps]
               c     == w.lits \cup OpenIn(w.seen)
    <3>1. u = Note(d, lits)
      BY <1>4, <2>2, <2>4 DEF Back, Passed
    <3>2. /\ d.seen = b.seen /\ d.path = b.path /\ d.lits = b.lits /\ d.uip = b.uip /\ d.steps = steps
          /\ d = [seen |-> d.seen, path |-> d.path, lits |-> d.lits, steps |-> d.steps, uip |-> d.uip]
      <4> HIDE DEF steps, b
      <4>1. QED
        BY <2>2
    <3> HIDE DEF d, steps, b, u
    <3>3. Noted(d)
      BY <2>2, <3>2 DEF Noted
    <3>4. lits \in SUBSET Literal /\ \A y \in lits : IsFalse(y)
      BY <2>2, <2>4, ReasonFacts
    <3> HIDE DEF lits
    <3>5. u.lits \cup OpenIn(u.seen) = d.lits \cup OpenIn(d.seen) \cup Deep(lits) /\ u.steps = d.steps
          /\ u.uip = d.uip
      BY <1>1, <3>1, <3>3, <3>4, NoteAll
    <3>6. /\ c \in SUBSET Literal /\ \A y \in c : IsFalse(y) /\ ~AtTop(Var(y))
          /\ -x \in c
      BY <1>1, <1>2, <2>2 DEF Noted, Below, OpenIn, AtTop
    <3>7. -x \notin w.lits
      BY <1>2, <2>2 DEF Noted, Below, OpenIn
    <3>8. u.lits \cup OpenIn(u.seen) = (c \ {-x}) \cup Deep(lits)
      BY <2>2, <3>2, <3>5, <3>7
    <3> HIDE DEF c
    <3>9. Resolves(proof, c, ReasonSteps(Var(x)), (c \ {-x}) \cup Deep(lits))
      BY <2>2, <2>4, <3>6, ReasonResolves DEF lits
    <3>10. Resolves(proof, db[confl].lits, w.steps, c)
      BY <1>4 DEF Derives, c
    <3>11. Resolves(proof, db[confl].lits, u.steps, u.lits \cup OpenIn(u.seen))
      <4> DEFINE next == ReasonSteps(Var(x))
                 e    == (c \ {-x}) \cup Deep(lits)
                 k    == db[confl].lits
      <4>1. u.steps = w.steps \o next /\ u.lits \cup OpenIn(u.seen) = e
        BY <3>2, <3>5, <3>8 DEF steps
      <4>2. Resolves(proof, k, w.steps, c) /\ Resolves(proof, c, next, e)
        BY <3>9, <3>10
      <4> HIDE DEF next, e, k, x
      <4>3. Resolves(proof, k, w.steps \o next, e)
        BY <4>2, ResolvesThen
      <4>4. Resolves(proof, k, u.steps, u.lits \cup OpenIn(u.seen))
        BY <4>1, <4>3
      <4>5. QED
        BY <4>4 DEF k
    <3>12. u.uip = 0
      BY <2>2, <3>2, <3>5
    <3>13. Derives(u)
      BY <3>11, <3>12 DEF Derives
    <3>14. QED
      BY <3>13 DEF u, x, p
  <2>5. QED
    BY <2>3, <2>4
<1>5. QED
  BY <1>3, <1>4

\* The chain so far leads to the unique implication point and the literals found.
LEMMA DerivesUIP ==
  ASSUME IInv, Conflicting, Ids, LogSound, session.logged
  PROVE  Resolves(proof, db[confl].lits, FirstUIP.steps, FirstUIP.lits \cup {FirstUIP.uip})
<1> DEFINE w == Walk
           T == {n \in 0 .. Len(trail) : ~(Found(w[n], n) /\ Derives(w[n]))}
<1>1. session \in Session /\ Assigned /\ Len(trail) \in Nat
  BY ConflictFacts, TrailFacts
<1>2. /\ w[0] = WalkStart
      /\ \A n \in 1 .. Len(trail) : w[n] = Back(w[n - 1], trail[Len(trail) + 1 - n])
  BY <1>1, WalkFacts
<1> HIDE DEF w
<1>3. T = {}
  <2>1. SUFFICES ASSUME T # {} PROVE FALSE
    OBVIOUS
  <2>2. PICK n \in T : \A m \in T : n <= m
    <3>1. T \in SUBSET Nat
      OBVIOUS
    <3> HIDE DEF T
    <3>2. QED
      BY <2>1, <3>1, LeastMember
  <2>3. n \in 0 .. Len(trail) /\ ~(Found(w[n], n) /\ Derives(w[n]))
    BY <2>2
  <2> HIDE DEF T
  <2>4. CASE n = 0
    <3>1. Found(WalkStart, 0) /\ Derives(WalkStart)
      BY FoundStart, DerivesStart
    <3>2. QED
      BY <1>2, <2>3, <2>4, <3>1
  <2>5. CASE n # 0
    <3>1. n \in 1 .. Len(trail) /\ n - 1 \in 0 .. Len(trail) /\ n - 1 < n
      BY <1>1, <2>3, <2>5
    <3>2. Found(w[n - 1], n - 1) /\ Derives(w[n - 1])
      BY <2>2, <3>1 DEF T
    <3>3. w[n] = Back(w[n - 1], trail[Len(trail) + 1 - n])
      BY <1>2, <3>1
    <3>4. Found(w[n], n)
      BY <3>1, <3>2, <3>3, FoundStep
    <3>5. Derives(w[n])
      BY <3>1, <3>2, <3>3, DerivesStep
    <3>6. QED
      BY <2>3, <3>4, <3>5
  <2>6. QED
    BY <2>4, <2>5
<1>4. Derives(FirstUIP)
  <2>1. Len(trail) \in 0 .. Len(trail)
    BY <1>1
  <2>2. Derives(w[Len(trail)])
    BY <1>3, <2>1
  <2>3. QED
    BY <2>2 DEF FirstUIP, w
<1>5. FirstUIP.uip \in Literal
  BY FirstUIPFacts
<1>6. FirstUIP.uip # 0
  BY <1>1, <1>5, LiteralFacts
<1>7. QED
  BY <1>4, <1>6 DEF Derives

(***************************************************************************)
(* analyze_toclear: the steps that remove the literals found that follow   *)
(* from the others.                                                        *)
(***************************************************************************)
LEMMA RemovalFacts ==
  ASSUME Len(trail) \in Nat, NEW lits, NEW removed
  PROVE  /\ Removal(lits, removed)[0] = [vs |-> VarsOf(removed), steps |-> <<>>]
         /\ \A n \in 1 .. Len(trail) :
              Removal(lits, removed)[n]
                = Clear(lits, Removal(lits, removed)[n - 1], trail[Len(trail) + 1 - n])
<1> DEFINE start == [vs |-> VarsOf(removed), steps |-> <<>>]
           F(w, n) == IF n = 0 THEN start ELSE Clear(lits, w[n - 1], trail[Len(trail) + 1 - n])
           P(m) == \E w : w = [n \in 0 .. m |-> F(w, n)]
           T == {m \in 0 .. Len(trail) : ~P(m)}
<1>1. T = {}
  <2>1. SUFFICES ASSUME T # {} PROVE FALSE
    OBVIOUS
  <2> HIDE DEF P
  <2>2. T \in SUBSET Nat
    OBVIOUS
  <2>3. PICK m \in T : \A k \in T : m <= k
    <3> HIDE DEF T
    <3>1. QED
      BY <2>1, <2>2, LeastMember
  <2>4. m \in 0 .. Len(trail) /\ ~P(m)
    OBVIOUS
  <2>5. CASE m = 0
    <3> DEFINE w == [n \in 0 .. 0 |-> start]
    <3>1. w = [n \in 0 .. 0 |-> F(w, n)]
      <4>1. \A n \in 0 .. 0 : F(w, n) = start
        OBVIOUS
      <4> HIDE DEF F
      <4>2. QED
        BY <4>1
    <3> HIDE DEF w, F
    <3>2. QED
      BY <2>4, <2>5, <3>1 DEF P
  <2>6. CASE m # 0
    <3>1. m - 1 \in 0 .. Len(trail) /\ m - 1 \notin T
      BY <2>2, <2>3, <2>4, <2>6
    <3>2. P(m - 1)
      BY <3>1
    <3>3. PICK w : w = [n \in 0 .. m - 1 |-> F(w, n)]
      BY <3>2 DEF P
    <3> DEFINE u == [n \in 0 .. m |-> F(w, n)]
    <3>4. \A n \in 1 .. m : u[n - 1] = w[n - 1]
      <4> HIDE DEF F
      <4>1. \A n \in 1 .. m : n - 1 \in 0 .. m - 1 /\ n - 1 \in 0 .. m
        BY <2>4
      <4>2. QED
        BY <3>3, <4>1
    <3> HIDE DEF u
    <3>5. \A n \in 0 .. m : F(u, n) = F(w, n)
      <4>1. SUFFICES ASSUME NEW n \in 0 .. m PROVE F(u, n) = F(w, n)
        OBVIOUS
      <4>2. CASE n = 0
        BY <4>2
      <4>3. CASE n # 0
        <5>1. n \in 1 .. m
          BY <2>4, <4>3
        <5>2. u[n - 1] = w[n - 1]
          BY <3>4, <5>1
        <5>3. QED
          BY <4>3, <5>2
      <4>4. QED
        BY <4>2, <4>3
    <3> HIDE DEF F
    <3>6. u = [n \in 0 .. m |-> F(u, n)]
      BY <3>5 DEF u
    <3>7. QED
      BY <2>4, <3>6 DEF P
  <2>7. QED
    BY <2>5, <2>6
<1>2. \E w : w = [n \in 0 .. Len(trail) |-> F(w, n)]
  <2>1. Len(trail) \in 0 .. Len(trail)
    OBVIOUS
  <2>2. P(Len(trail))
    <3> HIDE DEF P
    <3>1. QED
      BY <1>1, <2>1
  <2>3. QED
    BY <2>2
<1> DEFINE R(w) == w = [n \in 0 .. Len(trail) |-> F(w, n)]
<1>3. R(CHOOSE w : R(w))
  <2> HIDE DEF F
  <2>1. \E w : R(w)
    BY <1>2
  <2> HIDE DEF R
  <2>2. QED
    BY <2>1
<1>4. Removal(lits, removed) = [n \in 0 .. Len(trail) |-> F(Removal(lits, removed), n)]
  BY <1>3 DEF Removal
<1>5. Removal(lits, removed)[0] = start
  <2>1. 0 \in 0 .. Len(trail)
    OBVIOUS
  <2> DEFINE w == Removal(lits, removed)
  <2>2. w[0] = F(w, 0)
    <3> HIDE DEF F, w
    <3>1. w = [n \in 0 .. Len(trail) |-> F(w, n)]
      BY <1>4 DEF w
    <3>2. QED
      BY <2>1, <3>1
  <2>3. QED
    BY <2>2
<1>6. ASSUME NEW n \in 1 .. Len(trail)
      PROVE  Removal(lits, removed)[n]
               = Clear(lits, Removal(lits, removed)[n - 1], trail[Len(trail) + 1 - n])
  <2> DEFINE w == Removal(lits, removed)
  <2>1. w[n] = F(w, n)
    <3> HIDE DEF F, w
    <3>1. w = [k \in 0 .. Len(trail) |-> F(w, k)]
      BY <1>4 DEF w
    <3>2. QED
      BY <3>1
  <2> HIDE DEF w
  <2>2. w[n] = Clear(lits, w[n - 1], trail[Len(trail) + 1 - n])
    BY <2>1
  <2>3. QED
    BY <2>2 DEF w
<1>7. QED
  BY <1>5, <1>6

\* The clause with the literals removed replaced by those that they follow from,
\* among the first m of the trail.
Replaced(uip, lits, vs, m) == {uip} \cup Rest(lits) \cup {-trail[k] : k \in {k \in 1 .. m : Var(trail[k]) \in vs}}

LEMMA RemovalStep ==
  ASSUME IInv, Ids, LogSound, session.logged, decisionLevel # 0,
         NEW lits, lits \subseteq Below,
         NEW uip \in Literal, IsFalse(uip), level[Var(uip)] = decisionLevel,
         NEW p \in DOMAIN trail, NEW r, r = [vs |-> r.vs, steps |-> r.steps],
         r.vs \subseteq Implied(lits), VarsOf(lits \ Rest(lits)) \subseteq r.vs,
         NEW c, Resolves(proof, c, r.steps, Replaced(uip, lits, r.vs, p))
  PROVE  LET u == Clear(lits, r, trail[p]) IN
         /\ u = [vs |-> u.vs, steps |-> u.steps]
         /\ u.vs \subseteq Implied(lits) /\ VarsOf(lits \ Rest(lits)) \subseteq u.vs
         /\ Resolves(proof, c, u.steps, Replaced(uip, lits, u.vs, p - 1))
<1> DEFINE x    == trail[p]
           A    == Deep(Antecedents(reason[Var(x)]))
           u    == Clear(lits, r, x)
           full == Replaced(uip, lits, r.vs, p)
<1>1. session \in Session /\ Assigned /\ Len(trail) \in Nat /\ DOMAIN trail = 1 .. Len(trail)
  BY StateFacts, TrailFacts
<1>2. /\ -x \in Literal /\ IsFalse(-x) /\ Var(-x) = Var(x)
      /\ \A k \in DOMAIN trail : -trail[k] = -x => k = p
  BY <1>1, PositionFacts
<1>3. /\ p \in Nat /\ \A k \in 1 .. p : k \in DOMAIN trail /\ (k = p \/ k \in 1 .. p - 1)
      /\ p \in 1 .. p /\ \A k \in 1 .. p - 1 : k \in 1 .. p /\ k # p
  BY <1>1
<1>4. CASE Var(x) \notin r.vs
  <2>1. u = r
    BY <1>4 DEF Clear
  <2>2. Replaced(uip, lits, r.vs, p) = Replaced(uip, lits, r.vs, p - 1)
    <3>1. {k \in 1 .. p : Var(trail[k]) \in r.vs} = {k \in 1 .. p - 1 : Var(trail[k]) \in r.vs}
      BY <1>3, <1>4
    <3>2. QED
      BY <3>1 DEF Replaced
  <2> HIDE DEF u
  <2>3. QED
    BY <2>1, <2>2 DEF u
<1>5. CASE Var(x) \in r.vs
  <2>1. u = [vs |-> r.vs \cup (VarsOf(A) \ VarsOf(lits)), steps |-> r.steps \o ReasonSteps(Var(x))]
    BY <1>5 DEF Clear
  <2>2. /\ reason[Var(x)] # 0
        /\ level[Var(x)] \in {level[Var(y)] : y \in lits}
        /\ VarsOf(A) \subseteq VarsOf(lits) \cup Implied(lits)
    <3>1. Follows(lits, Implied(lits), Var(x))
      BY <1>1, <1>5, ImpliedFacts
    <3>2. QED
      BY <3>1 DEF Follows
  <2>3. \A y \in A : y \in Literal /\ IsFalse(y) /\ \E m \in 1 .. p - 1 : y = -trail[m] /\ Var(trail[m]) = Var(y)
    <3>1. SUFFICES ASSUME NEW y \in A PROVE y \in Literal /\ IsFalse(y) /\ \E m \in 1 .. p - 1 : y = -trail[m] /\ Var(trail[m]) = Var(y)
      OBVIOUS
    <3>2. y \in Antecedents(reason[Var(x)])
      BY DEF Deep
    <3>3. y \in Literal /\ IsFalse(y) /\ \E m \in 1 .. p - 1 : trail[m] = -y
      BY <2>2, <3>2, ReasonFacts
    <3>4. PICK m \in 1 .. p - 1 : trail[m] = -y
      BY <3>3
    <3>5. y = -trail[m] /\ Var(trail[m]) = Var(y)
      BY <1>1, <1>3, <3>3, <3>4, FalseFacts
    <3>6. QED
      BY <3>3, <3>4, <3>5
  <2> HIDE DEF x, A, u
  <2>4. /\ u = [vs |-> u.vs, steps |-> u.steps]
        /\ u.vs = r.vs \cup (VarsOf(A) \ VarsOf(lits)) /\ u.steps = r.steps \o ReasonSteps(Var(x))
    BY <2>1
  <2>5. u.vs \subseteq Implied(lits)
    BY <2>2, <2>4
  <2>6. \A y \in lits : y \in Literal /\ IsFalse(y) /\ level[Var(y)] # 0 /\ level[Var(y)] # decisionLevel
    BY DEF Below
  <2>7. ASSUME NEW y \in full PROVE y \in Literal /\ IsFalse(y) /\ ~AtTop(Var(y))
    <3>1. CASE y = uip
      BY <3>1 DEF AtTop
    <3>2. CASE y \in Rest(lits)
      BY <2>6, <3>2 DEF Rest, AtTop
    <3>3. CASE y \in {-trail[k] : k \in {k \in 1 .. p : Var(trail[k]) \in r.vs}}
      <4>1. PICK k \in 1 .. p : y = -trail[k] /\ Var(trail[k]) \in r.vs
        BY <3>3
      <4>2. y \in Literal /\ IsFalse(y) /\ Var(y) = Var(trail[k])
        BY <1>1, <1>3, <4>1, PositionFacts
      <4>3. level[Var(y)] \in {level[Var(z)] : z \in lits}
        <5>1. Follows(lits, Implied(lits), Var(trail[k]))
          BY <1>1, <4>1, ImpliedFacts
        <5>2. QED
          BY <4>2, <5>1 DEF Follows
      <4>4. QED
        BY <2>6, <4>2, <4>3 DEF AtTop
    <3>4. QED
      BY <3>1, <3>2, <3>3 DEF Replaced
  <2>8. -x \in full
    BY <1>3, <1>5 DEF Replaced, x
  <2>9. -x # uip
    BY <1>2, <2>2, <2>6
  <2>10. -x \notin Rest(lits)
    BY <1>2, <1>5 DEF Rest
  <2>11. (full \ {-x}) \cup A = Replaced(uip, lits, u.vs, p - 1)
    <3>1. ASSUME NEW y \in full, y # -x PROVE y \in Replaced(uip, lits, u.vs, p - 1)
      <4>1. CASE y \in {uip} \cup Rest(lits)
        BY <4>1 DEF Replaced
      <4>2. CASE y \in {-trail[k] : k \in {k \in 1 .. p : Var(trail[k]) \in r.vs}}
        <5>1. PICK k \in 1 .. p : y = -trail[k] /\ Var(trail[k]) \in r.vs
          BY <4>2
        <5>2. k \in 1 .. p - 1 /\ Var(trail[k]) \in u.vs
          BY <1>3, <2>4, <3>1, <5>1 DEF x
        <5>3. QED
          BY <5>1, <5>2 DEF Replaced
      <4>3. QED
        BY <3>1, <4>1, <4>2 DEF Replaced
    <3>2. ASSUME NEW y \in A PROVE y \in Replaced(uip, lits, u.vs, p - 1)
      <4>1. y \in Literal /\ IsFalse(y)
        BY <2>3
      <4>2. PICK m \in 1 .. p - 1 : y = -trail[m] /\ Var(trail[m]) = Var(y)
        BY <2>3
      <4>3. CASE Var(y) \in u.vs
        BY <4>2, <4>3 DEF Replaced
      <4>4. CASE Var(y) \notin u.vs
        <5>1. PICK z \in lits : Var(z) = Var(y)
          BY <2>4, <4>4 DEF VarsOf
        <5>2. z = y
          BY <1>1, <2>6, <4>1, <5>1, FalseUnique
        <5>3. y \in Rest(lits)
          <6>1. SUFFICES ASSUME y \in lits \ Rest(lits) PROVE FALSE
            BY <5>1, <5>2
          <6>2. Var(y) \in r.vs
            BY <6>1 DEF VarsOf
          <6>3. QED
            BY <2>4, <4>4, <6>2
        <5>4. QED
          BY <5>3 DEF Replaced
      <4>5. QED
        BY <4>3, <4>4
    <3>3. ASSUME NEW y \in Replaced(uip, lits, u.vs, p - 1) PROVE y \in (full \ {-x}) \cup A
      <4>1. CASE y \in {uip} \cup Rest(lits)
        BY <2>9, <2>10, <4>1 DEF Replaced
      <4>2. CASE y \in {-trail[k] : k \in {k \in 1 .. p - 1 : Var(trail[k]) \in u.vs}}
        <5>1. PICK k \in 1 .. p - 1 : y = -trail[k] /\ Var(trail[k]) \in u.vs
          BY <4>2
        <5>2. k \in 1 .. p /\ k \in DOMAIN trail /\ k # p /\ y # -x
          BY <1>2, <1>3, <5>1
        <5>3. CASE Var(trail[k]) \in r.vs
          BY <5>1, <5>2, <5>3 DEF Replaced
        <5>4. CASE Var(trail[k]) \in VarsOf(A)
          <6>1. PICK z \in A : Var(z) = Var(trail[k])
            BY <5>4 DEF VarsOf
          <6>2. z \in Literal /\ IsFalse(z)
            BY <2>3
          <6>3. y \in Literal /\ IsFalse(y) /\ Var(y) = Var(trail[k])
            BY <1>1, <5>1, <5>2, PositionFacts
          <6>4. z = y
            BY <1>1, <6>1, <6>2, <6>3, FalseUnique
          <6>5. QED
            BY <6>4
        <5>5. QED
          BY <2>4, <5>1, <5>3, <5>4
      <4>3. QED
        BY <3>3, <4>1, <4>2 DEF Replaced
    <3>4. QED
      BY <3>1, <3>2, <3>3
  <2>12. Resolves(proof, full, ReasonSteps(Var(x)), (full \ {-x}) \cup A)
    <3>1. full \in SUBSET Literal /\ \A y \in full : IsFalse(y) /\ ~AtTop(Var(y))
      BY <2>7
    <3> HIDE DEF full
    <3>2. Resolves(proof, full, ReasonSteps(Var(trail[p])),
                   (full \ {-trail[p]}) \cup Deep(Antecedents(reason[Var(trail[p])])))
      BY <2>2, <2>8, <3>1, ReasonResolves DEF x
    <3>3. QED
      BY <3>2 DEF x, A
  <2>13. Resolves(proof, c, u.steps, Replaced(uip, lits, u.vs, p - 1))
    <3> DEFINE next == ReasonSteps(Var(x))
               e    == Replaced(uip, lits, u.vs, p - 1)
    <3>1. Resolves(proof, c, r.steps, full) /\ Resolves(proof, full, next, e)
      BY <2>11, <2>12
    <3>2. u.steps = r.steps \o next
      BY <2>4
    <3> HIDE DEF full, next, e
    <3>3. Resolves(proof, c, r.steps \o next, e)
      BY <3>1, ResolvesThen
    <3>4. Resolves(proof, c, u.steps, e)
      BY <3>2, <3>3
    <3>5. QED
      BY <3>4 DEF e
  <2>14. VarsOf(lits \ Rest(lits)) \subseteq u.vs
    BY <2>4
  <2>15. QED
    BY <2>4, <2>5, <2>13, <2>14 DEF u, x
<1>6. QED
  BY <1>4, <1>5

LEMMA RemovalResolves ==
  ASSUME IInv, Ids, LogSound, session.logged, decisionLevel # 0,
         NEW lits, lits \subseteq Below,
         NEW uip \in Literal, IsFalse(uip), level[Var(uip)] = decisionLevel
  PROVE  Resolves(proof, lits \cup {uip}, RemovalSteps(lits, lits \ Rest(lits)), {uip} \cup Rest(lits))
<1> DEFINE gone  == lits \ Rest(lits)
           r     == Removal(lits, gone)
           c     == lits \cup {uip}
           Q(n)  == /\ r[n] = [vs |-> r[n].vs, steps |-> r[n].steps]
                    /\ r[n].vs \subseteq Implied(lits) /\ VarsOf(gone) \subseteq r[n].vs
                    /\ Resolves(proof, c, r[n].steps, Replaced(uip, lits, r[n].vs, Len(trail) - n))
           T     == {n \in 0 .. Len(trail) : ~Q(n)}
<1>1. session \in Session /\ Assigned /\ Len(trail) \in Nat /\ DOMAIN trail = 1 .. Len(trail)
  BY StateFacts, TrailFacts
<1>2. /\ r[0] = [vs |-> VarsOf(gone), steps |-> <<>>]
      /\ \A n \in 1 .. Len(trail) : r[n] = Clear(lits, r[n - 1], trail[Len(trail) + 1 - n])
  BY <1>1, RemovalFacts
<1> HIDE DEF r
<1>3. Q(0)
  <2>1. r[0].vs = VarsOf(gone) /\ r[0].steps = <<>> /\ r[0] = [vs |-> r[0].vs, steps |-> r[0].steps]
    BY <1>2
  <2>2. VarsOf(gone) \subseteq Implied(lits)
    BY DEF VarsOf, Rest
  <2>3. Replaced(uip, lits, VarsOf(gone), Len(trail)) = c
    <3>1. ASSUME NEW y \in gone
          PROVE  \E k \in 1 .. Len(trail) : y = -trail[k] /\ Var(trail[k]) \in VarsOf(gone)
      <4>1. y \in Literal /\ IsFalse(y)
        BY DEF Below
      <4>2. PICK k \in DOMAIN trail : trail[k] = -y
        BY <1>1, <4>1, FalseFacts
      <4>3. y = -trail[k] /\ Var(trail[k]) = Var(y)
        BY <1>1, <4>1, <4>2, FalseFacts
      <4>4. QED
        BY <1>1, <4>3 DEF VarsOf
    <3>2. ASSUME NEW k \in 1 .. Len(trail), Var(trail[k]) \in VarsOf(gone) PROVE -trail[k] \in gone
      <4>1. PICK y \in gone : Var(y) = Var(trail[k])
        BY <3>2 DEF VarsOf
      <4>2. y \in Literal /\ IsFalse(y)
        BY DEF Below
      <4>3. -trail[k] \in Literal /\ IsFalse(-trail[k]) /\ Var(-trail[k]) = Var(trail[k])
        BY <1>1, PositionFacts
      <4>4. y = -trail[k]
        BY <1>1, <4>1, <4>2, <4>3, FalseUnique
      <4>5. QED
        BY <4>4
    <3>3. Rest(lits) \subseteq lits
      BY DEF Rest
    <3>4. {-trail[k] : k \in {k \in 1 .. Len(trail) : Var(trail[k]) \in VarsOf(gone)}} = gone
      <4> HIDE DEF gone
      <4>1. QED
        BY <3>1, <3>2
    <3>5. QED
      BY <3>3, <3>4 DEF Replaced
  <2>4. Len(trail) - 0 = Len(trail)
    BY <1>1
  <2>5. Resolves(proof, c, <<>>, c)
    BY ResolvesNone
  <2> HIDE DEF c, gone
  <2>6. QED
    BY <2>1, <2>2, <2>3, <2>4, <2>5
<1> HIDE DEF c
<1>4. ASSUME NEW n \in 1 .. Len(trail), Q(n - 1) PROVE Q(n)
  <2> DEFINE p == Len(trail) + 1 - n
             w == r[n - 1]
  <2>1. p \in DOMAIN trail /\ Len(trail) - (n - 1) = p /\ Len(trail) - n = p - 1
    BY <1>1
  <2>2. /\ w = [vs |-> w.vs, steps |-> w.steps]
        /\ w.vs \subseteq Implied(lits) /\ VarsOf(lits \ Rest(lits)) \subseteq w.vs
        /\ Resolves(proof, c, w.steps, Replaced(uip, lits, w.vs, p))
    BY <1>4, <2>1
  <2>3. r[n] = Clear(lits, w, trail[p])
    BY <1>2
  <2> HIDE DEF p, w
  <2>4. LET u == Clear(lits, w, trail[p]) IN
        /\ u = [vs |-> u.vs, steps |-> u.steps]
        /\ u.vs \subseteq Implied(lits) /\ VarsOf(lits \ Rest(lits)) \subseteq u.vs
        /\ Resolves(proof, c, u.steps, Replaced(uip, lits, u.vs, p - 1))
    BY <2>1, <2>2, RemovalStep
  <2>5. QED
    BY <2>1, <2>3, <2>4
<1> HIDE DEF Q
<1>5. T = {}
  <2>1. SUFFICES ASSUME T # {} PROVE FALSE
    OBVIOUS
  <2>2. PICK n \in T : \A m \in T : n <= m
    <3>1. T \in SUBSET Nat
      OBVIOUS
    <3> HIDE DEF T
    <3>2. QED
      BY <2>1, <3>1, LeastMember
  <2>3. n \in 0 .. Len(trail) /\ ~Q(n)
    BY <2>2
  <2>4. n # 0
    BY <1>3, <2>3
  <2>5. n \in 1 .. Len(trail) /\ n - 1 \in 0 .. Len(trail) /\ n - 1 < n
    BY <1>1, <2>3, <2>4
  <2>6. Q(n - 1)
    BY <2>2, <2>5
  <2>7. QED
    BY <1>4, <2>3, <2>5, <2>6
<1>6. Q(Len(trail))
  BY <1>1, <1>5
<1>7. Replaced(uip, lits, r[Len(trail)].vs, Len(trail) - Len(trail)) = {uip} \cup Rest(lits)
  <2>1. {k \in 1 .. Len(trail) - Len(trail) : Var(trail[k]) \in r[Len(trail)].vs} = {}
    BY <1>1
  <2>2. QED
    BY <2>1 DEF Replaced
<1>8. Resolves(proof, c, r[Len(trail)].steps, {uip} \cup Rest(lits))
  BY <1>6, <1>7 DEF Q
<1>9. QED
  BY <1>8 DEF RemovalSteps, r, c, gone

\* The chain that analyze logs derives the clause that is learnt.
LEMMA AnalyzeResolves ==
  ASSUME IInv, Conflicting, Ids, LogSound, session.logged
  PROVE  \E steps : /\ analyze.log = endChain(proof, db[confl].id, steps)
                    /\ Resolves(proof, db[confl].lits, steps, {analyze.uip} \cup analyze.rest)
<1> DEFINE lits  == FirstUIP.lits
           uip   == FirstUIP.uip
           one   == FirstUIP.steps
           two   == RemovalSteps(lits, lits \ Rest(lits))
           c     == db[confl].lits
           d     == lits \cup {uip}
           e     == {uip} \cup Rest(lits)
<1>1. /\ uip \in Literal /\ IsFalse(uip) /\ level[Var(uip)] = decisionLevel /\ lits \subseteq Below
  BY FirstUIPFacts
<1>2. decisionLevel # 0
  BY ConflictFacts
<1>3. {x \in lits : Var(x) \in Implied(lits)} = lits \ Rest(lits) /\ Rest(lits) \subseteq lits
      /\ lits \ {x \in lits : Var(x) \in Implied(lits)} = Rest(lits)
  BY DEF Rest
<1>4. analyze.uip = uip /\ analyze.rest = Rest(lits)
  BY <1>3 DEF analyze
<1>5. analyze.log = endChain(proof, db[confl].id, one \o two)
  BY <1>3 DEF analyze, Log
<1>6. Resolves(proof, c, one, d)
  BY DerivesUIP
<1>7. Resolves(proof, d, two, e)
  <2> HIDE DEF lits, uip
  <2>1. QED
    BY <1>1, <1>2, RemovalResolves
<1> HIDE DEF lits, uip, one, two, d, c
<1>8. Resolves(proof, c, one \o two, e)
  BY <1>6, <1>7, ResolvesThen
<1>9. QED
  BY <1>4, <1>5, <1>8 DEF c

\* Both watched literals of the conflict are of the last level: it was not false before.
LEMMA TwoHigh ==
  ASSUME IInv, WInv, Learn, NEW w, w \in {db[confl].first, db[confl].second}
  PROVE  w \in db[confl].lits /\ level[Var(w)] = decisionLevel
<1> DEFINE a == confl
<1>1. Conflicting /\ pc = "search" /\ a # 0
  BY DEF Learn, At, Conflicting
<1>2. /\ session \in Session /\ Assigned /\ decisionLevel # 0 /\ decisionLevel > root_level
      /\ a \in DOMAIN db /\ \A x \in db[a].lits : IsFalse(x)
  BY <1>1, ConflictFacts DEF Conflicting
<1>3. ok
  BY <1>1, <1>2 DEF WInv, Bottom
<1>4. PICK u : {w, u} = {db[a].first, db[a].second}
  OBVIOUS
<1>5. w \in db[a].lits /\ u \in db[a].lits /\ w \in Literal /\ u \in Literal
  <2>1. /\ db[a].first \in db[a].lits /\ db[a].second \in db[a].lits
        /\ db[a].first \in Literal /\ db[a].second \in Literal
    BY <1>2, ClauseFacts
  <2>2. QED
    BY <1>4, <2>1
<1>6. IsFalse(w) /\ IsFalse(u)
  BY <1>2, <1>5
<1>7. PICK m \in DOMAIN trail : trail[m] = -w
  BY <1>2, <1>5, <1>6, FalseFacts
<1>8. ~Done(a, m)
  <2>1. SUFFICES ASSUME Done(a, m) PROVE FALSE
    OBVIOUS
  <2>2. \E n \in DOMAIN trail : trail[n] = u
    <3>1. \A b \in DOMAIN db : \A x, y \in Literal : \A k \in DOMAIN trail :
            {x, y} = {db[b].first, db[b].second} /\ trail[k] = -x /\ Done(b, k) =>
              \E n \in DOMAIN trail : trail[n] = y
      BY <1>3 DEF WInv, Guarded
    <3> HIDE DEF a
    <3>2. QED
      BY <1>2, <1>4, <1>5, <1>7, <2>1, <3>1, Zenon
  <2>3. PICK k \in DOMAIN trail : trail[k] = -u
    BY <1>2, <1>5, <1>6, FalseFacts
  <2>4. -u \in Literal /\ -u # u /\ Var(-u) = Var(u)
    BY <1>2, <1>5, LiteralFacts
  <2>5. QED
    BY <1>2, <2>2, <2>3, <2>4, TrailFacts
<1>9. \A k \in DOMAIN trail_lim : trail_lim[k] < m
  <2>1. SUFFICES ASSUME NEW k \in DOMAIN trail_lim PROVE trail_lim[k] < m
    OBVIOUS
  <2>2. ~(m <= trail_lim[k])
    BY <1>1, <1>8 DEF Done
  <2>3. trail_lim[k] \in Nat /\ m \in Nat
    BY StateFacts
  <2>4. QED
    BY <2>2, <2>3
<1>10. LevelOf(m) = decisionLevel
  BY <1>2, <1>9, FreshLevel
<1>11. Var(trail[m]) = Var(w)
  BY <1>2, <1>5, <1>7, FalseFacts
<1>12. QED
  BY <1>5, <1>10, <1>11 DEF LevelOf

\* So the chain is not empty, and the last clause of the log is the one learnt.
LEMMA LearnLogged ==
  ASSUME IInv, WInv, Ids, LogSound, Learn, session.logged
  PROVE  LET id == LastId(analyze.log) IN
         /\ RightLog(analyze.log, Formula)
         /\ id # 0 /\ ClauseOf(analyze.log, id) = {analyze.uip} \cup analyze.rest
<1> DEFINE c == db[confl].lits
           d == {analyze.uip} \cup analyze.rest
<1>1. Conflicting
  BY DEF Learn, Conflicting
<1>2. PICK steps : analyze.log = endChain(proof, db[confl].id, steps) /\ Resolves(proof, c, steps, d)
  BY <1>1, AnalyzeResolves
<1>3. /\ confl \in DOMAIN db /\ session \in Session /\ Assigned
  BY <1>1, ConflictFacts
<1>4. /\ RightLog(proof, Formula) /\ IsLog(proof)
      /\ db[confl].id \in 1 .. LastId(proof) /\ ClauseOf(proof, db[confl].id) = c
  BY <1>3, SoundFacts
<1>5. steps # <<>>
  <2>1. SUFFICES ASSUME steps = <<>> PROVE FALSE
    OBVIOUS
  <2>2. c = d
    <3> HIDE DEF c, d
    <3>1. QED
      BY <1>2, <2>1 DEF Resolves
  <2>3. db[confl].first # db[confl].second
    BY <1>3 DEF WInv, Lists
  <2>4. \A w \in {db[confl].first, db[confl].second} : w \in c /\ level[Var(w)] = decisionLevel
    BY TwoHigh
  <2>5. analyze.rest \subseteq Below
    BY <1>1, AnalyzeFacts
  <2>6. \A x \in analyze.rest : level[Var(x)] # decisionLevel
    BY <2>5 DEF Below
  <2>7. db[confl].first = analyze.uip /\ db[confl].second = analyze.uip
    BY <2>2, <2>4, <2>6
  <2>8. QED
    BY <2>3, <2>7
<1> DEFINE log == analyze.log
           start == db[confl].id
<1> HIDE DEF c, d, log, start
<1>6. /\ RightLog(endChain(proof, start, steps), Formula)
      /\ ChainId(proof, start, steps) \in 1 .. LastId(endChain(proof, start, steps))
      /\ ClauseOf(endChain(proof, start, steps), ChainId(proof, start, steps)) = d
      /\ ChainId(proof, start, steps) = LastId(endChain(proof, start, steps))
  BY <1>2, <1>4, <1>5, RightAdded DEF start
<1>7. endChain(proof, start, steps) = log
  BY <1>2 DEF log, start
<1>8. RightLog(log, Formula) /\ LastId(log) # 0 /\ ClauseOf(log, LastId(log)) = d
  BY <1>6, <1>7
<1>9. QED
  BY <1>8 DEF log, d

LEMMA LearnSound == IInv /\ WInv /\ Ids /\ LogSound /\ Learn => LogSound'
<1> SUFFICES ASSUME IInv, WInv, Ids, LogSound, Learn PROVE LogSound'
  OBVIOUS
<1> DEFINE x    == analyze.uip
           rest == analyze.rest
           lits == {x} \cup rest
           K    == Max({analyze.back, root_level})
           id   == IF session.logged THEN LastId(analyze.log) ELSE 0
<1>1. /\ session' = session /\ given' = given /\ proof' = analyze.log
      /\ trail' = Append(Cut(K), x)
      /\ level' = [level EXCEPT ![Var(x)] = IF rest = {} THEN 0 ELSE K]
  BY DEF Learn
<1>2. IF rest = {} THEN db' = db /\ (session.logged => unit_id' = [unit_id EXCEPT ![Var(x)] = id])
      ELSE /\ unit_id' = unit_id
           /\ \E y \in SecondWatch(rest) :
                LET c == Clause(TRUE, x, y, lits, id) IN
                db' = [b \in DOMAIN db \cup {Address} |-> IF b = Address THEN c ELSE db[b]]
  <2>1. IF rest = {} THEN UNCHANGED <<db, watches>>
        ELSE \E y \in SecondWatch(rest) :
               LET c == Clause(TRUE, x, y, lits, id) IN
               /\ db' = [b \in DOMAIN db \cup {Address} |-> IF b = Address THEN c ELSE db[b]]
               /\ watches' = Watching(c, Address)
    BY DEF Learn
  <2>2. IF rest = {}
        THEN unit_id' = IF session.logged THEN [unit_id EXCEPT ![Var(x)] = id] ELSE unit_id
        ELSE UNCHANGED unit_id
    BY DEF Learn
  <2> HIDE DEF id, x, rest, lits
  <2>3. QED
    BY <2>1, <2>2
<1>3. Grows(proof, proof')
  BY NextGrows DEF Next, Ids
<1>4. ASSUME session.logged
      PROVE RightLog(proof', Formula') /\ id # 0 /\ ClauseOf(proof', id) = lits
  <2>1. Formula' = Formula
    BY <1>1 DEF Formula
  <2>2. id = LastId(analyze.log)
    BY <1>4
  <2>3. QED
    BY <1>1, <1>4, <2>1, <2>2, LearnLogged
<1>5. /\ Conflicting /\ K = Max({analyze.back, root_level})
  BY DEF Learn, Conflicting
<1> HIDE DEF K
<1>6. /\ x \in Literal /\ level[Var(x)] = decisionLevel
      /\ K \in 0 .. decisionLevel /\ K < decisionLevel
      /\ \A y \in rest : level[Var(y)] \in 1 .. K
  BY <1>5, AnalyzeFacts
<1>7. session \in Session /\ Assigned
  BY StateFacts
<1> HIDE DEF id, x, rest
<1>8. ASSUME session.logged, NEW a \in DOMAIN db'
      PROVE  \/ a \in DOMAIN db /\ db'[a].id = db[a].id /\ db'[a].lits = db[a].lits
             \/ ClauseOf(proof', db'[a].id) = db'[a].lits
  <2>1. CASE rest = {}
    BY <1>2, <1>8, <2>1
  <2>2. CASE rest # {}
    <3> HIDE DEF lits
    <3>1. PICK y : db' = [b \in DOMAIN db \cup {Address} |->
                            IF b = Address THEN Clause(TRUE, x, y, lits, id) ELSE db[b]]
      BY <1>2, <2>2
    <3>2. Clause(TRUE, x, y, lits, id).id = id /\ Clause(TRUE, x, y, lits, id).lits = lits
      BY DEF Clause
    <3>3. QED
      BY <1>4, <1>8, <3>1, <3>2
  <2>3. QED
    BY <2>1, <2>2
<1>9. ASSUME session.logged, NEW n \in DOMAIN trail', level'[Var(trail'[n])] = 0
      PROVE  \/ /\ unit_id'[Var(trail'[n])] = unit_id[Var(trail'[n])]
                /\ \E m \in DOMAIN trail : trail[m] = trail'[n] /\ LevelOf(m) = 0
             \/ /\ unit_id'[Var(trail'[n])] # 0
                /\ ClauseOf(proof', unit_id'[Var(trail'[n])]) = {trail'[n]}
  <2>1. /\ Cut(K) \in Seq(Literal) /\ Len(Cut(K)) \in Nat /\ DOMAIN Cut(K) = 1 .. Len(Cut(K))
        /\ \A i \in DOMAIN Cut(K) : i \in DOMAIN trail /\ Cut(K)[i] = trail[i]
    BY <1>6, <1>7, StateFacts, TrailFacts, CutFacts
  <2>2. Var(x) \in Variable
    BY <1>6, <1>7, LiteralFacts
  <2>3. unit_id \in [Variable -> 0 .. LastId(proof)] /\ level \in [Variable -> Int]
    BY <1>7, TrailFacts DEF Ids
  <2>4. CASE n \in DOMAIN Cut(K)
    <3>1. n \in DOMAIN trail /\ trail'[n] = trail[n]
      BY <1>1, <2>1, <2>4
    <3>2. LevelOf(n) \in 0 .. K
      BY <1>6, <1>7, <2>4, <3>1, TrailFacts, CutLevels
    <3>3. Var(trail[n]) # Var(x)
      BY <1>6, <3>2, StateFacts DEF LevelOf
    <3>4. Var(trail[n]) \in Variable
      BY <1>7, <3>1, TrailFacts
    <3>5. level'[Var(trail[n])] = level[Var(trail[n])]
      BY <1>1, <2>3, <3>3, <3>4
    <3>6. unit_id'[Var(trail[n])] = unit_id[Var(trail[n])]
      BY <1>2, <1>9, <2>3, <3>3, <3>4
    <3>7. QED
      BY <1>9, <3>1, <3>5, <3>6 DEF LevelOf
  <2>5. CASE n = Len(Cut(K)) + 1
    <3>1. trail'[n] = x
      BY <1>1, <2>1, <2>5
    <3>2. level'[Var(x)] = IF rest = {} THEN 0 ELSE K
      BY <1>1, <2>2, <2>3
    <3>3. rest = {}
      <4>1. SUFFICES ASSUME rest # {} PROVE FALSE
        OBVIOUS
      <4>2. K = 0
        BY <1>9, <3>1, <3>2, <4>1
      <4>3. QED
        BY <1>6, <4>1, <4>2
    <3>4. unit_id'[Var(x)] = id
      BY <1>2, <1>9, <2>2, <2>3, <3>3
    <3>5. lits = {x}
      BY <3>3
    <3> HIDE DEF lits
    <3>6. QED
      BY <1>4, <1>9, <3>1, <3>4, <3>5
  <2>6. n \in DOMAIN Cut(K) \/ n = Len(Cut(K)) + 1
    BY <1>1, <2>1
  <2>7. QED
    BY <2>4, <2>5, <2>6
<1>10. QED
  BY <1>1, <1>3, <1>4, <1>8, <1>9, SoundNext

\* The other steps log nothing, and keep or forget what they find.
LEMMA SameTrailSound ==
  ASSUME IInv, Ids, LogSound, UNCHANGED <<session, given, proof, unit_id, trail, level>>,
         \A a \in DOMAIN db' : a \in DOMAIN db /\ db'[a].id = db[a].id /\ db'[a].lits = db[a].lits
  PROVE  LogSound'
<1>1. \A n \in DOMAIN trail' : level'[Var(trail'[n])] = 0 =>
        \E m \in DOMAIN trail : trail[m] = trail'[n] /\ LevelOf(m) = 0
  BY DEF LevelOf
<1>2. QED
  BY <1>1, SoundKept

LEMMA VisitSound == IInv /\ Ids /\ LogSound /\ (VisitSatisfied \/ VisitNewWatch) => LogSound'
<1> SUFFICES ASSUME IInv, Ids, LogSound, VisitSatisfied \/ VisitNewWatch PROVE LogSound'
  OBVIOUS
<1>1. PICK a \in todo : \E c : /\ db' = [db EXCEPT ![a] = c]
                              /\ c.id = Turned(a).id /\ c.lits = Turned(a).lits
  <2>1. CASE VisitSatisfied
    BY <2>1 DEF VisitSatisfied
  <2>2. CASE VisitNewWatch
    <3>1. PICK a \in todo : \E x : db' = [db EXCEPT ![a] = [Turned(a) EXCEPT !.second = x]]
      BY <2>2 DEF VisitNewWatch
    <3>1a. PICK x : db' = [db EXCEPT ![a] = [Turned(a) EXCEPT !.second = x]]
      BY <3>1
    <3>2. [Turned(a) EXCEPT !.second = x].id = Turned(a).id /\ [Turned(a) EXCEPT !.second = x].lits = Turned(a).lits
      <4>1. Turned(a) = Clause(db[a].learnt, Turned(a).first, Turned(a).second, db[a].lits, db[a].id)
        BY VisitFacts
      <4>2. QED
        BY <4>1 DEF Clause
    <3>3. QED
      BY <3>1a, <3>2
  <2>3. QED
    BY <2>1, <2>2
<1>2. PICK c : db' = [db EXCEPT ![a] = c] /\ c.id = Turned(a).id /\ c.lits = Turned(a).lits
  BY <1>1
<1>3. a \in DOMAIN db /\ Turned(a).id = db[a].id /\ Turned(a).lits = db[a].lits
  BY TurnedId, VisitFacts DEF Clause
<1>4. \A b \in DOMAIN db' : b \in DOMAIN db /\ db'[b].id = db[b].id /\ db'[b].lits = db[b].lits
  BY <1>2, <1>3
<1>5. UNCHANGED <<session, given, proof, unit_id, trail, level>>
  BY DEF VisitSatisfied, VisitNewWatch, assignment
<1>6. QED
  BY <1>4, <1>5, SameTrailSound

LEMMA DroppedSound ==
  IInv /\ Ids /\ LogSound /\ (SimplifyDB \/ SearchSimplify \/ ReduceDB) => LogSound'
<1> SUFFICES ASSUME IInv, Ids, LogSound, SimplifyDB \/ SearchSimplify \/ ReduceDB PROVE LogSound'
  OBVIOUS
<1>1. UNCHANGED <<session, given, proof, unit_id, trail, level>>
  BY DEF SimplifyDB, SearchSimplify, ReduceDB, Simplify, assignment, memory
<1>2. \A a \in DOMAIN db' : a \in DOMAIN db /\ db'[a] = db[a]
  <2>1. CASE ReduceDB
    <3>1. PICK gone, lists : Drop(gone, lists)
      BY <2>1 DEF ReduceDB
    <3>2. QED
      BY <3>1 DEF Drop
  <2>2. CASE SimplifyDB \/ SearchSimplify
    <3>1. PICK next : Simplify(next)
      BY <2>2 DEF SimplifyDB, SearchSimplify
    <3>2. QED
      BY <1>1, <3>1, Simplified
  <2>3. QED
    BY <2>1, <2>2
<1>3. QED
  BY <1>1, <1>2, SameTrailSound

\* Going back, and a new decision or assumption.
LEMMA CancelledSound ==
  ASSUME IInv, Ids, LogSound, UNCHANGED <<session, given, proof, unit_id, db>>,
         NEW l \in 0 .. decisionLevel, cancelUntil(l)
  PROVE  LogSound'
<1>1. session \in Session /\ Assigned
  BY StateFacts
<1>2. /\ Cut(l) \in Seq(Literal) /\ \A n \in DOMAIN Cut(l) : n \in DOMAIN trail /\ Cut(l)[n] = trail[n]
  BY <1>1, TrailFacts, CutFacts
<1>3. trail' = Cut(l) /\ level' = level
  BY DEF cancelUntil
<1>4. \A n \in DOMAIN trail' : level'[Var(trail'[n])] = 0 =>
        \E m \in DOMAIN trail : trail[m] = trail'[n] /\ LevelOf(m) = 0
  BY <1>2, <1>3 DEF LevelOf
<1>5. QED
  BY <1>4, SoundKept

LEMMA OpenedSound ==
  ASSUME IInv, Ids, LogSound, UNCHANGED <<session, given, proof, unit_id, db>>,
         NEW x \in Literal, ~IsTrue(x), ~IsFalse(x), trail' = Append(trail, x),
         level' = [level EXCEPT ![Var(x)] = decisionLevel + 1]
  PROVE  LogSound'
<1>1. session \in Session /\ Assigned
  BY StateFacts
<1>2. /\ \A m \in DOMAIN trail : Var(trail[m]) # Var(x) /\ Var(trail[m]) \in Variable
      /\ trail \in Seq(Literal) /\ DOMAIN trail = 1 .. Len(trail) /\ Len(trail) \in Nat
      /\ level \in [Variable -> Int] /\ Var(x) \in Variable /\ decisionLevel \in Nat
  BY <1>1, FalseFacts, TrailFacts, LiteralFacts DEF Divided
<1>3. ASSUME NEW n \in DOMAIN trail', level'[Var(trail'[n])] = 0
      PROVE  \E m \in DOMAIN trail : trail[m] = trail'[n] /\ LevelOf(m) = 0
  <2>1. n \in DOMAIN trail \/ n = Len(trail) + 1
    BY <1>2
  <2>2. n # Len(trail) + 1
    <3>1. SUFFICES ASSUME n = Len(trail) + 1 PROVE FALSE
      OBVIOUS
    <3>2. trail'[n] = x
      BY <1>2, <3>1
    <3>3. level'[Var(x)] = decisionLevel + 1
      BY <1>2
    <3>4. QED
      BY <1>2, <1>3, <3>2, <3>3
  <2>3. n \in DOMAIN trail /\ trail'[n] = trail[n]
    BY <1>2, <2>1, <2>2
  <2>4. level'[Var(trail[n])] = level[Var(trail[n])]
    BY <1>2, <2>3
  <2>5. QED
    BY <1>3, <2>3, <2>4 DEF LevelOf
<1>4. QED
  BY <1>3, SoundKept

LEMMA AssumeSound == IInv /\ Ids /\ LogSound /\ Assume => LogSound'
<1> SUFFICES ASSUME IInv, Ids, LogSound, Assume PROVE LogSound'
  OBVIOUS
<1> DEFINE x == assumps[decisionLevel + 1]
<1>1. UNCHANGED <<session, given, proof, unit_id, db>> /\ At("assume") /\ decisionLevel < root_level /\ ~IsFalse(x)
  BY DEF Assume, memory
<1>2. x \in Literal
  <2>1. /\ session \in Session /\ Len(answers) + 1 \in DOMAIN session.queries /\ root_level = Len(assumps)
    BY <1>1 DEF At, IInv, Calls, InQuery
  <2>2. /\ Len(assumps) \in Nat /\ DOMAIN assumps = 1 .. Len(assumps)
        /\ \A i \in DOMAIN assumps : assumps[i] \in Literal
    BY <2>1, CallFacts DEF assumps
  <2>3. decisionLevel + 1 \in DOMAIN assumps
    BY <1>1, <2>1, <2>2, StateFacts
  <2>4. QED
    BY <2>2, <2>3
<1>3. CASE IsTrue(x)
  <2>1. UNCHANGED <<trail, level>>
    BY <1>3 DEF Assume
  <2>2. QED
    BY <1>1, <2>1, SameTrailSound
<1>4. CASE ~IsTrue(x)
  <2>1. trail' = Append(trail, x) /\ level' = [level EXCEPT ![Var(x)] = decisionLevel + 1]
    BY <1>4 DEF Assume
  <2> HIDE DEF x
  <2>2. QED
    BY <1>1, <1>2, <1>4, <2>1, OpenedSound
<1>5. QED
  BY <1>3, <1>4

LEMMA DecideSound == IInv /\ Ids /\ LogSound /\ Decide => LogSound'
<1> SUFFICES ASSUME IInv, Ids, LogSound, Decide PROVE LogSound'
  OBVIOUS
<1>1. PICK v \in Variable : /\ IsUndef(v) /\ trail' = Append(trail, -v)
                           /\ level' = [level EXCEPT ![v] = decisionLevel + 1]
  BY DEF Decide, Selectable
<1>2. UNCHANGED <<session, given, proof, unit_id, db>>
  BY DEF Decide, memory
<1>3. session \in Session
  BY StateFacts
<1>4. -v \in Literal /\ v \in Literal /\ Var(-v) = v /\ -(-v) = v
  BY <1>3, LiteralFacts
<1>5. ~IsTrue(-v) /\ ~IsFalse(-v)
  BY <1>1, <1>4 DEF IsUndef, IsTrue, IsFalse
<1> DEFINE x == -v
<1>6. x \in Literal /\ ~IsTrue(x) /\ ~IsFalse(x) /\ trail' = Append(trail, x)
      /\ level' = [level EXCEPT ![Var(x)] = decisionLevel + 1]
  BY <1>1, <1>4, <1>5
<1> HIDE DEF x
<1>7. QED
  BY <1>2, <1>6, OpenedSound

\* A log is kept in sessions without assumptions only: nothing is derived at the end.
LEMMA NothingLogged ==
  ASSUME IInv, AssumeFalse \/ AssumeConflict \/ SearchConflict
  PROVE  proof' = proof
<1>1. InQuery
  BY DEF AssumeFalse, AssumeConflict, SearchConflict, At, InQuery
<1>2. session.logged => root_level = 0
  BY <1>1, LoggedFacts
<1>3. CASE AssumeFalse
  <2>1. ~session.logged
    BY <1>2, <1>3, StateFacts DEF AssumeFalse
  <2>2. proof' = proof \/ \E start, steps : proof' = Log(proof, start, steps)
    BY <1>3 DEF AssumeFalse
  <2>3. QED
    BY <2>1, <2>2 DEF Log
<1>4. CASE AssumeConflict \/ SearchConflict
  <2>1. proof' = analyzeFinal(confl, db[confl].lits).log
    BY <1>4 DEF AssumeConflict, SearchConflict
  <2>2. analyzeFinal(confl, db[confl].lits).log = proof
    BY <1>2 DEF analyzeFinal, Log
  <2>3. QED
    BY <2>1, <2>2
<1>5. QED
  BY <1>3, <1>4

LEMMA AnsweredSound ==
  IInv /\ Ids /\ LogSound /\ (AssumeFalse \/ AssumeConflict \/ SearchConflict) => LogSound'
<1> SUFFICES ASSUME IInv, Ids, LogSound, AssumeFalse \/ AssumeConflict \/ SearchConflict PROVE LogSound'
  OBVIOUS
<1>1. UNCHANGED <<session, given, unit_id, db>> /\ cancelUntil(0) /\ InQuery
  BY DEF AssumeFalse, AssumeConflict, SearchConflict, At, InQuery
<1>2. proof' = proof
  BY NothingLogged
<1>3. 0 \in 0 .. decisionLevel
  BY StateFacts
<1>4. QED
  BY <1>1, <1>2, <1>3, CancelledSound

LEMMA QuietSound ==
  IInv /\ Ids /\ LogSound /\ (Solve \/ TakeNext \/ SimplifyConflict \/ StartSearch \/ UNCHANGED vars)
    => LogSound'
<1> SUFFICES ASSUME IInv, Ids, LogSound,
                    Solve \/ TakeNext \/ SimplifyConflict \/ StartSearch \/ UNCHANGED vars
             PROVE  LogSound'
  OBVIOUS
<1>1. UNCHANGED <<session, given, proof, unit_id, trail, level, db>>
  BY DEF Solve, TakeNext, SimplifyConflict, StartSearch, vars, memory, assignment
<1>2. QED
  BY <1>1, SameTrailSound

LEMMA NextSound == IInv /\ WInv /\ Ids /\ LogSound /\ [Next]_vars => LogSound'
<1> SUFFICES ASSUME IInv, WInv, Ids, LogSound, [Next]_vars PROVE LogSound'
  OBVIOUS
<1>1. CASE AddClause \/ VisitUnit \/ Learn
  BY <1>1, AddClauseSound, VisitUnitSound, LearnSound
<1>2. CASE Solve \/ TakeNext \/ SimplifyConflict \/ StartSearch \/ UNCHANGED vars
  BY <1>2, QuietSound
<1>3. CASE VisitSatisfied \/ VisitNewWatch
  BY <1>3, VisitSound
<1>4. CASE SimplifyDB \/ SearchSimplify \/ ReduceDB
  BY <1>4, DroppedSound
<1>5. CASE Assume
  BY <1>5, AssumeSound
<1>6. CASE Decide
  BY <1>6, DecideSound
<1>7. CASE AssumeFalse \/ AssumeConflict \/ SearchConflict
  BY <1>7, AnsweredSound
<1>8. CASE Restart \/ FindModel
  <2>1. UNCHANGED <<session, given, proof, unit_id, db>>
    BY <1>8 DEF Restart, FindModel, memory
  <2>2. PICK l \in {0, root_level} : cancelUntil(l) /\ (l = 0 \/ Restart)
    BY <1>8 DEF Restart, FindModel
  <2>3. l \in 0 .. decisionLevel
    <3>1. decisionLevel \in Nat /\ root_level \in Nat
      BY StateFacts
    <3>2. CASE l = 0
      BY <3>1, <3>2
    <3>3. CASE Restart
      <4>1. root_level <= decisionLevel
        BY <3>3 DEF IInv, Calls, Restart, Ready, At
      <4>2. QED
        BY <2>2, <3>1, <4>1
    <3>4. QED
      BY <2>2, <3>2, <3>3
  <2>4. QED
    BY <2>1, <2>2, <2>3, CancelledSound
<1>9. CASE Terminating
  BY <1>9, QuietSound DEF Terminating
<1>10. QED
  BY <1>1, <1>2, <1>3, <1>4, <1>5, <1>6, <1>7, <1>8, <1>9 DEF Next, Propagate

LEMMA InitSound == Init => LogSound
<1> SUFFICES ASSUME Init PROVE LogSound
  OBVIOUS
<1>1. proof = <<>> /\ db = <<>> /\ trail = <<>>
  BY DEF Init
<1>2. DOMAIN proof = {} /\ DOMAIN db = {} /\ ToSet(trail) = {}
  BY <1>1 DEF ToSet
<1>3. QED
  BY <1>2 DEF LogSound, RightLog

LEMMA SpecSound == Spec => [](IInv /\ WInv /\ RInv /\ AInv /\ TInv /\ LogSound)
<1> DEFINE J == IInv /\ WInv /\ RInv /\ AInv /\ TInv
<1>1. Spec => []J
  BY SpecTInv
<1>2. J /\ LogSound /\ [Next]_vars => LogSound'
  BY NextSound DEF TInv
<1>3. QED
  BY <1>1, <1>2, InitSound, PTL DEF Spec

(***************************************************************************)
(* Every chain of the log is right where it stands, and the ids kept with  *)
(* the clauses in memory and with the top-level facts are those of chains  *)
(* that derive exactly these: analyze with its removal of literals, the    *)
(* units of propagate, and the false literals dropped by newClause.  So a  *)
(* reader of the log (read_proof_classfyAB) may resolve along it blindly.  *)
(***************************************************************************)
THEOREM LogIsRight == Spec => []ProofSound
<1>1. IInv /\ Ids /\ LogSound => ProofSound
  BY LogSoundIsRight
<1>2. TInv => Ids
  BY DEF TInv
<1>3. QED
  BY <1>1, <1>2, SpecSound, PTL

-----------------------------------------------------------------------------
\* What a session with the log on is told of its clauses.
Refuted == answers # <<>> /\ Last(answers).result = "UNSAT"

(***************************************************************************)
(* A contradiction found at the top level is final: nothing is propagated, *)
(* learnt or logged any more, and with the log on the empty clause is the  *)
(* last one.  Nothing else makes a plain query fail.                       *)
(***************************************************************************)
Final ==
  /\ ~ok => /\ decisionLevel = 0 /\ (pc = "idle" \/ confl # 0)
            /\ session.logged => EndsEmpty(proof)
  /\ session.logged /\ Refuted => ~ok

LEMMA EmptyKept ==
  ASSUME proof' = proof, EndsEmpty(proof)
  PROVE  (EndsEmpty(proof))'
  BY DEF EndsEmpty, LastId, ClauseOf

LEMMA DepthKept ==
  ASSUME trail_lim' = trail_lim
  PROVE  decisionLevel' = decisionLevel
  BY DEF decisionLevel

\* Nothing is logged, nothing is contradicted and no query is answered.
LEMMA FinalKept ==
  ASSUME Final, ok => ok', UNCHANGED <<session, answers>>,
         ~ok => UNCHANGED <<ok, proof, trail_lim, confl>> /\ (pc' = pc \/ confl # 0)
  PROVE  Final'
<1>1. CASE ok
  BY <1>1 DEF Final, Refuted
<1>2. CASE ~ok
  <2>1. decisionLevel' = decisionLevel /\ (EndsEmpty(proof) => (EndsEmpty(proof))')
    BY <1>2, DepthKept, EmptyKept
  <2>2. Refuted' = Refuted
    BY DEF Refuted
  <2>3. QED
    BY <1>2, <2>1, <2>2 DEF Final
<1>3. QED
  BY <1>1, <1>2

\* While the solver is at work and has no conflict, nothing is contradicted.
LEMMA NotFinal ==
  ASSUME IInv, Final, pc # "idle", confl = 0
  PROVE  ok
  BY DEF Final

\* The steps that only search on.
LEMMA SearchesOn ==
  ASSUME IInv, Final,
         \/ TakeNext \/ VisitSatisfied \/ VisitNewWatch \/ SimplifyDB \/ Assume \/ StartSearch
         \/ Learn \/ Restart \/ SearchSimplify \/ ReduceDB \/ Decide
  PROVE  Final'
<1>1. session \in Session /\ Assigned /\ decisionLevel \in Nat /\ root_level \in Nat
  BY StateFacts
<1>2. ok
  <2>1. CASE TakeNext \/ VisitSatisfied \/ VisitNewWatch
    <3>1. Queue /\ Len(trail) \in Nat
      BY <1>1, TrailFacts DEF IInv
    <3>2. CASE TakeNext
      <4>1. pc # "idle" /\ qhead < Len(trail)
        BY <3>2 DEF TakeNext
      <4>2. confl # 0 => qhead = Len(trail)
        BY <3>1 DEF Queue
      <4>3. QED
        BY <3>1, <4>1, <4>2, NotFinal
    <3>3. CASE VisitSatisfied \/ VisitNewWatch
      <4>1. todo # {}
        BY <3>3 DEF VisitSatisfied, VisitNewWatch
      <4>2. pc # "idle" /\ confl = 0
        BY <3>1, <4>1 DEF Queue
      <4>3. QED
        BY <4>2, NotFinal
    <3>4. QED
      BY <2>1, <3>2, <3>3
  <2>2. CASE SimplifyDB \/ Assume \/ StartSearch \/ Restart \/ SearchSimplify
    <3>1. pc # "idle" /\ confl = 0
      BY <2>2 DEF SimplifyDB, Assume, StartSearch, Restart, SearchSimplify, Ready, At
    <3>2. QED
      BY <3>1, NotFinal
  <2>3. CASE ReduceDB \/ Decide
    <3>1. \/ pc \in {"simplified", "decide"}
          \/ pc # "idle" /\ confl = 0
      BY <2>3 DEF ReduceDB, Decide, Deciding, Tidy, Ready, At
    <3>2. pc # "idle" /\ confl = 0
      BY <3>1 DEF IInv, Queue
    <3>3. QED
      BY <3>2, NotFinal
  <2>4. CASE Learn
    <3>1. decisionLevel > root_level
      BY <2>4 DEF Learn
    <3>2. decisionLevel # 0
      BY <1>1, <3>1
    <3>3. QED
      BY <3>2 DEF Final
  <2>5. QED
    BY <2>1, <2>2, <2>3, <2>4
<1>3. UNCHANGED <<session, answers, ok>>
  <2>1. CASE TakeNext \/ Assume \/ StartSearch \/ Restart \/ Decide
    BY <2>1 DEF TakeNext, Assume, StartSearch, Restart, Decide, memory
  <2>2. CASE VisitSatisfied \/ VisitNewWatch
    BY <2>2 DEF VisitSatisfied, VisitNewWatch
  <2>3. CASE SimplifyDB \/ SearchSimplify
    <3>1. UNCHANGED <<session, answers>>
      BY <2>3 DEF SimplifyDB, SearchSimplify
    <3>2. PICK next \in {"assume", "simplified"} : Simplify(next)
      BY <2>3 DEF SimplifyDB, SearchSimplify
    <3>3. ok' = ok
      BY <3>2 DEF Simplify, memory
    <3>4. QED
      BY <3>1, <3>3
  <2>4. CASE ReduceDB
    BY <2>4 DEF ReduceDB
  <2>5. CASE Learn
    BY <2>5 DEF Learn
  <2>6. QED
    BY <2>1, <2>2, <2>3, <2>4, <2>5
<1>4. QED
  BY <1>2, <1>3, FinalKept

\* A clause that is false already.
LEMMA AddClauseFinal ==
  ASSUME IInv, Ids, LogSound, Final, AddClause
  PROVE  Final'
<1> DEFINE qs    == session.clauses[given + 1]
           kept  == {x \in qs : ~IsFalse(x)}
<1>1. UNCHANGED <<session, answers, confl, pc>> /\ pc = "idle"
  BY DEF AddClause, propagation
<1>2. CASE UNCHANGED <<memory, assignment>>
  <2>1. UNCHANGED <<ok, proof, trail_lim>>
    BY <1>2 DEF memory, assignment
  <2>2. QED
    BY <1>1, <2>1, FinalKept
<1>3. CASE ~UNCHANGED <<memory, assignment>>
  <2>1. ok /\ ok' = (kept # {}) /\ trail_lim' = trail_lim
    BY <1>3 DEF AddClause
  <2>2. CASE kept # {}
    BY <1>1, <2>1, <2>2, FinalKept
  <2>3. CASE kept = {}
    <3>1. ASSUME session.logged PROVE EndsEmpty(proof')
      <4>1. LastId(proof') \in 1 .. LastId(proof') /\ ClauseOf(proof', LastId(proof')) = kept
        BY <1>3, <3>1, AddClauseLogged
      <4> HIDE DEF kept
      <4>2. LastId(proof') # 0
        BY <4>1
      <4>3. QED
        BY <2>3, <4>1, <4>2 DEF EndsEmpty
    <3>2. decisionLevel' = 0
      BY <1>1, <2>1, DepthKept DEF IInv, Calls
    <3>3. Refuted' = Refuted
      BY <1>1 DEF Refuted
    <3> HIDE DEF kept
    <3>4. ~ok'
      BY <2>1, <2>3
    <3>5. EndsEmpty(proof') => (EndsEmpty(proof))'
      BY DEF EndsEmpty
    <3>6. QED
      BY <1>1, <3>1, <3>2, <3>3, <3>4, <3>5 DEF Final
  <2>4. QED
    BY <2>2, <2>3
<1>4. QED
  BY <1>2, <1>3

\* A clause that is false at the top level.
LEMMA VisitUnitFinal ==
  ASSUME IInv, WInv, Ids, LogSound, Final, VisitUnit
  PROVE  Final'
<1>1. PICK a \in todo :
        /\ ~IsTrue(Turned(a).first) /\ NewWatch(Turned(a)) = {}
        /\ UNCHANGED <<session, answers, trail_lim>>
        /\ decisionLevel = 0 /\ session.logged => proof' = UnitLog(Turned(a))
        /\ IF IsFalse(Turned(a).first) THEN ok' = (ok /\ decisionLevel # 0) /\ confl' = a
           ELSE UNCHANGED ok
  BY DEF VisitUnit
<1>2. Queue /\ Memory /\ todo # {} /\ a \in DOMAIN db
  BY VisitFacts DEF IInv
<1>3. pc # "idle" /\ confl = 0 /\ a # 0
  BY <1>2 DEF Queue, Memory
<1>4. ok
  BY <1>3, NotFinal
<1>5. CASE IsFalse(Turned(a).first) /\ decisionLevel = 0
  <2>1. ~ok' /\ confl' # 0 /\ decisionLevel' = 0
    BY <1>1, <1>3, <1>5, DepthKept
  <2>2. ASSUME session.logged PROVE (EndsEmpty(proof))'
    <3>1. EndsEmpty(UnitLog(Turned(a)))
      BY <1>1, <1>5, <2>2, UnitLogged
    <3>2. EndsEmpty(proof')
      BY <1>1, <1>5, <2>2, <3>1
    <3>3. QED
      BY <3>2 DEF EndsEmpty
  <2>3. QED
    BY <1>1, <2>1, <2>2 DEF Final
<1>6. CASE ~(IsFalse(Turned(a).first) /\ decisionLevel = 0)
  <2>1. ok'
    <3>1. CASE IsFalse(Turned(a).first)
      BY <1>1, <1>4, <1>6, <3>1
    <3>2. CASE ~IsFalse(Turned(a).first)
      BY <1>1, <1>4, <3>2
    <3>3. QED
      BY <3>1, <3>2
  <2>2. QED
    BY <1>1, <1>4, <2>1, FinalKept
<1>7. QED
  BY <1>5, <1>6

\* An answer that the last query got.
LEMMA LastAnswer ==
  ASSUME IInv, NEW answer, answers' = Append(answers, answer)
  PROVE  answers' # <<>> /\ Last(answers') = answer
  BY DEF IInv, Calls, Last

LEMMA SolveFinal ==
  ASSUME IInv, Final, Solve
  PROVE  Final'
<1>1. UNCHANGED <<session, ok, proof, trail_lim, confl>> /\ pc = "idle"
  BY DEF Solve, memory, assignment, propagation
<1>2. CASE ok
  <2>1. answers' = answers
    BY <1>2 DEF Solve
  <2>2. QED
    BY <1>1, <1>2, <2>1, FinalKept
<1>3. CASE ~ok
  <2>1. pc' = "idle"
    BY <1>3 DEF Solve, Answer
  <2>2. decisionLevel' = decisionLevel /\ (EndsEmpty(proof) => (EndsEmpty(proof))')
    BY <1>1, DepthKept, EmptyKept
  <2>3. QED
    BY <1>1, <1>3, <2>1, <2>2 DEF Final
<1>4. QED
  BY <1>2, <1>3

LEMMA FindModelFinal ==
  ASSUME IInv, Final, FindModel
  PROVE  Final'
<1>1. /\ Deciding /\ answers' = Append(answers, [result |-> "SAT", model |-> ToSet(trail)])
      /\ ok' = ok
  BY DEF FindModel, Answer, memory
<1>2. pc # "idle" /\ confl = 0
  BY <1>1 DEF IInv, Queue, Deciding, Tidy, Ready, At
<1>3. ok
  BY <1>2, NotFinal
<1>4. Last(answers').result = "SAT"
  BY <1>1, LastAnswer
<1>5. ~Refuted'
  BY <1>4 DEF Refuted
<1>6. QED
  BY <1>1, <1>3, <1>5 DEF Final

\* A conflict of simplifyDB, and one of search that no assumption is needed for.
LEMMA ConflictFinal ==
  ASSUME IInv, Final, SimplifyConflict \/ SearchConflict
  PROVE  Final'
<1>1. /\ confl # 0 /\ pc' = "idle" /\ session' = session
      /\ ok => SearchConflict \/ ~ok'
      /\ ~ok => ~ok'
  BY DEF SimplifyConflict, SearchConflict, Answer
<1>2. decisionLevel = 0 => ~ok
  BY <1>1 DEF IInv, Queue
<1>3. decisionLevel \in Nat /\ root_level \in Nat
  BY StateFacts
<1>4. proof' = proof /\ decisionLevel' = 0
  <2>1. CASE SimplifyConflict
    <3>1. proof' = proof /\ trail_lim' = trail_lim /\ pc = "simplifyDB"
      BY <2>1 DEF SimplifyConflict, At, assignment
    <3>2. QED
      BY <3>1, DepthKept DEF IInv, Calls
  <2>2. CASE SearchConflict
    <3>1. proof' = proof
      BY <2>2, NothingLogged
    <3>2. trail_lim' = SubSeq(trail_lim, 1, 0)
      BY <2>2 DEF SearchConflict, cancelUntil
    <3>3. Len(trail_lim') = 0
      BY <3>2
    <3>4. QED
      BY <3>1, <3>3 DEF decisionLevel
  <2>3. QED
    BY <2>1, <2>2
<1>5. EndsEmpty(proof) => (EndsEmpty(proof))'
  BY <1>4, EmptyKept
<1>6. session.logged \/ SimplifyConflict => ~ok
  <2>1. CASE SimplifyConflict
    BY <1>2, <2>1 DEF SimplifyConflict, At, IInv, Calls
  <2>2. CASE SearchConflict /\ session.logged
    <3>1. decisionLevel = root_level /\ InQuery
      BY <2>2 DEF SearchConflict, At, InQuery
    <3>2. root_level = 0
      BY <2>2, <3>1, LoggedFacts
    <3>3. QED
      BY <1>2, <3>1, <3>2
  <2>3. QED
    BY <2>1, <2>2
<1>7. QED
  BY <1>1, <1>4, <1>5, <1>6 DEF Final

\* With the log on no assumption is made.
LEMMA AssumptionFinal ==
  ASSUME IInv, AInv, Final, AssumeFalse \/ AssumeConflict
  PROVE  Final'
<1>1. /\ session' = session /\ ok' = ok /\ pc = "assume" /\ InQuery
      /\ AssumeFalse => confl = 0 /\ decisionLevel < root_level
      /\ ~AssumeFalse => AssumeConflict /\ confl # 0
  BY DEF AssumeFalse, AssumeConflict, At, InQuery
<1>2. decisionLevel \in Nat /\ root_level \in Nat /\ decisionLevel <= root_level
  BY <1>1, StateFacts DEF IInv, Calls
<1>3. ~AssumeFalse => decisionLevel # 0
  BY <1>1 DEF AInv, Assuming
<1>4. ok
  BY <1>1, <1>3 DEF Final
<1>5. ~session.logged
  <2>1. session.logged => root_level = 0
    BY <1>1, LoggedFacts
  <2>2. QED
    BY <1>1, <1>2, <1>3, <2>1
<1>6. QED
  BY <1>1, <1>4, <1>5 DEF Final

LEMMA NextFinal == IInv /\ WInv /\ AInv /\ Ids /\ LogSound /\ Final /\ [Next]_vars => Final'
<1> SUFFICES ASSUME IInv, WInv, AInv, Ids, LogSound, Final, [Next]_vars PROVE Final'
  OBVIOUS
<1>1. CASE AddClause \/ VisitUnit
  BY <1>1, AddClauseFinal, VisitUnitFinal
<1>2. CASE Solve \/ FindModel
  BY <1>2, SolveFinal, FindModelFinal
<1>3. CASE SimplifyConflict \/ SearchConflict
  BY <1>3, ConflictFinal
<1>4. CASE AssumeFalse \/ AssumeConflict
  BY <1>4, AssumptionFinal
<1>5. CASE \/ TakeNext \/ VisitSatisfied \/ VisitNewWatch \/ SimplifyDB \/ Assume \/ StartSearch
           \/ Learn \/ Restart \/ SearchSimplify \/ ReduceDB \/ Decide
  BY <1>5, SearchesOn
<1>6. CASE Terminating \/ UNCHANGED vars
  <2>1. UNCHANGED <<session, answers, ok, proof, trail_lim, confl, pc>>
    BY <1>6 DEF Terminating, vars, memory, assignment, propagation
  <2>2. QED
    BY <2>1, FinalKept
<1>7. QED
  BY <1>1, <1>2, <1>3, <1>4, <1>5, <1>6 DEF Next, Propagate

(***************************************************************************)
(* A session that is refuted with the log on ends with a refutation in the *)
(* log: every entry is a clause that was added or a right chain, and the   *)
(* last one is the empty clause, whether it was propagate that met it or   *)
(* newClause, and although nothing is logged where the answer is given     *)
(* (analyzeFinal returns at once with no assumption).                      *)
(***************************************************************************)
LogRefutes ==
  session.logged /\ Refuted => RightLog(proof, Formula) /\ EndsEmpty(proof)

THEOREM SpecLogRefutes == Spec => []LogRefutes
<1> DEFINE J == IInv /\ WInv /\ RInv /\ AInv /\ TInv /\ LogSound
<1>1. Spec => []J
  BY SpecSound
<1>2. J /\ Final /\ [Next]_vars => Final'
  BY NextFinal DEF TInv
<1>3. Init => Final
  BY DEF Init, Final, Refuted
<1>4. J /\ Final => LogRefutes
  BY SoundFacts DEF LogRefutes, Final, TInv
<1>5. QED
  BY <1>1, <1>2, <1>3, <1>4, PTL DEF Spec

-----------------------------------------------------------------------------
(***************************************************************************)
(* What checkProof keeps of a refutation refutes the same clauses.         *)
(***************************************************************************)
LEMMA SeqFacts ==
  ASSUME NEW s, IsSeq(s)
  PROVE  Len(s) \in Nat /\ DOMAIN s = 1 .. Len(s)
  BY DEF IsSeq

\* The entries before one, and those that it may cite.
LEMMA BeforeEntry ==
  ASSUME NEW log, IsSeq(log), NEW n \in DOMAIN log
  PROVE  /\ n \in Nat /\ n # 0
         /\ LastId(SubSeq(log, 1, n - 1)) = n - 1
         /\ \A id \in 1 .. n - 1 : /\ id \in DOMAIN log
                                   /\ ClauseOf(SubSeq(log, 1, n - 1), id) = log[id].clause
<1> DEFINE before == SubSeq(log, 1, n - 1)
           S      == {log[m] : m \in DOMAIN log}
<1>1. log \in Seq(S)
  BY DEF IsSeq
<1> HIDE DEF S
<1>2. Len(log) \in Nat /\ DOMAIN log = 1 .. Len(log) /\ n \in 1 .. Len(log)
  BY <1>1
<1>3. before = [i \in 1 .. n - 1 |-> log[i]]
  BY <1>2
<1>4. before \in Seq(S) /\ Len(before) = n - 1
  BY <1>1, <1>2
<1>5. \A id \in 1 .. n - 1 : before[id] = log[id] /\ id \in 1 .. Len(log)
  BY <1>2, <1>3
<1> HIDE DEF before
<1>6. QED
  BY <1>2, <1>4, <1>5 DEF LastId, ClauseOf, before

\* The loop of checkProof, step by step.
Popped(entries, r) ==
  LET pos     == Min(r.frontie)
      visited == r.visited \cup {pos}
  IN  IF r.frontie = {} THEN r
      ELSE [visited |-> visited,
            frontie |-> (r.frontie \ {pos}) \cup (Cited(entries[pos]) \ visited)]

LEMMA VisitedLoop ==
  ASSUME NEW entries, Len(entries) \in Nat
  PROVE  \E loop :
           /\ Visited(entries) = loop[Len(entries)].visited
           /\ loop[0] = [visited |-> {}, frontie |-> {Len(entries)}]
           /\ \A n \in 1 .. Len(entries) : loop[n] = Popped(entries, loop[n - 1])
<1> DEFINE N       == Len(entries)
           none    == [visited |-> {}, frontie |-> {N}]
           Upto(u, n) == u[0] = none /\ \A i \in 1 .. n : u[i] = Popped(entries, u[i - 1])
           T       == {n \in 0 .. N : ~\E u : Upto(u, n)}
           F(f, n) == IF n = 0 THEN none
                      ELSE LET r       == f[n - 1]
                               pos     == Min(r.frontie)
                               visited == r.visited \cup {pos}
                           IN  IF r.frontie = {} THEN r
                               ELSE [visited |-> visited,
                                     frontie |-> (r.frontie \ {pos}) \cup (Cited(entries[pos]) \ visited)]
           Is(f)   == f = [n \in 0 .. N |-> F(f, n)]
           loop    == CHOOSE f : Is(f)
<1> HIDE DEF none
<1>1. T = {}
  <2>1. SUFFICES ASSUME T # {} PROVE FALSE
    OBVIOUS
  <2>2. T \in SUBSET Nat
    OBVIOUS
  <2>3. PICK n \in T : \A m \in T : n <= m
    <3> HIDE DEF T
    <3>1. QED
      BY <2>1, <2>2, LeastMember
  <2>4. n \in 0 .. N /\ ~\E u : Upto(u, n)
    BY <2>3
  <2>5. n # 0
    <3>1. SUFFICES ASSUME n = 0 PROVE \E u : Upto(u, 0)
      BY <2>4
    <3> DEFINE u == [i \in 0 .. 0 |-> none]
    <3>2. u[0] = none /\ \A i \in 1 .. 0 : FALSE
      OBVIOUS
    <3> HIDE DEF u
    <3>3. QED
      BY <3>2
  <2>6. n \in 1 .. N /\ n - 1 \in 0 .. N /\ ~(n <= n - 1)
    BY <2>4, <2>5
  <2>7. PICK u : Upto(u, n - 1)
    BY <2>3, <2>6
  <2> DEFINE v == [i \in 0 .. n |-> IF i = n THEN Popped(entries, u[n - 1]) ELSE u[i]]
  <2>8. \A i \in 0 .. n - 1 : i \in 0 .. n /\ i # n
    BY <2>6
  <2>9. v[n] = Popped(entries, u[n - 1]) /\ \A i \in 0 .. n - 1 : v[i] = u[i]
    BY <2>6, <2>8
  <2> HIDE DEF v
  <2>10. \A i \in 1 .. n : i - 1 \in 0 .. n - 1 /\ (i = n \/ (i \in 1 .. n - 1 /\ i \in 0 .. n - 1))
    BY <2>6
  <2>11. 0 \in 0 .. n - 1
    BY <2>6
  <2>12. Upto(v, n)
    BY <2>7, <2>9, <2>10, <2>11
  <2>13. QED
    BY <2>4, <2>12
<1>2. PICK u : Upto(u, N)
  BY <1>1
<1> DEFINE w == [n \in 0 .. N |-> u[n]]
<1> HIDE DEF N
<1>3. N \in Nat
  BY DEF N
<1>4. Is(w)
  <2>1. ASSUME NEW n \in 0 .. N PROVE u[n] = F(w, n)
    <3>1. CASE n = 0
      BY <1>2, <3>1
    <3>2. CASE n # 0
      <4>1. n \in 1 .. N /\ n - 1 \in 0 .. N
        BY <1>3, <3>2
      <4>2. u[n] = Popped(entries, w[n - 1])
        BY <1>2, <4>1
      <4> HIDE DEF w
      <4>3. QED
        BY <3>2, <4>2 DEF Popped
    <3>3. QED
      BY <3>1, <3>2
  <2>2. QED
    BY <2>1
<1> HIDE DEF w, F
<1>5. Is(loop)
  BY <1>4
<1>6. Visited(entries) = loop[N].visited
  BY DEF Visited, F, N, none
<1> HIDE DEF loop
<1>7. \A n \in 0 .. N : loop[n] = F(loop, n)
  BY <1>5
<1>8. loop[0] = none
  <2>1. loop[0] = F(loop, 0)
    BY <1>3, <1>7
  <2>2. F(loop, 0) = none
    BY DEF F
  <2>3. QED
    BY <2>1, <2>2
<1>9. ASSUME NEW n \in 1 .. N PROVE loop[n] = Popped(entries, loop[n - 1])
  <2>1. n \in 0 .. N /\ n # 0
    BY <1>3
  <2>2. QED
    BY <1>7, <2>1 DEF F, Popped
<1>10. QED
  BY <1>6, <1>8, <1>9 DEF N, none

(***************************************************************************)
(* The work list runs empty within as many steps as there are entries, and *)
(* what was visited then holds all it cites.                               *)
(***************************************************************************)
LEMMA VisitedClosed ==
  ASSUME NEW entries, Len(entries) \in Nat \ {0},
         \A n \in 1 .. Len(entries) : Cited(entries[n]) \subseteq 1 .. n - 1
  PROVE  /\ Visited(entries) \subseteq 1 .. Len(entries) /\ Len(entries) \in Visited(entries)
         /\ \A a \in Visited(entries) : Cited(entries[a]) \subseteq Visited(entries)
<1> DEFINE N == Len(entries)
           Right(r, n) ==
             /\ r.visited \subseteq 1 .. N /\ r.frontie \subseteq 1 .. N
             /\ r.visited \cap r.frontie = {} /\ N \in r.visited \cup r.frontie
             /\ \A a \in r.visited : Cited(entries[a]) \subseteq r.visited \cup r.frontie
             /\ r.frontie = {} \/ Cardinality(r.visited) = n
<1>1. PICK loop :
        /\ Visited(entries) = loop[N].visited
        /\ loop[0] = [visited |-> {}, frontie |-> {N}]
        /\ \A n \in 1 .. N : loop[n] = Popped(entries, loop[n - 1])
  BY VisitedLoop
<1>2. \A n \in 1 .. N : Cited(entries[n]) \subseteq 1 .. N /\ n \notin Cited(entries[n])
  <2>1. ASSUME NEW n \in 1 .. N, NEW a \in Cited(entries[n]) PROVE a \in 1 .. N /\ a # n
    <3>1. a \in 1 .. n - 1
      OBVIOUS
    <3>2. QED
      BY <3>1
  <2>2. QED
    BY <2>1
<1> HIDE DEF N
<1>3. N \in Nat /\ N # 0
  BY DEF N
<1>4. Right(loop[0], 0)
  <2>1. loop[0].visited = {} /\ loop[0].frontie = {N}
    BY <1>1
  <2>2. N \in 1 .. N /\ Cardinality({}) = 0
    BY <1>3, FS_EmptySet
  <2>3. QED
    BY <2>1, <2>2
<1>5. ASSUME NEW n \in 1 .. N, NEW r, Right(r, n - 1)
      PROVE  Right(Popped(entries, r), n)
  <2>1. CASE r.frontie = {}
    BY <1>5, <2>1 DEF Popped
  <2>2. CASE r.frontie # {}
    <3> DEFINE pos     == Min(r.frontie)
               visited == r.visited \cup {pos}
               frontie == (r.frontie \ {pos}) \cup (Cited(entries[pos]) \ visited)
    <3>1. r.frontie \in SUBSET Nat
      BY <1>5
    <3>2. \E m \in r.frontie : \A a \in r.frontie : m <= a
      BY <2>2, <3>1, LeastMember
    <3>3. pos \in r.frontie
      BY <3>2 DEF Min
    <3>4. Popped(entries, r) = [visited |-> visited, frontie |-> frontie]
      BY <2>2 DEF Popped
    <3> HIDE DEF pos
    <3>5. IsFiniteSet(r.visited)
      <4>1. IsFiniteSet(1 .. N)
        BY <1>3, FS_Interval
      <4>2. r.visited \in SUBSET (1 .. N)
        BY <1>5
      <4>3. QED
        BY <4>1, <4>2, FS_Subset
    <3>6. pos \notin r.visited /\ pos \in 1 .. N
      BY <1>5, <3>3
    <3>7. Cardinality(visited) = n
      <4>1. Cardinality(r.visited) = n - 1
        BY <1>5, <2>2
      <4>2. Cardinality(visited) = Cardinality(r.visited) + 1
        BY <3>5, <3>6, FS_AddElement
      <4>3. QED
        BY <1>3, <4>1, <4>2
    <3>8. visited \subseteq 1 .. N /\ frontie \subseteq 1 .. N
      BY <1>2, <1>5, <3>6
    <3>9. visited \cap frontie = {}
      BY <1>5
    <3>10. N \in visited \cup frontie
      BY <1>5
    <3>11. ASSUME NEW a \in visited PROVE Cited(entries[a]) \subseteq visited \cup frontie
      <4>1. CASE a = pos
        BY <4>1
      <4>2. CASE a \in r.visited
        BY <1>5, <4>2
      <4>3. QED
        BY <4>1, <4>2
    <3> HIDE DEF visited, frontie
    <3>12. Popped(entries, r).visited = visited /\ Popped(entries, r).frontie = frontie
      BY <3>4
    <3> DEFINE next == Popped(entries, r)
    <3> HIDE DEF next
    <3>13. Right(next, n)
      BY <3>7, <3>8, <3>9, <3>10, <3>11, <3>12 DEF next
    <3>14. QED
      BY <3>13 DEF next
  <2>3. QED
    BY <2>1, <2>2
<1> HIDE DEF Right
<1> DEFINE T == {n \in 0 .. N : ~Right(loop[n], n)}
<1>6. T = {}
  <2>1. SUFFICES ASSUME T # {} PROVE FALSE
    OBVIOUS
  <2>2. T \in SUBSET Nat
    BY <1>3
  <2>3. PICK n \in T : \A m \in T : n <= m
    <3> HIDE DEF T
    <3>1. QED
      BY <2>1, <2>2, LeastMember
  <2>4. n \in 0 .. N /\ ~Right(loop[n], n) /\ \A m \in 0 .. N : ~Right(loop[m], m) => n <= m
    BY <2>3
  <2> HIDE DEF T
  <2>5. n # 0
    BY <1>4, <2>4
  <2>6. n \in 1 .. N /\ n - 1 \in 0 .. N /\ ~(n <= n - 1)
    BY <1>3, <2>4, <2>5
  <2>7. Right(loop[n - 1], n - 1)
    BY <2>4, <2>6
  <2>8. QED
    BY <1>1, <1>5, <2>4, <2>6, <2>7
<1>7. Right(loop[N], N)
  BY <1>3, <1>6
<1> DEFINE r == loop[N]
<1>8. r.frontie = {}
  <2>1. SUFFICES ASSUME r.frontie # {} PROVE FALSE
    OBVIOUS
  <2>2. Cardinality(r.visited) = N /\ r.visited \in SUBSET (1 .. N)
    BY <1>7, <2>1 DEF Right
  <2>3. IsFiniteSet(1 .. N) /\ Cardinality(1 .. N) = N
    BY <1>3, FS_Interval
  <2>4. r.visited = 1 .. N
    BY <2>2, <2>3, FS_Subset
  <2>5. QED
    BY <1>7, <2>1, <2>4 DEF Right
<1>9. QED
  BY <1>1, <1>7, <1>8 DEF Right, N

\* The new places are those of the entries kept, in their order.
LEMMA RankFacts ==
  ASSUME NEW N \in Nat, NEW V \in SUBSET (1 .. N), N \in V
  PROVE  /\ Cardinality(V) \in Nat \ {0}
         /\ \A a \in V : Rank(V, a) \in 1 .. Cardinality(V)
         /\ \A a, b \in V : a < b => Rank(V, a) < Rank(V, b)
         /\ \A n \in 1 .. Cardinality(V) : Ranked(V, n) \in V /\ Rank(V, Ranked(V, n)) = n
         /\ \A a \in V : Ranked(V, Rank(V, a)) = a
         /\ Rank(V, N) = Cardinality(V)
<1> DEFINE K      == Cardinality(V)
           Low(a) == {b \in V : b <= a}
<1>0. \A a \in V : a \in Nat /\ a <= N
  OBVIOUS
<1>1. IsFiniteSet(V) /\ K \in Nat
  <2>1. IsFiniteSet(1 .. N)
    BY FS_Interval
  <2>2. QED
    BY <2>1, FS_Subset, FS_CardinalityType
<1>2. K # 0
  BY <1>1, FS_EmptySet
<1>3. ASSUME NEW a \in V
      PROVE  IsFiniteSet(Low(a)) /\ Rank(V, a) \in 1 .. K
  <2>1. Low(a) \in SUBSET V /\ a \in Low(a)
    BY <1>0
  <2> HIDE DEF Low, K
  <2>2. IsFiniteSet(Low(a)) /\ Cardinality(Low(a)) <= K /\ Cardinality(Low(a)) \in Nat
    BY <1>1, <2>1, FS_Subset, FS_CardinalityType DEF K
  <2>3. Cardinality(Low(a)) # 0
    BY <2>1, <2>2, FS_EmptySet
  <2>4. QED
    BY <1>1, <2>2, <2>3 DEF Low, Rank
<1>11. \A a \in V : Rank(V, a) \in 1 .. K
  BY <1>3
<1>4. ASSUME NEW a \in V, NEW b \in V, a < b
      PROVE  Rank(V, a) < Rank(V, b)
  <2>0. a \in Nat /\ b \in Nat
    BY <1>0
  <2>1. Low(a) \in SUBSET Low(b) /\ b \in Low(b) /\ b \notin Low(a)
    <3>1. \A x \in V : x <= a => x <= b
      BY <1>0, <1>4, <2>0
    <3>2. b <= b /\ ~(b <= a)
      BY <1>4, <2>0
    <3>3. QED
      BY <3>1, <3>2
  <2>2. IsFiniteSet(Low(b)) /\ Rank(V, a) = Cardinality(Low(a)) /\ Rank(V, b) = Cardinality(Low(b))
    BY <1>3 DEF Rank
  <2> HIDE DEF Low
  <2>3. Cardinality(Low(a)) <= Cardinality(Low(b)) /\ Cardinality(Low(a)) # Cardinality(Low(b))
    BY <2>1, <2>2, FS_Subset
  <2>4. Rank(V, a) \in Nat /\ Rank(V, b) \in Nat
    BY <1>1, <1>11
  <2>5. QED
    BY <2>2, <2>3, <2>4
<1>5. ASSUME NEW a \in V, NEW b \in V, Rank(V, a) = Rank(V, b) PROVE a = b
  <2>1. Rank(V, a) \in Nat /\ Rank(V, b) \in Nat /\ a \in Nat /\ b \in Nat
    BY <1>0, <1>1, <1>11
  <2>2. ~(a < b) /\ ~(b < a)
    BY <1>4, <1>5, <2>1
  <2>3. QED
    BY <2>1, <2>2
<1>6. ASSUME NEW n \in 1 .. K PROVE \E a \in V : Rank(V, a) = n
  <2> DEFINE f == [a \in V |-> Rank(V, a)]
  <2>1. f \in [V -> 1 .. K]
    BY <1>3
  <2>2. \A a, b \in V : f[a] = f[b] => a = b
    BY <1>5
  <2>3. f \in Injection(V, 1 .. K)
    BY <2>1, <2>2 DEF Injection, IsInjective
  <2>4. IsFiniteSet(1 .. K) /\ Cardinality(1 .. K) = K
    BY <1>1, <1>2, FS_Interval
  <2>5. f \in Surjection(V, 1 .. K)
    BY <2>3, <2>4, FS_Injection
  <2>6. \E a \in V : f[a] = n
    BY <2>5 DEF Surjection
  <2>7. QED
    BY <2>6
<1>7. ASSUME NEW n \in 1 .. K PROVE Ranked(V, n) \in V /\ Rank(V, Ranked(V, n)) = n
  BY <1>6 DEF Ranked
<1>8. ASSUME NEW a \in V PROVE Ranked(V, Rank(V, a)) = a
  BY <1>3, <1>5, <1>7
<1>9. Rank(V, N) = K
  <2>1. {b \in V : b <= N} = V
    BY <1>0
  <2>2. QED
    BY <2>1 DEF Rank
<1>10. QED
  BY <1>1, <1>2, <1>3, <1>4, <1>7, <1>8, <1>9

\* The entry that checkProof writes for the one at pos.
LEMMA KeptEntry ==
  ASSUME NEW entries, NEW n \in 1 .. Cardinality(Visited(entries))
  PROVE  LET V    == Visited(entries)
             pos  == Ranked(V, n)
             e    == entries[pos]
             kept == Renumbered(entries)
         IN  /\ e.kind = "root" => kept[n] = e
             /\ e.kind # "root" =>
                  /\ kept[n].kind = "chain" /\ kept[n].start = NewPlace(V, pos, e.start)
                  /\ kept[n].steps = [i \in DOMAIN e.steps |->
                                        [pivot |-> e.steps[i].pivot,
                                         id |-> NewPlace(V, pos, e.steps[i].id)]]
<1> DEFINE V   == Visited(entries)
           pos == Ranked(V, n)
           e   == entries[pos]
           new == [kind |-> "chain", start |-> NewPlace(V, pos, e.start),
                   steps |-> [i \in DOMAIN e.steps |->
                                [pivot |-> e.steps[i].pivot,
                                 id |-> NewPlace(V, pos, e.steps[i].id)]]]
<1>1. Renumbered(entries)[n] = IF e.kind = "root" THEN e ELSE new
  BY DEF Renumbered
<1>2. /\ new.kind = "chain" /\ new.start = NewPlace(V, pos, e.start)
      /\ new.steps = [i \in DOMAIN e.steps |->
                        [pivot |-> e.steps[i].pivot,
                         id |-> NewPlace(V, pos, e.steps[i].id)]]
  OBVIOUS
<1> HIDE DEF new, e, pos, V
<1>3. QED
  BY <1>1, <1>2 DEF e, pos, V

\* A chain cites entries before its own only.
LEMMA CitedBefore ==
  ASSUME NEW entries, NEW log, SameEntries(entries, log), NEW F, RightLog(log, F), NEW n \in DOMAIN log
  PROVE  /\ Cited(entries[n]) \subseteq 1 .. n - 1
         /\ entries[n].kind # "root" =>
              /\ entries[n].start \in Cited(entries[n])
              /\ entries[n].steps \in Seq([id : Nat, pivot : Nat])
              /\ \A i \in 1 .. Len(entries[n].steps) : entries[n].steps[i].id \in Cited(entries[n])
<1> DEFINE before == SubSeq(log, 1, n - 1)
           e      == entries[n]
<1>1. IsSeq(log) /\ e.kind = log[n].kind /\ RightEntry(log, F, n)
  BY DEF SameEntries, RightLog
<1>2. LastId(before) = n - 1
  BY <1>1, BeforeEntry
<1>3. CASE log[n].kind = "root"
  BY <1>1, <1>3 DEF Cited
<1>4. CASE log[n].kind # "root"
  <2>1. e.start = log[n].start /\ e.steps = log[n].steps
    BY <1>4 DEF SameEntries
  <2>2. /\ e.start \in 1 .. n - 1
        /\ Resolves(before, ClauseOf(before, e.start), e.steps, log[n].clause)
    BY <1>1, <1>2, <1>4, <2>1 DEF RightEntry
  <2> HIDE DEF before, e
  <2>3. e.steps \in Seq([id : Nat, pivot : Nat])
    BY <2>2 DEF Resolves
  <2>4. \A i \in 1 .. Len(e.steps) : e.steps[i].id \in 1 .. n - 1
    BY <1>2, <2>2 DEF Resolves
  <2>5. DOMAIN e.steps = 1 .. Len(e.steps)
    BY <2>3
  <2>6. Cited(e) = {e.start} \cup {e.steps[i].id : i \in 1 .. Len(e.steps)}
    BY <1>1, <1>4, <2>5 DEF Cited
  <2>7. QED
    BY <2>2, <2>3, <2>4, <2>6 DEF e
<1>5. QED
  BY <1>3, <1>4

(***************************************************************************)
(* The clauses of the entries kept are those they had: each chain is the   *)
(* same, with the new places of the entries it cites, all of which are     *)
(* kept and written before it (assert newante > 0).                        *)
(***************************************************************************)
LEMMA RenumberedRefutes ==
  ASSUME NEW entries, NEW F, Refutes(entries, F)
  PROVE  Refutes(Renumbered(entries), F)
<1> DEFINE N    == Len(entries)
           V    == Visited(entries)
           K    == Cardinality(V)
           kept == Renumbered(entries)
           P(n) == Ranked(V, n)
<1>1. PICK log : SameEntries(entries, log) /\ RightLog(log, F) /\ EndsEmpty(log)
  BY DEF Refutes
<1>2. /\ IsSeq(entries) /\ IsSeq(log) /\ N \in Nat \ {0} /\ Len(log) = N
      /\ DOMAIN entries = 1 .. N /\ DOMAIN log = 1 .. N
      /\ log[N].clause = {}
  BY <1>1, SeqFacts DEF SameEntries, EndsEmpty, LastId, ClauseOf
<1>3. \A n \in 1 .. N : Cited(entries[n]) \subseteq 1 .. n - 1
  BY <1>1, <1>2, CitedBefore
<1>4. /\ V \in SUBSET (1 .. N) /\ N \in V /\ \A a \in V : Cited(entries[a]) \subseteq V
  BY <1>2, <1>3, VisitedClosed
<1> HIDE DEF V
<1>5. /\ K \in Nat \ {0} /\ Rank(V, N) = K
      /\ \A a \in V : Rank(V, a) \in 1 .. K /\ P(Rank(V, a)) = a
      /\ \A n \in 1 .. K : P(n) \in V /\ Rank(V, P(n)) = n
      /\ \A a, b \in V : a < b => Rank(V, a) < Rank(V, b)
  BY <1>2, <1>4, RankFacts
<1>6. /\ DOMAIN kept = 1 .. K /\ IsSeq(kept) /\ Len(kept) = K
  <2>1. DOMAIN kept = 1 .. K /\ kept = [n \in 1 .. K |-> kept[n]]
    BY DEF Renumbered, V
  <2> HIDE DEF kept, K
  <2>2. kept \in [1 .. K -> {kept[n] : n \in DOMAIN kept}]
    BY <2>1
  <2>3. kept \in Seq({kept[n] : n \in DOMAIN kept})
    BY <1>5, <2>2
  <2>4. QED
    BY <1>5, <2>1, <2>3 DEF IsSeq
<1> DEFINE short == [n \in 1 .. K |->
                       IF log[P(n)].kind = "root" THEN log[P(n)]
                       ELSE [kind |-> "chain", start |-> kept[n].start, steps |-> kept[n].steps,
                             clause |-> log[P(n)].clause]]
<1>7. /\ DOMAIN short = 1 .. K /\ IsSeq(short) /\ Len(short) = K
  <2>1. DOMAIN short = 1 .. K /\ short = [n \in 1 .. K |-> short[n]]
    OBVIOUS
  <2> HIDE DEF short, K
  <2>2. short \in [1 .. K -> {short[n] : n \in DOMAIN short}]
    BY <2>1
  <2>3. short \in Seq({short[n] : n \in DOMAIN short})
    BY <1>5, <2>2
  <2>4. QED
    BY <1>5, <2>1, <2>3 DEF IsSeq
<1>8. ASSUME NEW n \in 1 .. K
      PROVE  /\ log[P(n)].kind = "root" => short[n] = log[P(n)]
             /\ log[P(n)].kind # "root" => /\ short[n].kind = "chain" /\ short[n].start = kept[n].start
                                          /\ short[n].steps = kept[n].steps
             /\ short[n].clause = log[P(n)].clause
  OBVIOUS
<1> HIDE DEF short, kept
\* The new place of an entry that is cited, and its clause.
<1>9. ASSUME NEW n \in 1 .. K, NEW a \in Cited(entries[P(n)])
      PROVE  /\ NewPlace(V, P(n), a) \in 1 .. n - 1
             /\ ClauseOf(SubSeq(short, 1, n - 1), NewPlace(V, P(n), a)) = log[a].clause
  <2>1. P(n) \in V /\ P(n) \in 1 .. N /\ Rank(V, P(n)) = n
    BY <1>4, <1>5
  <2>2. a \in V /\ a \in 1 .. P(n) - 1
    BY <1>3, <1>4, <2>1
  <2>3. a < P(n) /\ Rank(V, a) \in 1 .. K /\ P(Rank(V, a)) = a
    BY <1>5, <2>1, <2>2
  <2>4. NewPlace(V, P(n), a) = Rank(V, a)
    BY <2>2, <2>3 DEF NewPlace
  <2>5. Rank(V, a) < n
    BY <1>5, <2>1, <2>2, <2>3
  <2> DEFINE m == Rank(V, a)
  <2>6. m \in 1 .. n - 1 /\ m \in 1 .. K /\ P(m) = a
    BY <1>5, <2>3, <2>5
  <2>7. ClauseOf(SubSeq(short, 1, n - 1), m) = short[m].clause
    BY <1>7, <2>6, BeforeEntry
  <2>8. short[m].clause = log[P(m)].clause
    BY <1>8, <2>6
  <2> HIDE DEF m, P
  <2>9. QED
    BY <2>4, <2>6, <2>7, <2>8 DEF m
<1>10. ASSUME NEW n \in 1 .. K PROVE RightEntry(short, F, n)
  <2> DEFINE p      == P(n)
             e      == entries[p]
             before == SubSeq(log, 1, p - 1)
             then   == SubSeq(short, 1, n - 1)
             New(a) == NewPlace(V, p, a)
  <2>1. p \in 1 .. N /\ RightEntry(log, F, p) /\ e.kind = log[p].kind
    BY <1>1, <1>2, <1>4, <1>5 DEF RightLog, SameEntries
  <2>2. CASE log[p].kind = "root"
    <3>1. short[n] = log[p]
      BY <1>8, <2>2
    <3>2. QED
      BY <2>1, <2>2, <3>1 DEF RightEntry
  <2>3. CASE log[p].kind # "root"
    <3>1. e.start = log[p].start /\ e.steps = log[p].steps
      BY <1>1, <1>2, <2>1, <2>3 DEF SameEntries
    <3>2. /\ e.start \in Cited(e) /\ e.steps \in Seq([id : Nat, pivot : Nat])
          /\ \A i \in 1 .. Len(e.steps) : e.steps[i].id \in Cited(e)
      BY <1>1, <1>2, <2>1, <2>3, CitedBefore
    <3>3. /\ kept[n].start = New(e.start)
          /\ kept[n].steps = [i \in DOMAIN e.steps |-> [pivot |-> e.steps[i].pivot,
                                                        id |-> New(e.steps[i].id)]]
      BY <2>1, <2>3, KeptEntry DEF kept, V
    <3>4. /\ short[n].kind = "chain" /\ short[n].start = kept[n].start
          /\ short[n].steps = kept[n].steps /\ short[n].clause = log[p].clause
      BY <1>8, <2>3
    <3>5. Resolves(before, ClauseOf(before, e.start), e.steps, log[p].clause)
      BY <2>1, <2>3, <3>1 DEF RightEntry
    <3>6. /\ LastId(then) = n - 1
          /\ \A a \in Cited(e) : New(a) \in 1 .. n - 1 /\ ClauseOf(then, New(a)) = log[a].clause
      BY <1>7, <1>9, BeforeEntry
    <3>7. /\ \A a \in Cited(e) : ClauseOf(before, a) = log[a].clause
      BY <1>2, <1>3, <2>1, BeforeEntry
    <3> DEFINE steps == e.steps
               L     == Len(steps)
               moved == kept[n].steps
    <3> HIDE DEF before, then, New, e, p
    <3>8. /\ L \in Nat /\ DOMAIN steps = 1 .. L
          /\ \A i \in 1 .. L : steps[i].pivot \in Nat
      <4> DEFINE S == [id : Nat, pivot : Nat]
      <4>1. steps \in Seq(S)
        BY <3>2
      <4>2. \A s \in S : s.pivot \in Nat
        OBVIOUS
      <4> HIDE DEF S, steps
      <4>3. QED
        BY <4>1, <4>2
    <3> HIDE DEF L, steps
    <3>9. moved = [i \in 1 .. L |-> [pivot |-> steps[i].pivot, id |-> New(steps[i].id)]]
      BY <3>3, <3>8 DEF steps
    <3>10. \A i \in 1 .. L : /\ moved[i].pivot = steps[i].pivot /\ moved[i].id = New(steps[i].id)
                             /\ moved[i] = [pivot |-> moved[i].pivot, id |-> moved[i].id]
      BY <3>9
    <3>11. \A i \in 1 .. L : moved[i].pivot \in Nat /\ moved[i].id \in 1 .. n - 1
      BY <3>2, <3>6, <3>8, <3>10 DEF L, steps
    <3>12. moved \in Seq([id : Nat, pivot : Nat]) /\ Len(moved) = L
      <4> DEFINE S == [id : Nat, pivot : Nat]
      <4>1. ASSUME NEW i \in 1 .. L PROVE moved[i] \in S
        <5>1. \A a \in Nat, b \in Nat : [pivot |-> b, id |-> a] \in S
          OBVIOUS
        <5>2. moved[i].pivot \in Nat /\ moved[i].id \in Nat
          BY <3>11
        <5> HIDE DEF S, moved
        <5>3. QED
          BY <3>10, <5>1, <5>2
      <4> HIDE DEF S
      <4>2. moved \in [1 .. L -> S]
        BY <3>9, <4>1
      <4> HIDE DEF moved
      <4>3. moved \in Seq(S) /\ Len(moved) = L
        BY <3>8, <4>2
      <4>4. QED
        BY <4>3 DEF S
    <3> HIDE DEF moved
    <3>13. PICK w :
             /\ w[0] = ClauseOf(before, e.start) /\ w[L] = log[p].clause
             /\ \A i \in 1 .. L :
                  /\ w[i] = Resolvent(w[i - 1], ClauseOf(before, steps[i].id), steps[i].pivot)
                  /\ IsPivot(w[i - 1], ClauseOf(before, steps[i].id), steps[i].pivot)
                  /\ ~IsTautology(w[i])
      BY <3>5 DEF Resolves, L, steps
    <3>14. \A i \in 1 .. L : ClauseOf(then, moved[i].id) = ClauseOf(before, steps[i].id)
      <4>1. \A i \in 1 .. L : steps[i].id \in Cited(e)
        BY <3>2 DEF L, steps
      <4>2. QED
        BY <3>6, <3>7, <3>10, <4>1
    <3>15. /\ w[0] = ClauseOf(then, New(e.start)) /\ New(e.start) \in 1 .. n - 1
      BY <3>2, <3>6, <3>7, <3>13
    <3>16. \A i \in 1 .. L :
             /\ moved[i].id \in 1 .. LastId(then)
             /\ w[i] = Resolvent(w[i - 1], ClauseOf(then, moved[i].id), moved[i].pivot)
             /\ IsPivot(w[i - 1], ClauseOf(then, moved[i].id), moved[i].pivot)
             /\ ~IsTautology(w[i])
      BY <3>6, <3>10, <3>11, <3>13, <3>14
    <3>17. Resolves(then, ClauseOf(then, New(e.start)), moved, log[p].clause)
      BY <3>12, <3>13, <3>15, <3>16 DEF Resolves
    <3>18. QED
      BY <3>3, <3>4, <3>6, <3>15, <3>17 DEF RightEntry, moved, then
  <2>4. QED
    BY <2>2, <2>3
<1>11. EndsEmpty(short)
  <2>1. P(K) = N /\ K \in 1 .. K
    BY <1>4, <1>5
  <2>2. short[K].clause = {}
    BY <1>2, <1>8, <2>1
  <2>3. QED
    BY <1>5, <1>7, <2>2 DEF EndsEmpty, LastId, ClauseOf
<1>12. SameEntries(kept, short)
  <2>1. ASSUME NEW n \in 1 .. K
        PROVE  /\ kept[n].kind = short[n].kind
               /\ IF short[n].kind = "root" THEN kept[n].clause = short[n].clause
                  ELSE kept[n].start = short[n].start /\ kept[n].steps = short[n].steps
    <3>1. P(n) \in 1 .. N
      BY <1>4, <1>5
    <3>2. /\ entries[P(n)].kind = log[P(n)].kind
          /\ log[P(n)].kind = "root" => entries[P(n)].clause = log[P(n)].clause
      BY <1>1, <1>2, <3>1 DEF SameEntries
    <3>3. /\ entries[P(n)].kind = "root" => kept[n] = entries[P(n)]
          /\ entries[P(n)].kind # "root" => kept[n].kind = "chain"
      BY KeptEntry DEF kept, V
    <3>4. QED
      BY <1>8, <3>2, <3>3
  <2>2. QED
    BY <1>6, <1>7, <2>1 DEF SameEntries
<1>13. RightLog(short, F)
  BY <1>7, <1>10 DEF RightLog
<1>14. QED
  BY <1>11, <1>12, <1>13 DEF Refutes, kept

(***************************************************************************)
(* So what checkProof keeps of the log of a session that is refuted is     *)
(* still a refutation of the clauses given: an entry cites entries before  *)
(* it only, by their new places, and the last one is the empty clause.     *)
(***************************************************************************)
KeptRefutes ==
  session.logged /\ Refuted => Refutes(Renumbered(proof), Formula)

THEOREM SpecKeptRefutes == Spec => []KeptRefutes
<1>1. TInv /\ LogRefutes => KeptRefutes
  <2>1. SUFFICES ASSUME TInv, LogRefutes, session.logged, Refuted
                 PROVE  Refutes(Renumbered(proof), Formula)
    BY DEF KeptRefutes
  <2>2. IsSeq(proof)
    BY <2>1 DEF TInv, Ids, IsLog, ToSet, IsSeq
  <2>3. SameEntries(proof, proof)
    BY <2>2 DEF SameEntries
  <2>4. Refutes(proof, Formula)
    BY <2>1, <2>3 DEF LogRefutes, Refutes
  <2>5. QED
    BY <2>4, RenumberedRefutes
<1>2. QED
  BY <1>1, SpecTInv, SpecLogRefutes, PTL
=============================================================================
