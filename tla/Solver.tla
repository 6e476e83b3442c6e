------------------------------- MODULE Solver -------------------------------
(***************************************************************************)
(* The incremental SAT solver that compsyn is linked with (Solver.C of     *)
(* MiniSat 1.14) behind its OCaml interface (MiniSATWrap.C): clause        *)
(* learning with two watched literals, assumptions, and the log of the     *)
(* resolutions from which compsyn computes its interpolants.               *)
(*                                                                         *)
(* A behaviour is one session: reset or reset_proof, the clauses, then one *)
(* query after the other.  What the activities of variables and clauses    *)
(* and the random numbers decide is left open: which variable is decided   *)
(* next, which clause of a watcher list is visited next, which learnt      *)
(* clauses are dropped.  A clause in memory is known by its address; the   *)
(* array of assignments is the set of the literals on the trail.           *)
(***************************************************************************)
EXTENDS ResolutionLog, FiniteSetsExt, SequencesExt

CONSTANTS
  Session,           \* what a program asks for: vars, clauses, queries, logged
  FirstNofConflicts  \* conflicts before the first restart (100 in the code)

(***************************************************************************)
(* Every clause is about the variables of the session; the literals of a   *)
(* query are about different variables, the precondition of solve.         *)
(***************************************************************************)
ASSUME SessionAssumption ==
  \A s \in Session :
    /\ s.vars \in Nat
    /\ s.clauses \in Seq(SUBSET Int)
    /\ s.queries \in Seq(Seq(Int))
    /\ \A n \in DOMAIN s.clauses : s.clauses[n] # {} /\ IsClause(s.clauses[n], s.vars)
    /\ \A n \in DOMAIN s.queries :
         /\ IsClause(ToSet(s.queries[n]), s.vars)
         /\ \A i, j \in DOMAIN s.queries[n] :
              i # j => Var(s.queries[n][i]) # Var(s.queries[n][j])
    /\ s.logged \in BOOLEAN

(***************************************************************************)
(* A session with the log on asks for plain refutations, by solve ():      *)
(* characterization_interp_AB of vp/share/interp.ml is the one program     *)
(* that calls reset_proof, but for characterization_interp_AB_mass, which  *)
(* nothing calls.                                                          *)
(***************************************************************************)
ASSUME LogAssumption ==
  \A s \in Session : s.logged => \A n \in DOMAIN s.queries : s.queries[n] = <<>>

ASSUME RestartAssumption == FirstNofConflicts \in Nat \ {0}

VARIABLES
  session,    \* the calls of the program
  given,      \* how many of its clauses were added
  answers,    \* the answers to its queries, with what value_of then reads
  ok,         \* FALSE: the clauses are contradictory
  db,         \* the clauses and learnts in memory, by address
  watches,    \* for each literal the clauses to visit when it becomes true
  trail,      \* the literals assigned, in order
  trail_lim,  \* the length of the trail before each decision
  reason,     \* for each variable the clause that implied its value, or 0
  level,      \* for each variable the decision level of its value
  qhead,      \* how much of the trail was propagated
  todo,       \* the watchers of the literal at qhead not yet visited
  confl,      \* the clause that propagation found false, or 0
  root_level, \* the number of assumptions made
  order,      \* the variables in the heap that may still be decided
  unit_id,    \* for each variable the id of its unit clause, or 0
  simpDB_assigns, \* the length of the trail at the last simplifyDB
  conflictC,  \* conflicts since the last restart
  restarts,   \* restarts of this query
  nof_learnts, \* how many learnt clauses the query starts with at most
  conflict,   \* the last conflict under assumptions
  proof,      \* the log
  deletions,  \* its records of the clauses thrown away
  pc          \* the method that waits for the end of propagate

memory == <<ok, db, watches, unit_id, simpDB_assigns, proof, deletions>>
assignment == <<trail, trail_lim, reason, level, qhead, order>>
propagation == <<todo, confl>>
counters == <<conflictC, restarts, nof_learnts>>
vars == <<session, given, answers, memory, assignment, propagation, root_level,
          counters, conflict, pc>>

Variable == 1 .. session.vars
Literal == Variable \cup {-v : v \in Variable}

IsTrue(x) == x \in ToSet(trail)
IsFalse(x) == -x \in ToSet(trail)
IsUndef(v) == ~IsTrue(v) /\ ~IsFalse(v)

decisionLevel == Len(trail_lim)
assumps == session.queries[Len(answers) + 1]

\* A variable that has a value at the top level.
AtTop(v) == level[v] = 0

(***************************************************************************)
(* A clause in memory: data[0] and data[1], which are watched, are first   *)
(* and second, and lits is the set of all its literals.                    *)
(***************************************************************************)
Clause(learnt, first, second, lits, id) ==
  [learnt |-> learnt, first |-> first, second |-> second, lits |-> lits, id |-> id]

\* What xmalloc returns: some address that is free.
Address == CHOOSE a \in 1 .. Cardinality(DOMAIN db) + 1 : a \notin DOMAIN db

\* Both watcher lists get the clause.
Watching(c, a) == [watches EXCEPT ![-c.first] = @ \cup {a}, ![-c.second] = @ \cup {a}]

\* Mutant: the other watched literal is asked about.
lockedSecond(a) == reason[Var(db[a].second)] = a

\* The clause may not be freed, as it is the reason of an assignment.
locked(a) == reason[Var(db[a].first)] = a

\* The literals of a reason that its first literal follows from.
Antecedents(a) == db[a].lits \ {db[a].first}

\* The literals of a clause one after the other, in one order.
InOrder(lits) == SetToSeq(lits)

\* The first of them.
First(lits) == CHOOSE x \in lits : \A y \in lits : Var(x) <= Var(y)

\* The resolutions that remove literals that are false at the top level.
UnitSteps(lits) ==
  LET false == InOrder({x \in lits : AtTop(Var(x))})
  IN  [n \in DOMAIN false |-> [id |-> unit_id[Var(false[n])], pivot |-> Var(false[n])]]

\* Log a chain, if the session is logged.
Log(log, start, steps) == IF session.logged THEN endChain(log, start, steps) ELSE log
LogId(log, start, steps) == IF session.logged THEN ChainId(log, start, steps) ELSE 0

Init ==
  /\ session \in Session
  /\ given = 0
  /\ answers = <<>>
  /\ ok = TRUE
  /\ db = <<>>
  /\ watches = [x \in Literal |-> {}]
  /\ trail = <<>> /\ trail_lim = <<>>
  /\ reason = [v \in Variable |-> 0]
  /\ level = [v \in Variable |-> -1]
  /\ qhead = 0
  /\ todo = {} /\ confl = 0
  /\ root_level = 0
  /\ order = Variable
  /\ unit_id = [v \in Variable |-> 0]
  /\ simpDB_assigns = 0
  /\ conflictC = 0 /\ restarts = 0 /\ nof_learnts = 0
  /\ conflict = {}
  /\ proof = <<>> /\ deletions = {}
  /\ pc = "idle"

-----------------------------------------------------------------------------
(***************************************************************************)
(* minisat_add_clause: newClause of a clause that is not learnt.  It is    *)
(* ignored once the clauses contradict each other or if it is satisfied;   *)
(* its false literals are resolved away.                                   *)
(***************************************************************************)
AddClause ==
  LET qs     == session.clauses[given + 1]
      kept   == {x \in qs : ~IsFalse(x)}
      root   == IF session.logged THEN addRoot(proof, qs) ELSE proof
      steps  == UnitSteps(qs \ kept)
      id     == LogId(root, LastId(root), steps)
      unit   == First(kept)
      c      == Clause(FALSE, unit, First(kept \ {unit}), kept, id)
  IN  /\ pc = "idle"
      /\ given < Len(session.clauses)
      /\ given' = given + 1
      /\ IF ~ok \/ IsTautology(qs) \/ \E x \in qs : IsTrue(x)
         THEN UNCHANGED <<memory, assignment>>
         ELSE /\ proof' = Log(root, LastId(root), steps)
              /\ ok' = (kept # {})
              /\ IF Cardinality(kept) > 1
                 THEN /\ db' = [a \in DOMAIN db \cup {Address} |-> IF a = Address THEN c ELSE db[a]]
                      /\ watches' = Watching(c, Address)
                 ELSE UNCHANGED <<db, watches>>
              /\ IF Cardinality(kept) = 1
                 THEN /\ unit_id' = [unit_id EXCEPT ![Var(unit)] = id]
                      /\ trail' = Append(trail, unit)
                      /\ reason' = [reason EXCEPT ![Var(unit)] = 0]
                      /\ level' = [level EXCEPT ![Var(unit)] = 0]
                 ELSE UNCHANGED <<unit_id, trail, reason, level>>
              /\ UNCHANGED <<simpDB_assigns, deletions, trail_lim, qhead, order>>
      /\ UNCHANGED <<session, answers, propagation, root_level, counters, conflict, pc>>

-----------------------------------------------------------------------------
\* Revert to a decision level: the trail, the reasons and the order after it.
Cut(l) == IF decisionLevel > l THEN SubSeq(trail, 1, trail_lim[l + 1]) ELSE trail

\* The variables whose values cancelUntil takes back.
Undone(l) == {Var(x) : x \in ToSet(SubSeq(trail, Len(Cut(l)) + 1, Len(trail)))}

\* Mutant: the variables are not put back (order.undo).
HeapedNone(l) == order

\* The heap with the variables that may be decided again.
Heaped(l) == order \cup Undone(l)

\* Mutant: qhead stays where it was.
cancelUntilQueued(l) ==
  /\ trail' = Cut(l)
  /\ trail_lim' = SubSeq(trail_lim, 1, l)
  /\ reason' = [v \in Variable |-> IF v \in Undone(l) THEN 0 ELSE reason[v]]
  /\ order' = Heaped(l)
  /\ UNCHANGED <<level, qhead>>

cancelUntil(l) ==
  /\ trail' = Cut(l)
  /\ trail_lim' = SubSeq(trail_lim, 1, l)
  /\ reason' = [v \in Variable |-> IF v \in Undone(l) THEN 0 ELSE reason[v]]
  /\ order' = Heaped(l)
  /\ qhead' = IF decisionLevel > l THEN Len(Cut(l)) ELSE qhead
  /\ UNCHANGED level

(***************************************************************************)
(* propagate, one literal and one watcher at a time, for the method in pc. *)
(***************************************************************************)
Propagating == todo # {} \/ qhead < Len(trail)

At(method) == pc = method /\ ~Propagating

TakeNext ==
  /\ pc \in {"simplifyDB", "assume", "search"}
  /\ todo = {}
  /\ qhead < Len(trail)
  /\ qhead' = qhead + 1
  /\ todo' = watches[trail[qhead + 1]]
  /\ UNCHANGED <<session, given, answers, memory, trail, trail_lim, reason, level, order,
                 confl, root_level, counters, conflict, pc>>

\* The clause at a with its false watch in second place.
Turned(a) ==
  IF db[a].first = -trail[qhead]
  THEN [db[a] EXCEPT !.first = db[a].second, !.second = db[a].first]
  ELSE db[a]

\* The 0th watch is true.
VisitSatisfied ==
  \E a \in todo :
    /\ IsTrue(Turned(a).first)
    /\ db' = [db EXCEPT ![a] = Turned(a)]
    /\ todo' = todo \ {a}
    /\ UNCHANGED <<session, given, answers, ok, watches, unit_id, simpDB_assigns, proof,
                   deletions, assignment, confl, root_level, counters, conflict, pc>>

\* The literals of a clause that may be watched instead of the false one.
NewWatch(c) == {x \in c.lits \ {c.first, c.second} : ~IsFalse(x)}

VisitNewWatch ==
  \E a \in todo : \E x \in NewWatch(Turned(a)) :
    /\ ~IsTrue(Turned(a).first)
    /\ db' = [db EXCEPT ![a] = [Turned(a) EXCEPT !.second = x]]
    /\ watches' = [watches EXCEPT ![trail[qhead]] = @ \ {a}, ![-x] = @ \cup {a}]
    /\ todo' = todo \ {a}
    /\ UNCHANGED <<session, given, answers, ok, unit_id, simpDB_assigns, proof, deletions,
                   assignment, confl, root_level, counters, conflict, pc>>

\* The log gets the clause without its false literals and, if the one left is
\* false as well, the empty clause.
UnitLog(c) ==
  LET v    == Var(c.first)
      unit == endChain(proof, c.id, UnitSteps(c.lits \ {c.first}))
  IN  IF IsFalse(c.first)
      THEN endChain(unit, unit_id[v], <<[id |-> LastId(unit), pivot |-> v]>>)
      ELSE unit

(***************************************************************************)
(* The clause is unit, or false: its first literal is enqueued, or the     *)
(* conflict found and the rest of the queue dropped.                       *)
(***************************************************************************)
VisitUnit ==
  \E a \in todo :
    LET c     == Turned(a)
        v     == Var(c.first)
        steps == UnitSteps(c.lits \ {c.first})
        id    == LogId(proof, c.id, steps)
    IN  /\ ~IsTrue(c.first)
        /\ NewWatch(c) = {}
        /\ db' = [db EXCEPT ![a] = c]
        /\ IF decisionLevel = 0 /\ session.logged
           THEN /\ unit_id' = IF IsFalse(c.first) THEN unit_id ELSE [unit_id EXCEPT ![v] = id]
                /\ proof' = UnitLog(c)
                /\ pc' = IF unit_id[v] = 0 \/ IsFalse(c.first) THEN pc ELSE "assert"
           ELSE UNCHANGED <<unit_id, proof, pc>>
        /\ IF IsFalse(c.first)
           THEN /\ ok' = (ok /\ decisionLevel # 0)
                /\ confl' = a
                /\ qhead' = Len(trail)
                /\ todo' = {}
                /\ UNCHANGED <<trail, reason, level>>
           ELSE /\ trail' = Append(trail, c.first)
                /\ reason' = [reason EXCEPT ![v] = a]
                /\ level' = [level EXCEPT ![v] = decisionLevel]
                /\ todo' = todo \ {a}
                /\ UNCHANGED <<ok, confl, qhead>>
        /\ UNCHANGED <<session, given, answers, watches, simpDB_assigns, deletions, trail_lim,
                       order, root_level, counters, conflict>>

-----------------------------------------------------------------------------
VarsOf(lits) == {Var(x) : x \in lits}

\* The literals of a clause whose variables are not at the top level.
Deep(lits) == {x \in lits : ~AtTop(Var(x))}

\* Mutant: the false units of the reason stay.
ReasonStepsBare(v) == <<[id |-> db[reason[v]].id, pivot |-> v]>>

\* One resolution with the reason of v, and those that clear its false units.
ReasonSteps(v) ==
  <<[id |-> db[reason[v]].id, pivot |-> v]>> \o UnitSteps(Antecedents(reason[v]))

\* analyze, the literals of one clause: those of this level are to be resolved.
Note(a, lits) ==
  LET new     == {x \in Deep(lits) : Var(x) \notin a.seen}
      current == {x \in new : level[Var(x)] = decisionLevel}
  IN  [a EXCEPT !.seen = @ \cup VarsOf(new), !.path = @ + Cardinality(current),
                !.lits = @ \cup (new \ current)]

\* The next literal of the trail, walking back to the unique implication point.
Back(a, x) ==
  LET b == [a EXCEPT !.seen = @ \ {Var(x)}, !.path = @ - 1]
  IN  IF a.uip # 0 \/ Var(x) \notin a.seen THEN a
      ELSE IF b.path = 0 THEN [b EXCEPT !.uip = -x]
      ELSE Note([b EXCEPT !.steps = @ \o ReasonSteps(Var(x))], Antecedents(reason[Var(x)]))

\* The loop of analyze after n literals of the trail, from the last on.
Walk[n \in 0 .. Len(trail)] ==
  IF n = 0
  THEN Note([seen |-> {}, path |-> 0, lits |-> {}, steps |-> UnitSteps(db[confl].lits), uip |-> 0],
            db[confl].lits)
  ELSE Back(Walk[n - 1], trail[Len(trail) + 1 - n])

\* What it finds.
FirstUIP == Walk[Len(trail)]

\* Mutant: whatever the literals of the reason.
ImpliedByAny(lits) == {Var(x) : x \in {y \in lits : reason[Var(y)] # 0}}

\* analyze_removable of a variable, if the literals found and vs are given.
Follows(lits, vs, v) ==
  /\ reason[v] # 0
  /\ level[v] \in {level[Var(x)] : x \in lits}
  /\ VarsOf(Deep(Antecedents(reason[v]))) \subseteq VarsOf(lits) \cup vs

(***************************************************************************)
(* The variables that follow from the literals found, by reasons of their  *)
(* levels only, among the first n of the trail.                            *)
(***************************************************************************)
ImpliedUpTo(lits) ==
  LET implied[n \in 0 .. Len(trail)] ==
        IF n = 0 THEN {}
        ELSE implied[n - 1] \cup {v \in {Var(trail[n])} : Follows(lits, implied[n - 1], v)}
  IN  implied

Implied(lits) == ImpliedUpTo(lits)[Len(trail)]

\* analyze_toclear, one literal of the trail: it is removed from the literals
\* found, or follows from them and was met when another one was removed.
Clear(lits, r, x) ==
  IF Var(x) \notin r.vs THEN r
  ELSE [vs    |-> r.vs \cup (VarsOf(Deep(Antecedents(reason[Var(x)]))) \ VarsOf(lits)),
        steps |-> r.steps \o ReasonSteps(Var(x))]

\* The loop over analyze_toclear after n literals of the trail, from the last on.
Removal(lits, removed) ==
  LET cleared[n \in 0 .. Len(trail)] ==
        IF n = 0 THEN [vs |-> VarsOf(removed), steps |-> <<>>]
        ELSE Clear(lits, cleared[n - 1], trail[Len(trail) + 1 - n])
  IN  cleared

\* The resolutions that remove them.
RemovalSteps(lits, removed) == Removal(lits, removed)[Len(trail)].steps

\* Mutant: the second literal, as it comes.
SecondWatchAny(lits) == lits

\* The literals of the highest level, where a learnt clause is watched as well.
SecondWatch(lits) == {x \in lits : \A y \in lits : level[Var(y)] <= level[Var(x)]}

\* analyze: the learnt clause, the level to go back to, and the log.
analyze ==
  LET found   == FirstUIP
      implied == Implied(found.lits)
      removed == {x \in found.lits : Var(x) \in implied}
  IN  [uip  |-> found.uip,
       rest |-> found.lits \ removed,
       back |-> Max({level[Var(x)] : x \in found.lits} \cup {0}),
       log  |-> Log(proof, db[confl].id, found.steps \o RemovalSteps(found.lits, removed))]

(***************************************************************************)
(* search with a conflict above the root level: analyze, cancelUntil and   *)
(* newClause of the learnt clause, whose first literal is implied by it.   *)
(***************************************************************************)
Learn ==
  /\ At("search")
  /\ confl # 0
  /\ decisionLevel > root_level
  /\ \E learnt \in {analyze} :
       LET uip  == learnt.uip
           rest == learnt.rest
           back == Max({learnt.back, root_level})
           id   == IF session.logged THEN LastId(learnt.log) ELSE 0
       IN  /\ proof' = learnt.log
           /\ trail' = Append(Cut(back), uip)
           /\ trail_lim' = SubSeq(trail_lim, 1, back)
           /\ order' = Heaped(back)
           /\ qhead' = Len(Cut(back))
           /\ level' = [level EXCEPT ![Var(uip)] = IF rest = {} THEN 0 ELSE back]
           /\ reason' = [v \in Variable |->
                           IF v = Var(uip) THEN IF rest = {} THEN 0 ELSE Address
                           ELSE IF v \in Undone(back) THEN 0 ELSE reason[v]]
           /\ IF rest = {}
              THEN /\ unit_id' = IF session.logged THEN [unit_id EXCEPT ![Var(uip)] = id]
                                 ELSE unit_id
                   /\ UNCHANGED <<db, watches>>
              ELSE /\ \E x \in SecondWatch(rest) :
                        LET c == Clause(TRUE, uip, x, {uip} \cup rest, id)
                        IN  /\ db' = [a \in DOMAIN db \cup {Address} |->
                                        IF a = Address THEN c ELSE db[a]]
                            /\ watches' = Watching(c, Address)
                   /\ UNCHANGED unit_id
  /\ confl' = 0
  /\ conflictC' = conflictC + 1
  /\ UNCHANGED <<session, given, answers, ok, simpDB_assigns, deletions, todo, root_level,
                 restarts, nof_learnts, conflict, pc>>

\* analyzeFinal, one literal of the trail.
Trace(f, x) ==
  IF Var(x) \notin f.seen THEN f
  ELSE IF reason[Var(x)] = 0 THEN [f EXCEPT !.conflict = @ \cup {-x}]
  ELSE [f EXCEPT !.seen = @ \cup VarsOf(Deep(Antecedents(reason[Var(x)]))),
                 !.steps = @ \o ReasonSteps(Var(x))]

\* The loop of analyzeFinal after n literals of the trail, from the last on.
TraceBack(lits, steps) ==
  LET traced[n \in 0 .. Len(trail)] ==
        IF n = 0 THEN [seen |-> VarsOf(Deep(lits)), conflict |-> {}, steps |-> steps]
        ELSE Trace(traced[n - 1], trail[Len(trail) + 1 - n])
  IN  traced

\* Mutant: the walk stops before the first assumption.
AssumedButFirst(lits, steps) ==
  TraceBack(lits, steps)[Len(trail) - Min({Len(Cut(0)) + 1, Len(trail)})]

\* It ends at the first decision: the assumptions from which the literals follow.
Assumed(lits, steps) == TraceBack(lits, steps)[Len(trail) - Len(Cut(0))]

\* Mutant: nothing is found out unless all assumptions were made.
analyzeFinalAll(a, lits) ==
  IF root_level = 0 \/ decisionLevel < root_level THEN [conflict |-> {}, log |-> proof]
  ELSE LET final == Assumed(lits, UnitSteps(lits))
       IN  [conflict |-> final.conflict, log |-> Log(proof, db[a].id, final.steps)]

\* With no assumption the empty clause is the last of the log.
analyzeFinal(a, lits) ==
  IF root_level = 0 THEN [conflict |-> {}, log |-> proof]
  ELSE LET final == Assumed(lits, UnitSteps(lits))
       IN  [conflict |-> final.conflict, log |-> Log(proof, db[a].id, final.steps)]

-----------------------------------------------------------------------------
Answer(result, model) ==
  /\ answers' = Append(answers, [result |-> result, model |-> model])
  /\ pc' = "idle"

\* minisat_solve and minisat_solve_with_assumption, up to simplifyDB.
Solve ==
  /\ pc = "idle"
  /\ given = Len(session.clauses)
  /\ Len(answers) < Len(session.queries)
  /\ IF ok THEN pc' = "simplifyDB" /\ UNCHANGED answers ELSE Answer("UNSAT", {})
  /\ root_level' = 0
  /\ conflictC' = 0 /\ restarts' = 0 /\ nof_learnts' = 0
  /\ UNCHANGED <<session, given, memory, assignment, propagation, conflict>>

\* simplifyDB found the clauses contradictory.
SimplifyConflict ==
  /\ At("simplifyDB")
  /\ confl # 0
  /\ ok' = FALSE
  /\ confl' = 0
  /\ Answer("UNSAT", {})
  /\ UNCHANGED <<session, given, db, watches, unit_id, simpDB_assigns, proof, deletions,
                 assignment, todo, root_level, counters, conflict>>

\* The watcher lists after those of the new top-level literals are cleared.
Cleared ==
  LET new == VarsOf(ToSet(SubSeq(trail, simpDB_assigns + 1, Len(trail))))
  IN  [x \in Literal |-> IF Var(x) \in new THEN {} ELSE watches[x]]

\* removeWatch finds the clause in every list that is not empty.
Removable(lists, a) ==
  \A x \in {db[a].first, db[a].second} : lists[-x] = {} \/ a \in lists[-x]

\* The records of the clauses dropped.
Deletions(dropped) ==
  IF session.logged THEN deletions \cup {deleted(proof, db[a].id) : a \in dropped} ELSE deletions

\* Mutant: one of the two lists keeps the clause.
UnwatchedOnce(lists, dropped) ==
  [x \in Literal |-> lists[x] \ {a \in dropped : -x = db[a].first}]

\* remove: the lists of the two watched literals forget the clause.
Unwatched(lists, dropped) ==
  [x \in Literal |-> lists[x] \ {a \in dropped : -x \in {db[a].first, db[a].second}}]

\* remove, for each of these clauses.
Drop(dropped, lists) ==
  /\ db' = [a \in DOMAIN db \ dropped |-> db[a]]
  /\ watches' = Unwatched(lists, dropped)
  /\ deletions' = Deletions(dropped)

\* simplifyDB: drop the clauses that are true at the top level.
Simplify(next) ==
  LET satisfied == {a \in DOMAIN db : ~locked(a) /\ \E x \in db[a].lits : IsTrue(x)}
  IN  \/ \* nothing new, or too recently (simpDB_props)
         /\ pc' = next
         /\ UNCHANGED memory
      \/ /\ Len(trail) # simpDB_assigns
         /\ Drop(satisfied, Cleared)
         /\ simpDB_assigns' = Len(trail)
         /\ pc' = IF \A a \in satisfied : Removable(Cleared, a) THEN next ELSE "assert"
         /\ UNCHANGED <<ok, unit_id, proof>>

SimplifyDB ==
  /\ At("simplifyDB")
  /\ confl = 0
  /\ Simplify("assume")
  /\ root_level' = Len(assumps)
  /\ nof_learnts' = Cardinality({a \in DOMAIN db' : ~db'[a].learnt}) \div 3
  /\ UNCHANGED <<session, given, answers, assignment, propagation, conflictC, restarts, conflict>>

\* solve: make the next assumption.
Assume ==
  LET x == assumps[decisionLevel + 1]
  IN  /\ At("assume")
      /\ confl = 0
      /\ decisionLevel < root_level
      /\ ~IsFalse(x)
      /\ trail_lim' = Append(trail_lim, Len(trail))
      /\ IF IsTrue(x) THEN UNCHANGED <<trail, reason, level>>
         ELSE /\ trail' = Append(trail, x)
              /\ reason' = [reason EXCEPT ![Var(x)] = 0]
              /\ level' = [level EXCEPT ![Var(x)] = decisionLevel + 1]
      /\ UNCHANGED <<session, given, answers, memory, qhead, order, propagation, root_level,
                     counters, conflict, pc>>

\* The assumption is false already.
AssumeFalse ==
  LET x == assumps[decisionLevel + 1]
      a == reason[Var(x)]
  IN  /\ At("assume")
      /\ confl = 0
      /\ decisionLevel < root_level
      /\ IsFalse(x)
      /\ IF a # 0
         THEN /\ proof' = Log(proof, db[a].id, Assumed(Antecedents(a), UnitSteps(Antecedents(a))).steps)
              /\ conflict' = Assumed(Antecedents(a), <<>>).conflict \cup {-x}
              /\ Answer("UNSAT", {})
         ELSE /\ conflict' = {-x}
              /\ UNCHANGED proof
              /\ IF session.logged /\ unit_id[Var(x)] = 0
                 THEN pc' = "assert" /\ UNCHANGED answers ELSE Answer("UNSAT", {})
      /\ cancelUntil(0)
      /\ UNCHANGED <<session, given, ok, db, watches, unit_id, simpDB_assigns, deletions,
                     propagation, root_level, counters>>

\* The assumptions, with what they imply, contradict the clauses.
AssumeConflict ==
  LET final == analyzeFinal(confl, db[confl].lits)
  IN  /\ At("assume")
      /\ confl # 0
      /\ proof' = final.log
      /\ conflict' = final.conflict
      /\ IF final.conflict # {} THEN Answer("UNSAT", {}) ELSE pc' = "assert" /\ UNCHANGED answers
      /\ confl' = 0
      /\ cancelUntil(0)
      /\ UNCHANGED <<session, given, ok, db, watches, unit_id, simpDB_assigns, deletions, todo,
                     root_level, counters>>

StartSearch ==
  /\ At("assume")
  /\ confl = 0
  /\ decisionLevel = root_level
  /\ pc' = "search"
  /\ UNCHANGED <<session, given, answers, memory, assignment, propagation, root_level, counters,
                 conflict>>

\* search: a conflict at the root level.
SearchConflict ==
  LET final == analyzeFinal(confl, db[confl].lits)
  IN  /\ At("search")
      /\ confl # 0
      /\ decisionLevel = root_level
      /\ proof' = final.log
      /\ conflict' = final.conflict
      /\ confl' = 0
      /\ Answer("UNSAT", {})
      /\ cancelUntil(0)
      /\ UNCHANGED <<session, given, ok, db, watches, unit_id, simpDB_assigns, deletions, todo,
                     root_level, counters>>

\* nof_conflicts, which grows by half with each restart.
NofConflicts == (FirstNofConflicts * 3^restarts) \div 2^restarts

\* search with no conflict, before a decision.
Ready == At("search") /\ confl = 0

Restart ==
  /\ Ready
  /\ conflictC >= NofConflicts
  /\ cancelUntil(root_level)
  /\ conflictC' = 0
  /\ restarts' = restarts + 1
  /\ UNCHANGED <<session, given, answers, memory, propagation, root_level, nof_learnts, conflict,
                 pc>>

SearchSimplify ==
  /\ Ready
  /\ conflictC < NofConflicts
  /\ decisionLevel = 0
  /\ Simplify("simplified")
  /\ UNCHANGED <<session, given, answers, assignment, propagation, root_level, counters,
                 conflict>>

\* Where search decides whether to drop learnt clauses.
Tidy ==
  \/ pc = "simplified"
  \/ Ready /\ conflictC < NofConflicts /\ decisionLevel > 0

Learnts == {a \in DOMAIN db : db[a].learnt}

\* nof_learnts, which starts at a third of the clauses, grows by a tenth.
TooManyLearnts ==
  Cardinality(Learnts) - Len(trail) >= (nof_learnts * 11^restarts) \div 10^restarts

(***************************************************************************)
(* reduceDB: drop learnt clauses that are neither binary nor locked; all   *)
(* those in the less active half of the list, whatever the activities are. *)
(***************************************************************************)
ReduceDB ==
  LET long == {a \in Learnts : Cardinality(db[a].lits) > 2}
      kept == {a \in long : locked(a)}
      half == Cardinality(Learnts) \div 2
  IN  /\ Tidy
      /\ TooManyLearnts
      /\ \E dropped \in SUBSET (long \ kept) :
           /\ Cardinality(dropped \cup kept) >= Min({half, Cardinality(long)})
           /\ Drop(dropped, watches)
           /\ pc' = IF \A a \in dropped : Removable(watches, a) THEN "decide" ELSE "assert"
      /\ UNCHANGED <<session, given, answers, ok, unit_id, simpDB_assigns, proof, assignment,
                     propagation, root_level, counters, conflict>>

\* VarOrder::select: any free variable, as long as the heap is not empty.
Selectable == IF order = {} THEN {} ELSE {v \in Variable : IsUndef(v)}

Deciding == \/ Tidy /\ ~TooManyLearnts
            \/ pc = "decide"

\* The variables met on top of the heap leave it, here with all that have a
\* value already: the code skips the others when they get to the top.
Decide ==
  /\ Deciding
  /\ \E v \in Selectable :
       /\ order' = {u \in order \ {v} : IsUndef(u)}
       /\ trail_lim' = Append(trail_lim, Len(trail))
       /\ trail' = Append(trail, -v)
       /\ reason' = [reason EXCEPT ![v] = 0]
       /\ level' = [level EXCEPT ![v] = decisionLevel + 1]
  /\ pc' = "search"
  /\ UNCHANGED <<session, given, answers, memory, qhead, propagation, root_level, counters,
                 conflict>>

\* var_Undef: no variable of the heap is free.
FindModel ==
  /\ Deciding
  /\ {v \in order : IsUndef(v)} = {}
  /\ Answer("SAT", ToSet(trail))
  /\ cancelUntil(0)
  /\ UNCHANGED <<session, given, memory, propagation, root_level, counters, conflict>>

Propagate == TakeNext \/ VisitSatisfied \/ VisitNewWatch \/ VisitUnit

\* All clauses are added and all queries answered.
Over == /\ pc = "idle"
        /\ given = Len(session.clauses)
        /\ Len(answers) = Len(session.queries)

Terminating == Over /\ UNCHANGED vars

Next == \/ AddClause \/ Solve \/ Propagate
        \/ SimplifyConflict \/ SimplifyDB
        \/ Assume \/ AssumeFalse \/ AssumeConflict \/ StartSearch
        \/ Learn \/ SearchConflict \/ Restart \/ SearchSimplify \/ ReduceDB
        \/ Decide \/ FindModel
        \/ Terminating

Spec == Init /\ [][Next]_vars

(***************************************************************************)
(* The program runs on until the session is over.  This is WF_vars(Next),  *)
(* as a step is possible until then: TLC checks that by looking for        *)
(* deadlocks, and need not evaluate ENABLED of the whole of analyze.       *)
(***************************************************************************)
FairSpec == Spec /\ ([]<>Over \/ []<><<Next>>_vars)

-----------------------------------------------------------------------------
TypeOK ==
  /\ session \in Session
  /\ given \in 0 .. Len(session.clauses)
  /\ Len(answers) <= Len(session.queries)
  /\ ok \in BOOLEAN
  /\ \A a \in DOMAIN db :
       /\ db[a].lits \subseteq Literal /\ Cardinality(db[a].lits) > 1
       /\ {db[a].first, db[a].second} \subseteq db[a].lits /\ db[a].first # db[a].second
       /\ db[a].id \in IF session.logged THEN 1 .. LastId(proof) ELSE {0}
  /\ trail \in Seq(Literal)
  /\ \A i, j \in DOMAIN trail : i # j => Var(trail[i]) # Var(trail[j])
  /\ trail_lim \in Seq(0 .. Len(trail))
  /\ \A i, j \in DOMAIN trail_lim : i < j => trail_lim[i] <= trail_lim[j]
  /\ level \in [Variable -> -1 .. session.vars]
  /\ qhead \in 0 .. Len(trail)
  /\ root_level \in Nat
  /\ order \subseteq Variable
  /\ unit_id \in [Variable -> 0 .. LastId(proof)]
  /\ simpDB_assigns \in 0 .. Len(trail)
  /\ {conflictC, restarts, nof_learnts} \subseteq Nat
  /\ pc \in {"idle", "simplifyDB", "assume", "search", "simplified", "decide", "assert"}

(***************************************************************************)
(* None of the assertions met on the way fails: those of removeWatch, of   *)
(* propagate about unit_id, and of solve about the final conflict.         *)
(***************************************************************************)
AssertsHold == pc # "assert"

(***************************************************************************)
(* No freed clause is used: what the watcher lists and the propagation     *)
(* under way point to is in memory and watches the literal.                *)
(***************************************************************************)
NoDanglingClause ==
  /\ todo \cup ({confl} \ {0}) \subseteq DOMAIN db
  /\ \A x \in Literal : \A a \in watches[x] :
       a \in DOMAIN db /\ -x \in {db[a].first, db[a].second}

(***************************************************************************)
(* An implied literal heads the clause that implied it, which is still in  *)
(* memory and whose other literals were false before: what analyze,        *)
(* analyzeFinal and locked take for granted, while propagation goes on     *)
(* swapping the literals of the clauses.                                   *)
(***************************************************************************)
ReasonsHold ==
  \A v \in Variable : reason[v] # 0 =>
    reason[v] \in DOMAIN db /\ \E n \in DOMAIN trail :
      /\ Var(trail[n]) = v
      /\ db[reason[v]].first = trail[n]
      /\ \A x \in Antecedents(reason[v]) : \E m \in 1 .. n - 1 : trail[m] = -x

(***************************************************************************)
(* When propagation ends with no conflict no clause is false or unit,      *)
(* whichever watchers were moved, cleared or left behind by backtracking.  *)
(***************************************************************************)
NothingMissed ==
  (~Propagating /\ confl = 0 /\ pc \notin {"idle", "assert"}) =>
    \A a \in DOMAIN db :
      \/ \E x \in db[a].lits : IsTrue(x)
      \/ Cardinality({x \in db[a].lits : ~IsFalse(x)}) > 1

\* The formula of the clauses added so far, and the valuations that satisfy it.
Formula == {session.clauses[n] : n \in 1 .. given}

FormulaModels == {v \in [Variable -> BOOLEAN] : SatisfiesAll(v, Formula)}

(***************************************************************************)
(* What the solver has in memory follows from the clauses it was given,    *)
(* and not from assumptions that are taken back later: the clauses, and    *)
(* the literals that it takes for top-level facts.                         *)
(***************************************************************************)
ClausesFollow ==
  \A v \in FormulaModels :
    /\ ok
    /\ \A a \in DOMAIN db : Satisfies(v, db[a].lits)
    /\ \A x \in ToSet(trail) : AtTop(Var(x)) => True(v, x)

(***************************************************************************)
(* The final conflict (analyzeFinal: "This code is relatively untested")   *)
(* is about assumptions of the query, and follows from the clauses.        *)
(***************************************************************************)
ConflictExplains ==
  (pc = "idle" /\ ok /\ answers # <<>> /\ Last(answers).result = "UNSAT") =>
    /\ conflict \subseteq {-x : x \in ToSet(session.queries[Len(answers)])}
    /\ \A v \in FormulaModels : Satisfies(v, conflict)

(***************************************************************************)
(* Every chain of the log is right when it is written, a tautology on the  *)
(* way included, and the ids kept with the clauses and the units are those *)
(* of the clauses derived.                                                 *)
(***************************************************************************)
ProofSound ==
  session.logged =>
    /\ \A n \in DOMAIN proof :
         IF proof[n].kind = "root" THEN proof[n].clause \in Formula
         ELSE RightChain(SubSeq(proof, 1, n - 1), proof[n].start, proof[n].steps)
    /\ \A a \in DOMAIN db : ClauseOf(proof, db[a].id) = db[a].lits
    /\ \A x \in ToSet(trail) :
         AtTop(Var(x)) => unit_id[Var(x)] # 0 /\ ClauseOf(proof, unit_id[Var(x)]) = {x}

\* The solver keeps its promise: right answers, and one for every query.
Oracle == INSTANCE SatSession WITH
  Session <- Session, session <- session, given <- given, answers <- answers
=============================================================================
