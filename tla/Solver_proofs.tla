---------------------------- MODULE Solver_proofs ----------------------------
(***************************************************************************)
(* The solver uses no clause that was freed, knows why each literal is     *)
(* implied, learns nothing that does not follow from the clauses it was    *)
(* given, and explains a contradiction by assumptions that are at fault:   *)
(* for all clauses, queries and choices.                                   *)
(***************************************************************************)
EXTENDS Solver, FiniteSetTheorems, SequenceTheorems, WellFoundedInduction, TLAPS

LEMMA LeastMember ==
  ASSUME NEW T \in SUBSET Nat, T # {}
  PROVE  \E m \in T : \A n \in T : m <= n
<1> DEFINE I == {0 .. n : n \in T}
<1>1. I \subseteq FiniteSubsetsOf(Nat) /\ I # {}
  <2>1. ASSUME NEW n \in T PROVE IsFiniteSet(0 .. n) /\ 0 .. n \subseteq Nat
    BY FS_Interval
  <2>2. QED
    BY <2>1 DEF FiniteSubsetsOf
<1>2. \E x \in I : \A y \in I : ~(<<y, x>> \in StrictSubsetOrdering(Nat))
  BY <1>1, FS_StrictSubsetOrderingWellFounded, WFMin
<1>3. PICK m \in T : \A n \in T : ~(<<0 .. n, 0 .. m>> \in StrictSubsetOrdering(Nat))
  BY <1>2
<1>4. ASSUME NEW n \in T PROVE m <= n
  <2>1. SUFFICES ASSUME n < m PROVE FALSE
    OBVIOUS
  <2>2. 0 .. n \subseteq 0 .. m /\ m \in 0 .. m /\ m \notin 0 .. n
    BY <2>1
  <2>3. <<0 .. n, 0 .. m>> \in (SUBSET Nat) \X (SUBSET Nat)
    OBVIOUS
  <2>4. QED
    BY <1>3, <2>2, <2>3 DEF StrictSubsetOrdering
<1>5. QED
  BY <1>4

LEMMA GreatestMember ==
  ASSUME NEW T \in SUBSET Nat, T # {}, NEW n \in Nat, \A t \in T : t <= n
  PROVE  Max(T) \in T /\ \A t \in T : t <= Max(T)
<1> DEFINE U == {m \in Nat : \A t \in T : t <= m}
<1>1. PICK m \in U : \A u \in U : m <= u
  <2>1. U \in SUBSET Nat /\ U # {}
    OBVIOUS
  <2> HIDE DEF U
  <2>2. QED
    BY <2>1, LeastMember
<1>2. m \in T
  <2>1. SUFFICES ASSUME m \notin T PROVE FALSE
    OBVIOUS
  <2>2. m # 0
    <3>1. PICK t \in T : t <= m
      BY <1>1
    <3>2. QED
      BY <2>1, <3>1
  <2>3. m - 1 \in U
    BY <2>1, <2>2
  <2>4. QED
    BY <1>1, <2>3
<1>3. QED
  BY <1>1, <1>2 DEF Max

-----------------------------------------------------------------------------
\* A literal, its negation and their variable.
LEMMA LiteralFacts ==
  ASSUME session \in Session
  PROVE  /\ \A x \in Literal : /\ x \in Int /\ x # 0 /\ -x \in Literal /\ -(-x) = x /\ -x # x
                               /\ Var(x) \in Variable /\ Var(-x) = Var(x)
         /\ \A x, y \in Literal : Var(x) = Var(y) => x = y \/ x = -y
         /\ \A v \in Variable : v \in Literal /\ -v \in Literal /\ Var(v) = v /\ Var(-v) = v
         /\ Variable \subseteq Nat \ {0}
         /\ Literal = {-x : x \in Literal}
<1>1. session.vars \in Nat
  BY SessionAssumption
<1>2. QED
  BY <1>1 DEF Literal, Variable, Var

\* A literal is true where its negation is false.
LEMMA TrueFacts ==
  ASSUME session \in Session, NEW v \in [Variable -> BOOLEAN], NEW x \in Literal
  PROVE  True(v, -x) <=> ~True(v, x)
<1>1. session.vars \in Nat
  BY SessionAssumption
<1>2. QED
  BY <1>1 DEF Literal, Variable, True

\* The clauses of the session and the literals of its queries.
LEMMA CallFacts ==
  ASSUME session \in Session
  PROVE  /\ Len(session.clauses) \in Nat /\ DOMAIN session.clauses = 1 .. Len(session.clauses)
         /\ \A n \in 1 .. Len(session.clauses) :
              session.clauses[n] \subseteq Literal /\ session.clauses[n] # {}
         /\ Len(session.queries) \in Nat /\ DOMAIN session.queries = 1 .. Len(session.queries)
         /\ \A n \in 1 .. Len(session.queries) :
              /\ Len(session.queries[n]) \in Nat
              /\ DOMAIN session.queries[n] = 1 .. Len(session.queries[n])
              /\ \A i \in DOMAIN session.queries[n] : session.queries[n][i] \in Literal
<1>1. session.vars \in Nat
  BY SessionAssumption
<1>2. session.clauses \in Seq(SUBSET Int) /\ session.queries \in Seq(Seq(Int))
  BY SessionAssumption
<1>3. \A n \in 1 .. Len(session.queries) : session.queries[n] \in Seq(Int)
  BY <1>2
<1>4. \A x \in Int : x # 0 /\ -session.vars <= x /\ x <= session.vars => x \in Literal
  BY <1>1 DEF Literal, Variable
<1>5. \A c : IsClause(c, session.vars) => c \subseteq Literal
  BY <1>4 DEF IsClause
<1>6. \A n \in 1 .. Len(session.clauses) :
        session.clauses[n] \subseteq Literal /\ session.clauses[n] # {}
  BY <1>2, <1>5, SessionAssumption
<1>7. \A n \in 1 .. Len(session.queries) : ToSet(session.queries[n]) \subseteq Literal
  BY <1>2, <1>5, SessionAssumption
<1>8. QED
  BY <1>2, <1>3, <1>6, <1>7 DEF ToSet

\* The literal that comes first.
LEMMA FirstMember ==
  ASSUME session \in Session, NEW c \in SUBSET Literal, c # {}
  PROVE  First(c) \in c
<1> DEFINE T == {Var(x) : x \in c}
<1>1. T \in SUBSET Nat /\ T # {}
  BY LiteralFacts
<1>2. PICK m \in T : \A n \in T : m <= n
  BY <1>1, LeastMember
<1>3. \E x \in c : \A y \in c : Var(x) <= Var(y)
  BY <1>2
<1>4. QED
  BY <1>3 DEF First

\* xmalloc returns an address that is free.
LEMMA AddressIsFree ==
  ASSUME IsFiniteSet(DOMAIN db)
  PROVE  Address \in Nat \ {0} /\ Address \notin DOMAIN db
<1> DEFINE n == Cardinality(DOMAIN db)
<1>1. n \in Nat
  BY FS_CardinalityType
<1>2. \E a \in 1 .. n + 1 : a \notin DOMAIN db
  <2>1. SUFFICES ASSUME 1 .. n + 1 \subseteq DOMAIN db PROVE FALSE
    OBVIOUS
  <2>2. Cardinality(1 .. n + 1) = n + 1
    BY <1>1, FS_Interval
  <2>3. Cardinality(1 .. n + 1) <= n
    BY <2>1, FS_Subset
  <2>4. QED
    BY <1>1, <2>2, <2>3
<1>3. QED
  BY <1>1, <1>2 DEF Address
-----------------------------------------------------------------------------
(***************************************************************************)
(* The inductive invariant, in parts.  First the calls: what is asked, and *)
(* at which point of the session each method runs.                         *)
(***************************************************************************)
InQuery == pc \in {"assume", "search", "simplified", "decide"}

Calls ==
  /\ session \in Session
  /\ given \in 0 .. Len(session.clauses)
  /\ Len(answers) \in Nat
  /\ answers # <<>> \/ pc # "idle" => given = Len(session.clauses)
  /\ pc = "simplifyDB" \/ InQuery => Len(answers) + 1 \in DOMAIN session.queries
  /\ InQuery => root_level = Len(assumps)
  /\ pc \in {"idle", "simplifyDB"} => decisionLevel = 0
  /\ pc = "assume" => decisionLevel <= root_level
  /\ pc \in {"search", "simplified", "decide"} => root_level <= decisionLevel

\* The clauses in memory, and who watches what.
Memory ==
  /\ IsFiniteSet(DOMAIN db)
  /\ DOMAIN db \subseteq Nat \ {0}
  /\ \A a \in DOMAIN db :
       /\ db[a] = Clause(db[a].learnt, db[a].first, db[a].second, db[a].lits, db[a].id)
       /\ db[a].lits \subseteq Literal
       /\ db[a].first \in db[a].lits
       /\ db[a].second \in db[a].lits
  /\ watches \in [Literal -> SUBSET DOMAIN db]
  /\ \A x \in Literal : \A a \in watches[x] : -x \in {db[a].first, db[a].second}

(***************************************************************************)
(* The assignment, for any trail t that the decisions lim divide, levels,  *)
(* reasons and clauses: a method may go back and go on in one step.        *)
(***************************************************************************)
Divided(t, lim) ==
  /\ t \in Seq(Literal)
  /\ \A i, j \in DOMAIN t : Var(t[i]) = Var(t[j]) => i = j
  /\ lim \in Seq(Nat)
  /\ \A k \in DOMAIN lim : lim[k] <= Len(t)
  /\ \A j, k \in DOMAIN lim : j <= k => lim[j] <= lim[k]

(***************************************************************************)
(* A level says between which decisions a literal is, but for facts that   *)
(* were learnt under assumptions: they have level 0, and are never above   *)
(* the assumptions.                                                        *)
(***************************************************************************)
Levelled(t, lim, lev, root) ==
  /\ root \in Nat
  /\ lev \in [Variable -> Int]
  /\ \A n \in DOMAIN t : LET L == lev[Var(t[n])] IN
       /\ L \in 0 .. Len(lim)
       /\ L # 0 => \A k \in DOMAIN lim : lim[k] < n <=> k <= L
       /\ L = 0 /\ Len(lim) > root => n <= lim[root + 1]

Others(c) == c.lits \ {c.first}

\* The clause at a makes the n-th literal true, the others being false before.
Implies(t, d, a, n) ==
  /\ a \in DOMAIN d
  /\ d[a].first = t[n]
  /\ \A x \in Others(d[a]) : \E m \in 1 .. n - 1 : t[m] = -x

AtLevel(lev, d, a, L) == \E x \in Others(d[a]) : lev[Var(x)] = L

(***************************************************************************)
(* What has a reason is on the trail, heads it and follows from it; above  *)
(* the assumptions also from its own level.  What has none is a fact, or   *)
(* the decision that opens a level, up to root an assumption.              *)
(***************************************************************************)
Reasoned(t, lim, lev, rsn, d, root, as) ==
  /\ rsn \in [Variable -> Nat]
  /\ \A v \in Variable : rsn[v] # 0 => \E n \in DOMAIN t : Var(t[n]) = v
  /\ \A n \in DOMAIN t : LET L == lev[Var(t[n])]
                             a == rsn[Var(t[n])]
                         IN
       /\ a # 0 => Implies(t, d, a, n)
       /\ a # 0 /\ L > root => AtLevel(lev, d, a, L)
       /\ a = 0 /\ L # 0 => /\ n = lim[L] + 1
                            /\ L <= root => t[n] \in ToSet(as)

Consistent(t, lim, lev, rsn, d, root, as) ==
  /\ Divided(t, lim)
  /\ Levelled(t, lim, lev, root)
  /\ Reasoned(t, lim, lev, rsn, d, root, as)

Assigned == Consistent(trail, trail_lim, level, reason, db, root_level, assumps)

LevelOf(n) == level[Var(trail[n])]

(***************************************************************************)
(* All before the last decision was propagated.  The clauses still to      *)
(* visit watch the literal; a conflict is a false clause about something   *)
(* propagated since.                                                       *)
(***************************************************************************)
Queue ==
  /\ qhead \in 0 .. Len(trail)
  /\ \A k \in DOMAIN trail_lim : trail_lim[k] <= qhead
  /\ todo # {} => /\ confl = 0
                  /\ qhead >= 1
                  /\ todo \subseteq watches[trail[qhead]]
                  /\ \A k \in DOMAIN trail_lim : trail_lim[k] < qhead
  /\ confl # 0 => /\ confl \in DOMAIN db
                  /\ qhead = Len(trail)
                  /\ \A x \in db[confl].lits : IsFalse(x)
                  /\ \E n \in DOMAIN trail : /\ -trail[n] \in db[confl].lits
                                            /\ \A k \in DOMAIN trail_lim : trail_lim[k] < n
                  /\ decisionLevel = 0 => ~ok
  /\ pc \in {"idle", "simplified", "decide"} => todo = {} /\ confl = 0
  /\ pc \in {"simplified", "decide"} => qhead = Len(trail)

IInv ==
  /\ Calls
  /\ Memory
  /\ Assigned
  /\ Queue
  /\ ClausesFollow
  /\ ConflictExplains

-----------------------------------------------------------------------------
(***************************************************************************)
(* What the methods do to an assignment.  A variable without a value gets  *)
(* one.                                                                    *)
(***************************************************************************)
Enqueueable(t, lim, lev, d, root, as, x, L, a) ==
  /\ \A n \in DOMAIN t : Var(t[n]) # Var(x)
  /\ L \in 0 .. Len(lim)
  /\ L = Len(lim) \/ (L = 0 /\ Len(lim) <= root)
  /\ a # 0 => /\ a \in DOMAIN d
              /\ d[a].first = x
              /\ \A y \in Others(d[a]) : \E m \in DOMAIN t : t[m] = -y
              /\ L > root => AtLevel(lev, d, a, L)
  /\ a = 0 /\ L # 0 => /\ Len(t) = lim[L]
                       /\ L <= root => x \in ToSet(as)

LEMMA Enqueued ==
  ASSUME session \in Session,
         NEW t, NEW lim, NEW lev, NEW rsn, NEW d, NEW root, NEW as,
         Consistent(t, lim, lev, rsn, d, root, as),
         \A b \in DOMAIN d : d[b].lits \subseteq Literal,
         NEW x \in Literal, NEW L, NEW a \in Nat,
         Enqueueable(t, lim, lev, d, root, as, x, L, a)
  PROVE  Consistent(Append(t, x), lim, [lev EXCEPT ![Var(x)] = L], [rsn EXCEPT ![Var(x)] = a],
                    d, root, as)
<1> DEFINE N    == Len(t)
           u    == Append(t, x)
           lev2 == [lev EXCEPT ![Var(x)] = L]
           rsn2 == [rsn EXCEPT ![Var(x)] = a]
<1>1. Divided(t, lim) /\ Levelled(t, lim, lev, root) /\ Reasoned(t, lim, lev, rsn, d, root, as)
  BY DEF Consistent
<1>2. /\ N \in Nat /\ DOMAIN t = 1 .. N /\ DOMAIN u = 1 .. N + 1 /\ Len(u) = N + 1
      /\ u \in Seq(Literal)
      /\ \A n \in DOMAIN t : u[n] = t[n]
      /\ u[N + 1] = x
      /\ \A n \in DOMAIN u : n \in DOMAIN t \/ n = N + 1
  BY <1>1 DEF Divided
<1>3. Len(lim) \in Nat /\ DOMAIN lim = 1 .. Len(lim) /\ \A k \in DOMAIN lim : lim[k] \in Nat /\ lim[k] <= N
  BY <1>1 DEF Divided
<1>4. Var(x) \in Variable /\ root \in Nat /\ L \in 0 .. Len(lim) /\ L \in Int
  <2>1. L \in 0 .. Len(lim)
    BY DEF Enqueueable
  <2>2. QED
    BY <1>1, <1>3, <2>1, LiteralFacts DEF Levelled
<1>5. /\ lev2 \in [Variable -> Int] /\ lev2[Var(x)] = L
      /\ \A v \in Variable : v # Var(x) => lev2[v] = lev[v]
  BY <1>1, <1>4 DEF Levelled
<1>6. /\ rsn2 \in [Variable -> Nat] /\ rsn2[Var(x)] = a
      /\ \A v \in Variable : v # Var(x) => rsn2[v] = rsn[v]
  BY <1>1, <1>4 DEF Reasoned
<1>7. \A n \in DOMAIN t : t[n] \in Literal /\ Var(t[n]) \in Variable
  <2>1. \A n \in DOMAIN t : t[n] \in Literal
    BY <1>1 DEF Divided
  <2>2. QED
    BY <2>1, LiteralFacts
<1> HIDE DEF N, u, lev2, rsn2
<1>8. \A n \in DOMAIN t : lev2[Var(u[n])] = lev[Var(t[n])] /\ rsn2[Var(u[n])] = rsn[Var(t[n])]
  BY <1>2, <1>5, <1>6, <1>7 DEF Enqueueable
<1>9. Divided(u, lim)
  <2>1. ASSUME NEW i \in DOMAIN u, NEW j \in DOMAIN u, Var(u[i]) = Var(u[j])
        PROVE  i = j
    <3>0. \A n \in DOMAIN t : Var(t[n]) # Var(x)
      BY DEF Enqueueable
    <3>1. i \in DOMAIN t /\ j \in DOMAIN t => i = j
      BY <1>1, <1>2, <2>1 DEF Divided
    <3>2. i \in DOMAIN t => j \in DOMAIN t
      BY <1>2, <2>1, <3>0
    <3>3. j \in DOMAIN t => i \in DOMAIN t
      BY <1>2, <2>1, <3>0
    <3>4. QED
      BY <1>2, <3>1, <3>2, <3>3
  <2>2. \A k \in DOMAIN lim : lim[k] <= Len(u)
    <3>1. N \in Nat /\ Len(u) = N + 1
      BY <1>2
    <3>2. QED
      BY <1>3, <3>1
  <2>3. QED
    BY <1>1, <1>2, <2>1, <2>2 DEF Divided
<1>10. Levelled(u, lim, lev2, root)
  <2>1. SUFFICES ASSUME NEW n \in DOMAIN u
                 PROVE  LET K == lev2[Var(u[n])] IN
                          /\ K \in 0 .. Len(lim)
                          /\ K # 0 => \A k \in DOMAIN lim : lim[k] < n <=> k <= K
                          /\ K = 0 /\ Len(lim) > root => n <= lim[root + 1]
    BY <1>4, <1>5 DEF Levelled
  <2>2. CASE n \in DOMAIN t
    BY <1>1, <1>8, <2>2 DEF Levelled
  <2>3. CASE n = N + 1
    <3>1. lev2[Var(u[n])] = L
      BY <1>2, <1>5, <2>3
    <3>2. \A k \in DOMAIN lim : lim[k] < n
      <4>1. ASSUME NEW k \in DOMAIN lim PROVE lim[k] < N + 1
        <5>1. lim[k] \in Nat /\ lim[k] <= N
          BY <1>3
        <5>2. QED
          BY <1>2, <5>1
      <4>2. QED
        BY <2>3, <4>1
    <3>2a. L = Len(lim) \/ (L = 0 /\ Len(lim) <= root)
      BY DEF Enqueueable
    <3>3. ASSUME L # 0, NEW k \in DOMAIN lim PROVE lim[k] < n /\ k <= L
      <4>1. L = Len(lim) /\ k \in 1 .. Len(lim)
        BY <1>3, <3>2a, <3>3
      <4>2. QED
        BY <3>2, <3>3, <4>1
    <3>4. ~(L = 0 /\ Len(lim) > root)
      <4>1. Len(lim) \in Nat /\ root \in Nat
        BY <1>3, <1>4
      <4>2. QED
        BY <3>2a, <4>1
    <3>5. QED
      BY <1>4, <3>1, <3>3, <3>4
  <2>4. QED
    BY <1>2, <2>2, <2>3
<1>11. \A n \in DOMAIN t : rsn[Var(t[n])] # 0 =>
         \A y \in Others(d[rsn[Var(t[n])]]) : lev2[Var(y)] = lev[Var(y)]
  <2>1. SUFFICES ASSUME NEW n \in DOMAIN t, rsn[Var(t[n])] # 0,
                        NEW y \in Others(d[rsn[Var(t[n])]])
                 PROVE  lev2[Var(y)] = lev[Var(y)]
    OBVIOUS
  <2>2. PICK m \in 1 .. n - 1 : t[m] = -y
    BY <1>1, <2>1 DEF Reasoned, Implies
  <2>3. m \in DOMAIN t
    BY <1>2
  <2>4. y \in Literal
    BY <1>1, <2>1 DEF Reasoned, Implies, Others
  <2>5. Var(y) = Var(t[m])
    BY <2>2, <2>4, LiteralFacts
  <2>6. QED
    BY <1>5, <1>7, <2>3, <2>5 DEF Enqueueable
<1>12. Reasoned(u, lim, lev2, rsn2, d, root, as)
  <2>1. \A v \in Variable : rsn2[v] # 0 => \E n \in DOMAIN u : Var(u[n]) = v
    BY <1>1, <1>2, <1>6 DEF Reasoned
  <2>2. ASSUME NEW n \in DOMAIN u
        PROVE  LET K == lev2[Var(u[n])]
                   b == rsn2[Var(u[n])]
               IN
               /\ b # 0 => Implies(u, d, b, n)
               /\ b # 0 /\ K > root => AtLevel(lev2, d, b, K)
               /\ b = 0 /\ K # 0 => /\ n = lim[K] + 1
                                    /\ K <= root => u[n] \in ToSet(as)
    <3>1. CASE n \in DOMAIN t
      <4> DEFINE K == lev[Var(t[n])]
                 b == rsn[Var(t[n])]
      <4>1. lev2[Var(u[n])] = K /\ rsn2[Var(u[n])] = b /\ u[n] = t[n]
        BY <1>2, <1>8, <3>1
      <4>2. /\ b # 0 => Implies(t, d, b, n)
            /\ b # 0 /\ K > root => AtLevel(lev, d, b, K)
            /\ b = 0 /\ K # 0 => /\ n = lim[K] + 1
                                 /\ K <= root => t[n] \in ToSet(as)
        BY <1>1, <3>1 DEF Reasoned
      <4>3. \A m \in 1 .. n - 1 : m \in DOMAIN t
        BY <1>2, <3>1
      <4>4. b # 0 => \A y \in Others(d[b]) : lev2[Var(y)] = lev[Var(y)]
        BY <1>11, <3>1
      <4> HIDE DEF K, b
      <4>5. b # 0 => Implies(u, d, b, n)
        BY <1>2, <4>1, <4>2, <4>3 DEF Implies
      <4>6. b # 0 /\ K > root => AtLevel(lev2, d, b, K)
        BY <4>2, <4>4 DEF AtLevel
      <4>7. QED
        BY <4>1, <4>2, <4>5, <4>6
    <3>2. CASE n = N + 1
      <4>1. u[n] = x /\ lev2[Var(u[n])] = L /\ rsn2[Var(u[n])] = a
        BY <1>2, <1>5, <1>6, <3>2
      <4>2. a # 0 => Implies(u, d, a, n)
        BY <1>2, <3>2 DEF Implies, Enqueueable
      <4>3. a # 0 /\ L > root => AtLevel(lev2, d, a, L)
        <5>1. SUFFICES ASSUME a # 0, NEW y \in Others(d[a]) PROVE lev2[Var(y)] = lev[Var(y)]
          BY DEF AtLevel, Enqueueable
        <5>2. PICK m \in DOMAIN t : t[m] = -y
          BY <5>1 DEF Enqueueable
        <5>3. y \in Literal
          BY <5>1 DEF Others, Enqueueable
        <5>4. QED
          BY <1>5, <1>7, <5>2, <5>3, LiteralFacts DEF Enqueueable
      <4>4. QED
        BY <3>2, <4>1, <4>2, <4>3 DEF N, Enqueueable
    <3>3. QED
      BY <1>2, <3>1, <3>2
  <2>3. QED
    BY <1>6, <2>1, <2>2 DEF Reasoned
<1>13. QED
  BY <1>9, <1>10, <1>12 DEF Consistent, u, lev2, rsn2

\* A level is opened.
LEMMA Opened ==
  ASSUME NEW t, NEW lim, NEW lev, NEW rsn, NEW d, NEW root, NEW as,
         Consistent(t, lim, lev, rsn, d, root, as)
  PROVE  Consistent(t, Append(lim, Len(t)), lev, rsn, d, root, as)
<1> DEFINE lim2 == Append(lim, Len(t))
<1>1. Divided(t, lim) /\ Levelled(t, lim, lev, root) /\ Reasoned(t, lim, lev, rsn, d, root, as)
  BY DEF Consistent
<1>2. /\ Len(t) \in Nat /\ DOMAIN t = 1 .. Len(t)
      /\ Len(lim) \in Nat /\ DOMAIN lim = 1 .. Len(lim)
      /\ lim2 \in Seq(Nat) /\ Len(lim2) = Len(lim) + 1 /\ DOMAIN lim2 = 1 .. Len(lim) + 1
      /\ \A k \in DOMAIN lim : lim2[k] = lim[k] /\ lim[k] \in Nat /\ lim[k] <= Len(t)
      /\ lim2[Len(lim) + 1] = Len(t)
      /\ \A k \in DOMAIN lim2 : k \in DOMAIN lim \/ k = Len(lim) + 1
  BY <1>1 DEF Divided
<1> HIDE DEF lim2
<1>3. Divided(t, lim2)
  <2>1. \A k \in DOMAIN lim2 : lim2[k] <= Len(t)
    BY <1>2
  <2>2. ASSUME NEW j \in DOMAIN lim2, NEW k \in DOMAIN lim2, j <= k PROVE lim2[j] <= lim2[k]
    <3>1. CASE k \in DOMAIN lim
      <4>1. j \in DOMAIN lim
        BY <1>2, <2>2, <3>1
      <4>2. lim[j] <= lim[k]
        BY <1>1, <2>2, <3>1, <4>1 DEF Divided
      <4>3. QED
        BY <1>2, <3>1, <4>1, <4>2
    <3>2. CASE k = Len(lim) + 1
      BY <1>2, <2>1, <3>2
    <3>3. QED
      BY <1>2, <3>1, <3>2
  <2>3. QED
    BY <1>1, <1>2, <2>1, <2>2 DEF Divided
<1>4. Levelled(t, lim2, lev, root)
  <2>1. root \in Nat /\ lev \in [Variable -> Int]
    BY <1>1 DEF Levelled
  <2>2. ASSUME NEW n \in DOMAIN t
        PROVE  LET L == lev[Var(t[n])] IN
                 /\ L \in 0 .. Len(lim2)
                 /\ L # 0 => \A k \in DOMAIN lim2 : lim2[k] < n <=> k <= L
                 /\ L = 0 /\ Len(lim2) > root => n <= lim2[root + 1]
    <3> DEFINE L == lev[Var(t[n])]
    <3>1. /\ L \in 0 .. Len(lim)
          /\ L # 0 => \A k \in DOMAIN lim : lim[k] < n <=> k <= L
          /\ L = 0 /\ Len(lim) > root => n <= lim[root + 1]
      BY <1>1 DEF Levelled
    <3> HIDE DEF L
    <3>2. L # 0 => \A k \in DOMAIN lim2 : lim2[k] < n <=> k <= L
      <4>1. SUFFICES ASSUME L # 0, NEW k \in DOMAIN lim2 PROVE lim2[k] < n <=> k <= L
        OBVIOUS
      <4>2. CASE k \in DOMAIN lim
        BY <1>2, <3>1, <4>1, <4>2
      <4>3. CASE k = Len(lim) + 1
        <5>1. ~(Len(t) < n) /\ ~(k <= L)
          BY <1>2, <3>1, <4>3
        <5>2. QED
          BY <1>2, <4>3, <5>1
      <4>4. QED
        BY <1>2, <4>2, <4>3
    <3>3. L = 0 /\ Len(lim2) > root => n <= lim2[root + 1]
      BY <1>2, <2>1, <3>1
    <3>4. QED
      BY <1>2, <3>1, <3>2, <3>3 DEF L
  <2>3. QED
    BY <2>1, <2>2 DEF Levelled
<1>5. Reasoned(t, lim2, lev, rsn, d, root, as)
  <2>1. \A n \in DOMAIN t : lev[Var(t[n])] # 0 => lim2[lev[Var(t[n])]] = lim[lev[Var(t[n])]]
    BY <1>1, <1>2 DEF Levelled
  <2>2. QED
    BY <1>1, <2>1 DEF Reasoned
<1>6. QED
  BY <1>3, <1>4, <1>5 DEF Consistent, lim2

\* Memory changes, but for the reasons.
LEMMA ReasonsKept ==
  ASSUME NEW t, NEW lim, NEW lev, NEW rsn, NEW d, NEW root, NEW as, NEW d2,
         Consistent(t, lim, lev, rsn, d, root, as),
         \A n \in DOMAIN t : LET a == rsn[Var(t[n])] IN
           a # 0 => a \in DOMAIN d2 /\ d2[a].first = d[a].first /\ d2[a].lits = d[a].lits
  PROVE  Consistent(t, lim, lev, rsn, d2, root, as)
<1>1. Reasoned(t, lim, lev, rsn, d, root, as)
  BY DEF Consistent
<1>2. \A n \in DOMAIN t : LET a == rsn[Var(t[n])] IN a # 0 => Others(d2[a]) = Others(d[a])
  BY DEF Others
<1>3. Reasoned(t, lim, lev, rsn, d2, root, as)
  BY <1>1, <1>2 DEF Reasoned, Implies, AtLevel
<1>4. QED
  BY <1>3 DEF Consistent

\* With no decision, what the assumptions are does not matter.
LEMMA NothingAssumed ==
  ASSUME NEW t, NEW lev, NEW rsn, NEW d, NEW root, NEW as, NEW lim, Len(lim) = 0,
         Consistent(t, lim, lev, rsn, d, root, as), NEW root2 \in Nat, NEW as2
  PROVE  /\ Consistent(t, lim, lev, rsn, d, root2, as2)
         /\ \A n \in DOMAIN t : lev[Var(t[n])] = 0
<1>1. \A n \in DOMAIN t : lev[Var(t[n])] = 0
  BY DEF Consistent, Levelled
<1>2. Levelled(t, lim, lev, root2)
  BY <1>1 DEF Consistent, Levelled
<1>3. Reasoned(t, lim, lev, rsn, d, root2, as2)
  <2>1. Reasoned(t, lim, lev, rsn, d, root, as)
    BY DEF Consistent
  <2>2. ASSUME NEW n \in DOMAIN t
        PROVE  LET L == lev[Var(t[n])]
                   a == rsn[Var(t[n])]
               IN
                 /\ a # 0 => Implies(t, d, a, n)
                 /\ a # 0 /\ L > root2 => AtLevel(lev, d, a, L)
                 /\ a = 0 /\ L # 0 => /\ n = lim[L] + 1
                                      /\ L <= root2 => t[n] \in ToSet(as2)
    <3>1. rsn[Var(t[n])] # 0 => Implies(t, d, rsn[Var(t[n])], n)
      BY <2>1 DEF Reasoned
    <3>2. lev[Var(t[n])] = 0
      BY <1>1
    <3>3. ~(0 > root2)
      OBVIOUS
    <3>4. QED
      BY <3>1, <3>2, <3>3
  <2>3. rsn \in [Variable -> Nat] /\ \A v \in Variable : rsn[v] # 0 => \E n \in DOMAIN t : Var(t[n]) = v
    BY <2>1 DEF Reasoned
  <2>4. QED
    BY <2>2, <2>3 DEF Reasoned
<1>4. QED
  BY <1>1, <1>2, <1>3 DEF Consistent


-----------------------------------------------------------------------------
\* What is left of the trail when a level is reverted to.
LEMMA CutFacts ==
  ASSUME Divided(trail, trail_lim), NEW l \in 0 .. decisionLevel
  PROVE  /\ Cut(l) \in Seq(Literal)
         /\ Len(Cut(l)) \in 0 .. Len(trail) /\ DOMAIN Cut(l) = 1 .. Len(Cut(l))
         /\ \A n \in DOMAIN Cut(l) : n \in DOMAIN trail /\ Cut(l)[n] = trail[n]
         /\ Undone(l) = {Var(trail[n]) : n \in Len(Cut(l)) + 1 .. Len(trail)}
         /\ l < decisionLevel => Len(Cut(l)) = trail_lim[l + 1]
         /\ l = decisionLevel => Cut(l) = trail
<1> DEFINE N == Len(trail)
<1>1. N \in Nat /\ DOMAIN trail = 1 .. N /\ trail \in Seq(Literal)
  BY DEF Divided
<1>2. decisionLevel \in Nat /\ DOMAIN trail_lim = 1 .. decisionLevel
  BY DEF Divided, decisionLevel
<1>3. l < decisionLevel => trail_lim[l + 1] \in 0 .. N
  BY <1>1, <1>2 DEF Divided
<1>4. /\ Cut(l) \in Seq(Literal)
      /\ Len(Cut(l)) \in 0 .. N /\ DOMAIN Cut(l) = 1 .. Len(Cut(l))
      /\ \A n \in DOMAIN Cut(l) : Cut(l)[n] = trail[n]
      /\ l < decisionLevel => Len(Cut(l)) = trail_lim[l + 1]
      /\ l = decisionLevel => Cut(l) = trail
  <2>1. CASE l < decisionLevel
    BY <1>1, <1>2, <1>3, <2>1 DEF Cut
  <2>2. CASE l = decisionLevel
    BY <1>1, <1>2, <2>2 DEF Cut
  <2>3. QED
    BY <1>2, <2>1, <2>2
<1>5. Undone(l) = {Var(trail[n]) : n \in Len(Cut(l)) + 1 .. N}
  <2> DEFINE m == Len(Cut(l))
             s == SubSeq(trail, m + 1, N)
  <2>1. m \in 0 .. N
    BY <1>4
  <2> HIDE DEF m
  <2>2. DOMAIN s = 1 .. N - m /\ \A i \in 1 .. N - m : s[i] = trail[m + i]
    BY <1>1, <2>1
  <2> HIDE DEF s
  <2>3. ToSet(s) = {trail[n] : n \in m + 1 .. N}
    <3>1. ASSUME NEW n \in m + 1 .. N PROVE trail[n] \in ToSet(s)
      <4>1. n - m \in 1 .. N - m /\ m + (n - m) = n
        BY <1>1, <2>1
      <4>2. QED
        BY <2>2, <4>1 DEF ToSet
    <3>2. ASSUME NEW i \in 1 .. N - m PROVE s[i] \in {trail[n] : n \in m + 1 .. N}
      <4>1. m + i \in m + 1 .. N
        BY <1>1, <2>1
      <4>2. QED
        BY <2>2, <4>1
    <3>3. QED
      BY <2>2, <3>1, <3>2 DEF ToSet
  <2>4. Undone(l) = {Var(x) : x \in ToSet(s)}
    BY DEF Undone, m, s
  <2>5. QED
    BY <2>3, <2>4 DEF m
<1>6. QED
  BY <1>1, <1>4, <1>5

\* A literal of a level stays when this level or a higher one is reverted to;
\* one of a higher level is taken back.
LEMMA CutLevels ==
  ASSUME Divided(trail, trail_lim), Levelled(trail, trail_lim, level, root_level),
         NEW l \in 0 .. decisionLevel, NEW n \in DOMAIN trail
  PROVE  /\ LevelOf(n) # 0 /\ LevelOf(n) <= l => n \in DOMAIN Cut(l)
         /\ LevelOf(n) > l => n \notin DOMAIN Cut(l)
         /\ n \in DOMAIN Cut(l) => LevelOf(n) \in 0 .. l
<1>1. decisionLevel \in Nat /\ DOMAIN trail_lim = 1 .. decisionLevel /\ n \in Nat
  BY DEF Divided, decisionLevel
<1>2. /\ LevelOf(n) \in 0 .. decisionLevel
      /\ LevelOf(n) # 0 => \A k \in DOMAIN trail_lim : trail_lim[k] < n <=> k <= LevelOf(n)
  BY DEF Levelled, LevelOf, decisionLevel
<1>3. CASE l = decisionLevel
  BY <1>1, <1>2, <1>3, CutFacts DEF Divided
<1>4. CASE l < decisionLevel
  <2>1. l + 1 \in DOMAIN trail_lim /\ Len(Cut(l)) = trail_lim[l + 1] /\ DOMAIN Cut(l) = 1 .. Len(Cut(l))
        /\ trail_lim[l + 1] \in Nat
    BY <1>1, <1>4, CutFacts DEF Divided
  <2>2. LevelOf(n) # 0 => (trail_lim[l + 1] < n <=> l + 1 <= LevelOf(n))
    BY <1>2, <2>1
  <2>3. n >= 1
    BY DEF Divided
  <2>4. QED
    BY <1>1, <1>2, <2>1, <2>2, <2>3
<1>5. QED
  BY <1>1, <1>3, <1>4

LEMMA Reverted ==
  ASSUME session \in Session, Assigned, NEW l \in 0 .. decisionLevel
  PROVE  Consistent(Cut(l), SubSeq(trail_lim, 1, l), level,
                    [v \in Variable |-> IF v \in Undone(l) THEN 0 ELSE reason[v]],
                    db, root_level, assumps)
<1> DEFINE t   == Cut(l)
           lim == SubSeq(trail_lim, 1, l)
           rsn == [v \in Variable |-> IF v \in Undone(l) THEN 0 ELSE reason[v]]
<1>1. /\ Divided(trail, trail_lim) /\ Levelled(trail, trail_lim, level, root_level)
      /\ Reasoned(trail, trail_lim, level, reason, db, root_level, assumps)
  BY DEF Assigned, Consistent
<1>2. decisionLevel \in Nat /\ DOMAIN trail_lim = 1 .. decisionLevel
  BY <1>1 DEF Divided, decisionLevel
<1>3. /\ lim \in Seq(Nat) /\ Len(lim) = l /\ DOMAIN lim = 1 .. l
      /\ \A k \in DOMAIN lim : k \in DOMAIN trail_lim /\ lim[k] = trail_lim[k] /\ lim[k] \in Nat
  BY <1>1, <1>2 DEF Divided, decisionLevel
<1>4. /\ t \in Seq(Literal) /\ Len(t) \in 0 .. Len(trail) /\ DOMAIN t = 1 .. Len(t)
      /\ \A n \in DOMAIN t : n \in DOMAIN trail /\ t[n] = trail[n]
      /\ Undone(l) = {Var(trail[n]) : n \in Len(t) + 1 .. Len(trail)}
      /\ l < decisionLevel => Len(t) = trail_lim[l + 1]
      /\ l = decisionLevel => t = trail
  BY <1>1, CutFacts
<1>5. \A n \in DOMAIN trail : /\ trail[n] \in Literal /\ Var(trail[n]) \in Variable /\ n \in Nat
  <2>1. \A n \in DOMAIN trail : trail[n] \in Literal /\ n \in Nat
    BY <1>1 DEF Divided
  <2>2. QED
    BY <2>1, LiteralFacts
<1>6. \A n \in DOMAIN t : /\ LevelOf(n) \in 0 .. l
                         /\ Var(t[n]) \notin Undone(l)
  <2>1. SUFFICES ASSUME NEW n \in DOMAIN t PROVE LevelOf(n) \in 0 .. l /\ Var(t[n]) \notin Undone(l)
    OBVIOUS
  <2>2. n \in DOMAIN trail
    BY <1>4
  <2>3. LevelOf(n) \in 0 .. l
    BY <1>1, <2>2, CutLevels
  <2>4. SUFFICES ASSUME NEW m \in Len(t) + 1 .. Len(trail), Var(trail[n]) = Var(trail[m])
                 PROVE  FALSE
    BY <1>4, <2>3
  <2>5. m \in DOMAIN trail
    BY <1>1, <1>4 DEF Divided
  <2>6. m = n
    BY <1>1, <2>2, <2>4, <2>5 DEF Divided
  <2>7. QED
    BY <1>4, <2>6
<1> HIDE DEF t, lim
<1>7. \A n \in DOMAIN t : rsn[Var(t[n])] = reason[Var(trail[n])]
  BY <1>4, <1>5, <1>6
<1>8. \A v \in Variable : rsn[v] = IF v \in Undone(l) THEN 0 ELSE reason[v]
  OBVIOUS
<1>9. rsn \in [Variable -> Nat]
  BY <1>1 DEF Reasoned
<1> HIDE DEF rsn
<1>10. Divided(t, lim)
  <2>1. \A i, j \in DOMAIN t : Var(t[i]) = Var(t[j]) => i = j
    BY <1>1, <1>4 DEF Divided
  <2>2. \A k \in DOMAIN lim : lim[k] <= Len(t)
    <3>1. SUFFICES ASSUME NEW k \in DOMAIN lim PROVE trail_lim[k] <= Len(t)
      BY <1>3
    <3>2. CASE l < decisionLevel
      <4>1. l + 1 \in DOMAIN trail_lim /\ k \in DOMAIN trail_lim /\ k <= l + 1
        BY <1>2, <1>3, <3>2
      <4>2. trail_lim[k] <= trail_lim[l + 1]
        BY <1>1, <4>1 DEF Divided
      <4>3. QED
        BY <1>4, <3>2, <4>2
    <3>3. CASE l = decisionLevel
      BY <1>1, <1>3, <1>4, <3>3 DEF Divided
    <3>4. QED
      BY <1>2, <3>2, <3>3
  <2>3. \A j, k \in DOMAIN lim : j <= k => lim[j] <= lim[k]
    BY <1>1, <1>3 DEF Divided
  <2>4. QED
    BY <1>3, <1>4, <2>1, <2>2, <2>3 DEF Divided
<1>11. Levelled(t, lim, level, root_level)
  <2>1. root_level \in Nat /\ level \in [Variable -> Int]
    BY <1>1 DEF Levelled
  <2>2. ASSUME NEW n \in DOMAIN t
        PROVE  LET L == level[Var(t[n])] IN
                 /\ L \in 0 .. Len(lim)
                 /\ L # 0 => \A k \in DOMAIN lim : lim[k] < n <=> k <= L
                 /\ L = 0 /\ Len(lim) > root_level => n <= lim[root_level + 1]
    <3> DEFINE L == level[Var(trail[n])]
    <3>1. /\ L \in 0 .. decisionLevel
          /\ L # 0 => \A k \in DOMAIN trail_lim : trail_lim[k] < n <=> k <= L
          /\ L = 0 /\ decisionLevel > root_level => n <= trail_lim[root_level + 1]
      BY <1>1, <1>4 DEF Levelled, decisionLevel
    <3>2. L \in 0 .. l /\ level[Var(t[n])] = L
      BY <1>4, <1>6 DEF LevelOf
    <3> HIDE DEF L
    <3>3. L # 0 => \A k \in DOMAIN lim : lim[k] < n <=> k <= L
      BY <1>3, <3>1
    <3>4. L = 0 /\ l > root_level => n <= lim[root_level + 1]
      BY <1>2, <1>3, <2>1, <3>1
    <3>5. QED
      BY <1>3, <3>2, <3>3, <3>4
  <2>3. QED
    BY <2>1, <2>2 DEF Levelled
<1>12. Reasoned(t, lim, level, rsn, db, root_level, assumps)
  <2>1. \A v \in Variable : rsn[v] # 0 => \E n \in DOMAIN t : Var(t[n]) = v
    <3>1. SUFFICES ASSUME NEW v \in Variable, rsn[v] # 0 PROVE \E n \in DOMAIN t : Var(t[n]) = v
      OBVIOUS
    <3>2. v \notin Undone(l) /\ reason[v] # 0
      BY <1>8, <3>1
    <3>3. PICK n \in DOMAIN trail : Var(trail[n]) = v
      BY <1>1, <3>2 DEF Reasoned
    <3>4. n \in 1 .. Len(trail)
      BY <1>1 DEF Divided
    <3>5. n \in DOMAIN t
      BY <1>4, <3>2, <3>3, <3>4
    <3>6. QED
      BY <1>4, <3>3, <3>5
  <2>2. ASSUME NEW n \in DOMAIN t
        PROVE  LET L == level[Var(t[n])]
                   a == rsn[Var(t[n])]
               IN
               /\ a # 0 => Implies(t, db, a, n)
               /\ a # 0 /\ L > root_level => AtLevel(level, db, a, L)
               /\ a = 0 /\ L # 0 => /\ n = lim[L] + 1
                                    /\ L <= root_level => t[n] \in ToSet(assumps)
    <3> DEFINE L == level[Var(trail[n])]
               a == reason[Var(trail[n])]
    <3>1. /\ a # 0 => Implies(trail, db, a, n)
          /\ a # 0 /\ L > root_level => AtLevel(level, db, a, L)
          /\ a = 0 /\ L # 0 => /\ n = trail_lim[L] + 1
                               /\ L <= root_level => trail[n] \in ToSet(assumps)
      BY <1>1, <1>4 DEF Reasoned
    <3>2. L \in 0 .. l /\ level[Var(t[n])] = L /\ rsn[Var(t[n])] = a /\ t[n] = trail[n]
      BY <1>4, <1>6, <1>7 DEF LevelOf
    <3> HIDE DEF L, a
    <3>3. a # 0 => Implies(t, db, a, n)
      <4>1. \A m \in 1 .. n - 1 : m \in DOMAIN t
        BY <1>4
      <4>2. QED
        BY <1>4, <3>1, <3>2, <4>1 DEF Implies
    <3>4. L # 0 => lim[L] = trail_lim[L]
      BY <1>3, <3>2
    <3>5. QED
      BY <3>1, <3>2, <3>3, <3>4
  <2>3. QED
    BY <1>9, <2>1, <2>2 DEF Reasoned
<1>13. QED
  BY <1>10, <1>11, <1>12 DEF Consistent, t, lim, rsn


-----------------------------------------------------------------------------
\* What each part of the invariant is about.
LEMMA AssignedNext ==
  ASSUME session' = session,
         Consistent(trail', trail_lim', level', reason', db', root_level', assumps')
  PROVE  Assigned'
  BY DEF Assigned, Consistent, Divided, Levelled, Reasoned, Implies, AtLevel, Others, Literal,
         Variable

LEMMA KeepMemory ==
  ASSUME UNCHANGED <<session, db, watches>>
  PROVE  Memory' <=> Memory
  BY DEF Memory, Literal, Variable, Clause

LEMMA KeepAssigned ==
  ASSUME Assigned,
         UNCHANGED <<session, answers, trail, trail_lim, level, reason, db, root_level>>
  PROVE  Assigned'
<1>1. assumps' = assumps
  BY DEF assumps
<1>2. Consistent(trail', trail_lim', level', reason', db', root_level', assumps')
  BY <1>1 DEF Assigned
<1>3. QED
  BY <1>2, AssignedNext

LEMMA KeepModels ==
  ASSUME UNCHANGED <<session, given>>
  PROVE  FormulaModels' = FormulaModels
  BY DEF FormulaModels, Formula, Variable

LEMMA KeepFollowing ==
  ASSUME UNCHANGED <<session, given, ok, db, trail, level>>
  PROVE  ClausesFollow' <=> ClausesFollow
  BY KeepModels DEF ClausesFollow, AtTop

\* The trail and the decisions.
LEMMA TrailFacts ==
  ASSUME session \in Session, Assigned
  PROVE  /\ Divided(trail, trail_lim)
         /\ Levelled(trail, trail_lim, level, root_level)
         /\ Reasoned(trail, trail_lim, level, reason, db, root_level, assumps)
         /\ Len(trail) \in Nat /\ DOMAIN trail = 1 .. Len(trail)
         /\ \A n \in DOMAIN trail : trail[n] \in Literal /\ Var(trail[n]) \in Variable
         /\ \A m, n \in DOMAIN trail : Var(trail[m]) = Var(trail[n]) => m = n
         /\ decisionLevel \in Nat /\ DOMAIN trail_lim = 1 .. decisionLevel
         /\ root_level \in Nat
         /\ level \in [Variable -> Int]
         /\ reason \in [Variable -> Nat]
<1>1. /\ Divided(trail, trail_lim)
      /\ Levelled(trail, trail_lim, level, root_level)
      /\ Reasoned(trail, trail_lim, level, reason, db, root_level, assumps)
  BY DEF Assigned, Consistent
<1>2. \A n \in DOMAIN trail : trail[n] \in Literal
  BY <1>1 DEF Divided
<1>3. \A n \in DOMAIN trail : Var(trail[n]) \in Variable
  BY <1>2, LiteralFacts
<1>4. /\ Len(trail) \in Nat /\ DOMAIN trail = 1 .. Len(trail)
      /\ decisionLevel \in Nat /\ DOMAIN trail_lim = 1 .. decisionLevel
  BY <1>1 DEF Divided, decisionLevel
<1>5. QED
  BY <1>1, <1>2, <1>3, <1>4 DEF Divided, Levelled, Reasoned

\* A literal is false if its negation is on the trail, at one place only.
LEMMA FalseFacts ==
  ASSUME session \in Session, Assigned, NEW x \in Literal
  PROVE  /\ IsFalse(x) <=> \E n \in DOMAIN trail : trail[n] = -x
         /\ IsTrue(x) <=> \E n \in DOMAIN trail : trail[n] = x
         /\ ~IsTrue(x) /\ ~IsFalse(x) => \A n \in DOMAIN trail : Var(trail[n]) # Var(x)
         /\ \A n \in DOMAIN trail : trail[n] = -x => x = -trail[n] /\ Var(trail[n]) = Var(x)
         /\ IsFalse(x) => \A n \in DOMAIN trail : Var(trail[n]) = Var(x) => trail[n] = -x
<1>1. /\ IsFalse(x) <=> \E n \in DOMAIN trail : trail[n] = -x
      /\ IsTrue(x) <=> \E n \in DOMAIN trail : trail[n] = x
  BY DEF IsFalse, IsTrue, ToSet
<1>2. \A n \in DOMAIN trail : Var(trail[n]) = Var(x) => trail[n] = x \/ trail[n] = -x
  BY TrailFacts, LiteralFacts
<1>3. \A n \in DOMAIN trail : trail[n] = -x => x = -trail[n] /\ Var(trail[n]) = Var(x)
  BY LiteralFacts
<1>4. IsFalse(x) => \A n \in DOMAIN trail : Var(trail[n]) = Var(x) => trail[n] = -x
  BY <1>1, <1>3, TrailFacts
<1>5. QED
  BY <1>1, <1>2, <1>3, <1>4

\* At the top every literal is a fact.
LEMMA TopLevels ==
  ASSUME Assigned, decisionLevel = 0, NEW n \in DOMAIN trail
  PROVE  LevelOf(n) = 0
  BY DEF Assigned, Consistent, Levelled, LevelOf, decisionLevel

\* What the query assumes does not matter there.
LEMMA TopAssigned ==
  ASSUME Assigned, decisionLevel = 0, root_level' \in Nat,
         UNCHANGED <<session, trail, trail_lim, level, reason, db>>
  PROVE  Assigned'
<1>1. Consistent(trail, trail_lim, level, reason, db, root_level', assumps')
  BY NothingAssumed DEF Assigned, decisionLevel
<1>2. QED
  BY <1>1, AssignedNext

\* A literal that is false at the top level is false in every model.
LEMMA TopFalse ==
  ASSUME IInv, NEW v \in FormulaModels, NEW x \in Literal, IsFalse(x), AtTop(Var(x))
  PROVE  ~True(v, x)
<1>1. session \in Session /\ v \in [Variable -> BOOLEAN]
  BY DEF IInv, Calls, FormulaModels
<1>2. Var(-x) = Var(x) /\ -x \in ToSet(trail)
  BY <1>1, LiteralFacts DEF IsFalse
<1>3. True(v, -x)
  BY <1>2 DEF IInv, ClausesFollow
<1>4. QED
  BY <1>1, <1>3, TrueFacts

\* A clause that is false at the top level leaves no model.
LEMMA TopConflict ==
  ASSUME IInv, NEW v \in FormulaModels, NEW c \in SUBSET Literal, Satisfies(v, c),
         \A x \in c : IsFalse(x) /\ AtTop(Var(x))
  PROVE  FALSE
  BY TopFalse DEF Satisfies

-----------------------------------------------------------------------------
LEMMA InitIInv == Init => IInv
<1> SUFFICES ASSUME Init PROVE IInv
  OBVIOUS
<1> USE DEF Init
<1>1. Calls
  BY CallFacts DEF Calls, InQuery, decisionLevel
<1>2. Memory
  BY FS_EmptySet DEF Memory
<1>3. Assigned
  BY DEF Assigned, Consistent, Divided, Levelled, Reasoned
<1>4. Queue
  BY DEF Queue
<1>5. ClausesFollow
  BY DEF ClausesFollow, ToSet
<1>6. ConflictExplains
  BY DEF ConflictExplains
<1>7. QED
  BY <1>1, <1>2, <1>3, <1>4, <1>5, <1>6 DEF IInv

LEMMA SolveIInv == IInv /\ Solve => IInv'
<1> SUFFICES ASSUME IInv, Solve PROVE IInv'
  OBVIOUS
<1> USE DEF Solve, memory, assignment, propagation
<1>1. Calls'
  BY CallFacts DEF IInv, Calls, InQuery, decisionLevel, Answer
<1>2. Memory'
  BY KeepMemory DEF IInv
<1>3. decisionLevel = 0
  BY DEF IInv, Calls
<1>4. Assigned'
  BY <1>3, TopAssigned DEF IInv
<1>5. Queue'
  BY DEF IInv, Queue, decisionLevel, Answer, IsFalse
<1>6. ClausesFollow'
  BY KeepFollowing DEF IInv
<1>7. ConflictExplains'
  BY DEF ConflictExplains, Answer
<1>8. QED
  BY <1>1, <1>2, <1>4, <1>5, <1>6, <1>7 DEF IInv

LEMMA SimplifyConflictIInv == IInv /\ SimplifyConflict => IInv'
<1> SUFFICES ASSUME IInv, SimplifyConflict PROVE IInv'
  OBVIOUS
<1> USE DEF SimplifyConflict, assignment
<1>1. Calls'
  BY CallFacts DEF IInv, Calls, InQuery, decisionLevel, Answer, At
<1>2. Memory'
  BY KeepMemory DEF IInv
<1>3. decisionLevel = 0
  BY DEF IInv, Calls, At
<1>4. Assigned'
  BY <1>3, TopAssigned DEF IInv, Assigned, Consistent, Levelled
<1>5. Queue'
  BY DEF IInv, Queue, decisionLevel, Answer, At, Propagating
<1>6. ClausesFollow'
  <2>1. ~ok
    BY <1>3 DEF IInv, Queue
  <2>2. FormulaModels' = {}
    BY <2>1, KeepModels DEF IInv, ClausesFollow
  <2>3. QED
    BY <2>2 DEF ClausesFollow
<1>7. ConflictExplains'
  BY DEF ConflictExplains, Answer
<1>8. QED
  BY <1>1, <1>2, <1>4, <1>5, <1>6, <1>7 DEF IInv

LEMMA StartSearchIInv == IInv /\ StartSearch => IInv'
<1> SUFFICES ASSUME IInv, StartSearch PROVE IInv'
  OBVIOUS
<1> USE DEF StartSearch, memory, assignment, propagation
<1>1. Calls'
  BY DEF IInv, Calls, InQuery, decisionLevel, At, assumps
<1>2. Memory' /\ Assigned' /\ ClausesFollow'
  BY KeepMemory, KeepAssigned, KeepFollowing DEF IInv
<1>3. Queue'
  BY DEF IInv, Queue, At, IsFalse
<1>4. ConflictExplains'
  BY DEF ConflictExplains
<1>5. QED
  BY <1>1, <1>2, <1>3, <1>4 DEF IInv

LEMMA StutterIInv == IInv /\ UNCHANGED vars => IInv'
<1> SUFFICES ASSUME IInv, UNCHANGED vars PROVE IInv'
  OBVIOUS
<1> USE DEF vars, memory, assignment, propagation
<1>1. Calls'
  BY DEF IInv, Calls, InQuery, decisionLevel, assumps
<1>2. Memory' /\ Assigned' /\ ClausesFollow'
  BY KeepMemory, KeepAssigned, KeepFollowing DEF IInv
<1>3. Queue'
  BY DEF IInv, Queue, IsFalse, decisionLevel
<1>4. ConflictExplains'
  BY KeepModels DEF IInv, ConflictExplains
<1>5. QED
  BY <1>1, <1>2, <1>3, <1>4 DEF IInv


-----------------------------------------------------------------------------
\* What was propagated since the last decision has its level, if that is above
\* the assumptions.
LEMMA FreshLevel ==
  ASSUME session \in Session, Assigned, decisionLevel > root_level, NEW n \in DOMAIN trail,
         \A k \in DOMAIN trail_lim : trail_lim[k] < n
  PROVE  LevelOf(n) = decisionLevel
<1>1. /\ root_level \in Nat /\ decisionLevel \in Nat /\ DOMAIN trail_lim = 1 .. decisionLevel
      /\ n \in Nat
  BY TrailFacts
<1>2. root_level + 1 \in DOMAIN trail_lim /\ decisionLevel \in DOMAIN trail_lim
  BY <1>1
<1>3. trail_lim[root_level + 1] \in Nat /\ trail_lim[root_level + 1] < n
  BY <1>2, TrailFacts DEF Divided
<1>4. /\ LevelOf(n) \in 0 .. decisionLevel
      /\ LevelOf(n) # 0 => \A k \in DOMAIN trail_lim : trail_lim[k] < n <=> k <= LevelOf(n)
      /\ LevelOf(n) = 0 /\ decisionLevel > root_level => n <= trail_lim[root_level + 1]
  BY TrailFacts DEF Levelled, LevelOf, decisionLevel
<1>5. LevelOf(n) # 0
  BY <1>1, <1>3, <1>4
<1>6. decisionLevel <= LevelOf(n)
  BY <1>2, <1>4, <1>5
<1>7. QED
  BY <1>1, <1>4, <1>6

LEMMA TakeNextIInv == IInv /\ TakeNext => IInv'
<1> SUFFICES ASSUME IInv, TakeNext PROVE IInv'
  OBVIOUS
<1> USE DEF TakeNext, memory
<1>1. Calls'
  BY DEF IInv, Calls, InQuery, decisionLevel, assumps
<1>2. Memory' /\ Assigned' /\ ClausesFollow'
  BY KeepMemory, KeepAssigned, KeepFollowing DEF IInv
<1>3. Len(trail) \in Nat /\ trail_lim \in Seq(Nat)
  BY TrailFacts DEF IInv, Calls, Divided
<1>4. Queue'
  <2>1. confl = 0
    BY <1>3 DEF IInv, Queue
  <2>2. ASSUME NEW k \in DOMAIN trail_lim PROVE trail_lim[k] < qhead + 1 /\ trail_lim[k] <= qhead + 1
    <3>1. trail_lim[k] \in Nat /\ trail_lim[k] <= qhead /\ qhead \in Nat
      BY <1>3 DEF IInv, Queue
    <3>2. QED
      BY <3>1
  <2>3. qhead + 1 >= 1 /\ qhead + 1 \in 0 .. Len(trail) /\ qhead' = qhead + 1
    BY <1>3 DEF IInv, Queue
  <2>4. pc' \notin {"idle", "simplified", "decide"}
    OBVIOUS
  <2>5. QED
    BY <2>1, <2>2, <2>3, <2>4 DEF Queue
<1>5. ConflictExplains'
  BY DEF ConflictExplains
<1>6. QED
  BY <1>1, <1>2, <1>3, <1>4, <1>5 DEF IInv

\* The clause that propagation visits, with its false watch in second place.
LEMMA VisitFacts ==
  ASSUME IInv, NEW a \in todo
  PROVE  /\ a \in DOMAIN db
         /\ qhead \in DOMAIN trail
         /\ trail[qhead] \in Literal
         /\ IsFalse(-trail[qhead])
         /\ confl = 0
         /\ Turned(a) = Clause(db[a].learnt, Turned(a).first, Turned(a).second, db[a].lits, db[a].id)
         /\ Turned(a).second = -trail[qhead]
         /\ {Turned(a).first, Turned(a).second} = {db[a].first, db[a].second}
         /\ \A n \in DOMAIN trail : reason[Var(trail[n])] = a => Turned(a).first = db[a].first
         /\ pc \notin {"idle", "simplified", "decide"}
<1>1. session \in Session /\ Assigned
  BY DEF IInv, Calls
<1>2. /\ confl = 0 /\ a \in watches[trail[qhead]] /\ qhead \in 0 .. Len(trail) /\ qhead >= 1
      /\ pc \notin {"idle", "simplified", "decide"}
  BY DEF IInv, Queue
<1>2a. qhead \in DOMAIN trail
  BY <1>1, <1>2, TrailFacts
<1>3. trail[qhead] \in Literal
  BY <1>1, <1>2a, TrailFacts
<1>4. IsFalse(-trail[qhead])
  BY <1>1, <1>2a, <1>3, LiteralFacts DEF IsFalse, ToSet
<1>5. a \in DOMAIN db /\ -trail[qhead] \in {db[a].first, db[a].second}
  BY <1>2, <1>3 DEF IInv, Memory
<1>6. db[a] = Clause(db[a].learnt, db[a].first, db[a].second, db[a].lits, db[a].id)
  BY <1>5 DEF IInv, Memory
<1>7. /\ Turned(a) = Clause(db[a].learnt, Turned(a).first, Turned(a).second, db[a].lits, db[a].id)
      /\ Turned(a).second = -trail[qhead]
      /\ {Turned(a).first, Turned(a).second} = {db[a].first, db[a].second}
      /\ db[a].first # -trail[qhead] => Turned(a).first = db[a].first
  BY <1>5, <1>6 DEF Turned, Clause
<1>8. ASSUME NEW n \in DOMAIN trail, reason[Var(trail[n])] = a
      PROVE  db[a].first # -trail[qhead]
  <2>1. a # 0
    BY <1>5 DEF IInv, Memory
  <2>2. db[a].first = trail[n]
    BY <1>1, <1>8, <2>1, TrailFacts DEF Reasoned, Implies
  <2>3. SUFFICES ASSUME trail[n] = -trail[qhead] PROVE FALSE
    BY <2>2
  <2>4. Var(trail[n]) = Var(trail[qhead])
    BY <1>1, <1>3, <2>3, LiteralFacts
  <2>5. n = qhead
    BY <1>1, <1>2a, <2>4, TrailFacts
  <2>6. QED
    BY <1>1, <1>3, <2>3, <2>5, LiteralFacts
<1>9. QED
  BY <1>2, <1>2a, <1>3, <1>4, <1>5, <1>7, <1>8

\* The watched literals of a clause change places, or the second is another.
LEMMA RewatchedMemory ==
  ASSUME IInv, NEW a \in DOMAIN db, NEW f \in db[a].lits, NEW s \in db[a].lits,
         db' = [db EXCEPT ![a] = Clause(db[a].learnt, f, s, db[a].lits, db[a].id)],
         session' = session,
         watches' \in [Literal -> SUBSET DOMAIN db],
         \A x \in Literal : \A b \in watches'[x] : IF b = a THEN -x \in {f, s} ELSE b \in watches[x]
  PROVE  Memory'
<1> DEFINE c == Clause(db[a].learnt, f, s, db[a].lits, db[a].id)
<1>1. /\ c.learnt = db[a].learnt /\ c.first = f /\ c.second = s /\ c.lits = db[a].lits
      /\ c.id = db[a].id
  BY DEF Clause
<1>2. DOMAIN db' = DOMAIN db /\ db'[a] = c /\ \A b \in DOMAIN db : b # a => db'[b] = db[b]
  OBVIOUS
<1>3. Literal' = Literal
  BY DEF Literal, Variable
<1> HIDE DEF c
<1>4. \A b \in DOMAIN db :
        /\ db'[b] = Clause(db'[b].learnt, db'[b].first, db'[b].second, db'[b].lits, db'[b].id)
        /\ db'[b].lits \subseteq Literal
        /\ db'[b].first \in db'[b].lits
        /\ db'[b].second \in db'[b].lits
  <2>1. c = Clause(c.learnt, c.first, c.second, c.lits, c.id)
    BY <1>1 DEF c
  <2>2. QED
    BY <1>1, <1>2, <2>1 DEF IInv, Memory
<1>5. \A x \in Literal : \A b \in watches'[x] : -x \in {db'[b].first, db'[b].second}
  BY <1>1, <1>2 DEF IInv, Memory
<1>6. QED
  BY <1>2, <1>3, <1>4, <1>5 DEF IInv, Memory, Clause

\* The assignment with the clause turned.
LEMMA Rewatched ==
  ASSUME IInv, NEW a \in DOMAIN db, NEW f, NEW s,
         db' = [db EXCEPT ![a] = Clause(db[a].learnt, f, s, db[a].lits, db[a].id)],
         \A n \in DOMAIN trail : reason[Var(trail[n])] = a => f = db[a].first
  PROVE  Consistent(trail, trail_lim, level, reason, db', root_level, assumps)
<1>1. DOMAIN db' = DOMAIN db /\ \A b \in DOMAIN db : b # a => db'[b] = db[b]
  OBVIOUS
<1>2. db'[a].first = f /\ db'[a].lits = db[a].lits
  BY DEF Clause
<1>3. Assigned /\ session \in Session
  BY DEF IInv, Calls
<1>4. \A n \in DOMAIN trail : reason[Var(trail[n])] # 0 => reason[Var(trail[n])] \in DOMAIN db
  BY <1>3, TrailFacts DEF Reasoned, Implies
<1>5. \A n \in DOMAIN trail : LET b == reason[Var(trail[n])] IN
        b # 0 => b \in DOMAIN db' /\ db'[b].first = db[b].first /\ db'[b].lits = db[b].lits
  BY <1>1, <1>2, <1>4
<1>6. QED
  BY <1>3, <1>5, ReasonsKept DEF Assigned

LEMMA RewatchedAssigned ==
  ASSUME IInv, NEW a \in DOMAIN db, NEW f, NEW s,
         db' = [db EXCEPT ![a] = Clause(db[a].learnt, f, s, db[a].lits, db[a].id)],
         \A n \in DOMAIN trail : reason[Var(trail[n])] = a => f = db[a].first,
         UNCHANGED <<session, answers, root_level, reason, level, trail, trail_lim>>
  PROVE  Assigned'
<1>1. Consistent(trail, trail_lim, level, reason, db', root_level, assumps)
  BY Rewatched
<1>2. assumps' = assumps
  BY DEF assumps
<1>3. Consistent(trail', trail_lim', level', reason', db', root_level', assumps')
  BY <1>1, <1>2
<1>4. QED
  BY <1>3, AssignedNext

LEMMA RewatchedFollow ==
  ASSUME IInv, NEW a \in DOMAIN db, NEW f, NEW s,
         db' = [db EXCEPT ![a] = Clause(db[a].learnt, f, s, db[a].lits, db[a].id)],
         UNCHANGED <<session, given, ok, trail, level>>
  PROVE  ClausesFollow'
<1>1. DOMAIN db' = DOMAIN db /\ \A b \in DOMAIN db : db'[b].lits = db[b].lits
  BY DEF Clause
<1>2. QED
  BY <1>1, KeepModels DEF IInv, ClausesFollow, AtTop

LEMMA VisitSatisfiedIInv == IInv /\ VisitSatisfied => IInv'
<1> SUFFICES ASSUME IInv, VisitSatisfied PROVE IInv'
  OBVIOUS
<1>1. PICK a \in todo :
        /\ db' = [db EXCEPT ![a] = Turned(a)]
        /\ todo' = todo \ {a}
        /\ UNCHANGED <<session, given, answers, ok, watches, assignment, confl, root_level,
                       conflict, pc>>
  BY DEF VisitSatisfied
<1> USE DEF assignment
<1> DEFINE f == Turned(a).first
           s == Turned(a).second
<1>2. db' = [db EXCEPT ![a] = Clause(db[a].learnt, f, s, db[a].lits, db[a].id)]
  BY <1>1, VisitFacts
<1>3. a \in DOMAIN db /\ {f, s} = {db[a].first, db[a].second} /\ confl = 0
  BY VisitFacts
<1>4. \A n \in DOMAIN trail : reason[Var(trail[n])] = a => f = db[a].first
  BY VisitFacts
<1> HIDE DEF f, s
<1>5. Calls'
  BY <1>1 DEF IInv, Calls, InQuery, decisionLevel, assumps
<1>6. Memory'
  <2>1. f \in db[a].lits /\ s \in db[a].lits
    BY <1>3 DEF IInv, Memory
  <2>2. \A x \in Literal : \A b \in watches[x] : IF b = a THEN -x \in {f, s} ELSE b \in watches[x]
    BY <1>3 DEF IInv, Memory
  <2>3. watches \in [Literal -> SUBSET DOMAIN db]
    BY DEF IInv, Memory
  <2>4. QED
    BY <1>1, <1>2, <1>3, <2>1, <2>2, <2>3, RewatchedMemory
<1>8. Assigned' /\ ClausesFollow'
  BY <1>1, <1>2, <1>3, <1>4, RewatchedAssigned, RewatchedFollow
<1>9. Queue'
  BY <1>1, <1>3 DEF IInv, Queue
<1>10. ConflictExplains'
  BY <1>1, KeepModels DEF IInv, ConflictExplains
<1>11. QED
  BY <1>5, <1>6, <1>8, <1>9, <1>10 DEF IInv

LEMMA VisitNewWatchIInv == IInv /\ VisitNewWatch => IInv'
<1> SUFFICES ASSUME IInv, VisitNewWatch PROVE IInv'
  OBVIOUS
<1>0. PICK a \in todo : \E x \in NewWatch(Turned(a)) :
        /\ db' = [db EXCEPT ![a] = [Turned(a) EXCEPT !.second = x]]
        /\ watches' = [watches EXCEPT ![trail[qhead]] = @ \ {a}, ![-x] = @ \cup {a}]
        /\ todo' = todo \ {a}
        /\ UNCHANGED <<session, given, answers, ok, assignment, confl, root_level,
                       conflict, pc>>
  BY DEF VisitNewWatch
<1>1. PICK x \in NewWatch(Turned(a)) :
        /\ db' = [db EXCEPT ![a] = [Turned(a) EXCEPT !.second = x]]
        /\ watches' = [watches EXCEPT ![trail[qhead]] = @ \ {a}, ![-x] = @ \cup {a}]
        /\ todo' = todo \ {a}
        /\ UNCHANGED <<session, given, answers, ok, assignment, confl, root_level,
                       conflict, pc>>
  BY <1>0
<1> USE DEF assignment
<1> DEFINE f == Turned(a).first
<1>2. db' = [db EXCEPT ![a] = Clause(db[a].learnt, f, x, db[a].lits, db[a].id)]
  <2>1. Turned(a) = Clause(db[a].learnt, f, Turned(a).second, db[a].lits, db[a].id)
    BY VisitFacts
  <2>2. \A d, g, s, c, i : [Clause(d, g, s, c, i) EXCEPT !.second = x] = Clause(d, g, x, c, i)
    BY DEF Clause
  <2>3. [Turned(a) EXCEPT !.second = x] = Clause(db[a].learnt, f, x, db[a].lits, db[a].id)
    BY <2>1, <2>2
  <2>4. QED
    BY <1>1, <2>3
<1>3. a \in DOMAIN db /\ {f, -trail[qhead]} = {db[a].first, db[a].second} /\ confl = 0
  BY VisitFacts
<1>4. \A n \in DOMAIN trail : reason[Var(trail[n])] = a => f = db[a].first
  BY VisitFacts
<1>5. x \in db[a].lits /\ ~IsFalse(x)
  BY VisitFacts DEF NewWatch, Clause
<1>6. trail[qhead] \in Literal /\ qhead \in DOMAIN trail /\ session \in Session
  BY VisitFacts DEF IInv, Calls
<1> HIDE DEF f
<1>7. x \in Literal
  BY <1>3, <1>5 DEF IInv, Memory
<1>8. -x # trail[qhead]
  BY <1>5, <1>6 DEF IsFalse, ToSet
<1>9. Calls'
  BY <1>1 DEF IInv, Calls, InQuery, decisionLevel, assumps
<1>10. Memory'
  <2>1. f \in db[a].lits
    BY <1>3 DEF IInv, Memory
  <2>2. watches \in [Literal -> SUBSET DOMAIN db]
    BY DEF IInv, Memory
  <2>3. watches' \in [Literal -> SUBSET DOMAIN db]
    BY <1>1, <1>3, <2>2
  <2>4. ASSUME NEW y \in Literal, NEW b \in watches'[y]
        PROVE  IF b = a THEN -y \in {f, x} ELSE b \in watches[y]
    <3>1. CASE b # a
      BY <1>1, <2>2, <2>4, <3>1
    <3>2. CASE b = a
      <4>1. y = -x \/ (y # trail[qhead] /\ a \in watches[y])
        BY <1>1, <2>2, <2>4, <3>2
      <4>2. ASSUME y # trail[qhead], a \in watches[y] PROVE -y = f
        <5>1. -y \in {f, -trail[qhead]}
          BY <1>3, <4>2 DEF IInv, Memory
        <5>2. -y # -trail[qhead]
          BY <1>6, <4>2, LiteralFacts
        <5>3. QED
          BY <5>1, <5>2
      <4>3. QED
        BY <1>6, <1>7, <3>2, <4>1, <4>2, LiteralFacts
    <3>3. QED
      BY <3>1, <3>2
  <2>5. QED
    BY <1>1, <1>2, <1>3, <1>5, <2>1, <2>3, <2>4, RewatchedMemory
<1>12. Assigned' /\ ClausesFollow'
  BY <1>1, <1>2, <1>3, <1>4, RewatchedAssigned, RewatchedFollow
<1>13. Queue'
  <2>1. todo' # {} => todo' \subseteq watches'[trail[qhead]]
    BY <1>1, <1>6, <1>8 DEF IInv, Queue, Memory
  <2>2. QED
    BY <1>1, <1>3, <2>1 DEF IInv, Queue
<1>14. ConflictExplains'
  BY <1>1, KeepModels DEF IInv, ConflictExplains
<1>15. QED
  BY <1>9, <1>10, <1>12, <1>13, <1>14 DEF IInv

-----------------------------------------------------------------------------

LEMMA VisitUnitIInv == IInv /\ VisitUnit => IInv'
<1> SUFFICES ASSUME IInv, VisitUnit PROVE IInv'
  OBVIOUS
<1>1. PICK a \in todo :
        LET c == Turned(a)
            v == Var(c.first)
        IN  /\ ~IsTrue(c.first)
            /\ NewWatch(c) = {}
            /\ db' = [db EXCEPT ![a] = c]
            /\ pc' \in {pc, "assert"}
            /\ IF IsFalse(c.first)
               THEN /\ ok' = (ok /\ decisionLevel # 0)
                    /\ confl' = a
                    /\ qhead' = Len(trail)
                    /\ todo' = {}
                    /\ UNCHANGED <<trail, reason, level>>
               ELSE /\ trail' = Append(trail, c.first)
                    /\ reason' = [reason EXCEPT ![v] = a]
                    /\ level' = [level EXCEPT ![v] = decisionLevel]
                    /\ todo' = todo \ {a}
                    /\ UNCHANGED <<ok, confl, qhead>>
            /\ UNCHANGED <<session, given, answers, watches, trail_lim, root_level, conflict>>
  BY DEF VisitUnit
<1> DEFINE f == Turned(a).first
           s == Turned(a).second
<1>2. db' = [db EXCEPT ![a] = Clause(db[a].learnt, f, s, db[a].lits, db[a].id)]
  BY <1>1, VisitFacts
<1>3. /\ a \in DOMAIN db /\ {f, s} = {db[a].first, db[a].second} /\ confl = 0
      /\ s = -trail[qhead] /\ IsFalse(s) /\ qhead \in DOMAIN trail
      /\ pc \notin {"idle", "simplified", "decide"}
      /\ session \in Session
  BY VisitFacts DEF IInv, Calls
<1>4. \A n \in DOMAIN trail : reason[Var(trail[n])] = a => f = db[a].first
  BY VisitFacts
<1>5. \A x \in db[a].lits \ {f} : IsFalse(x)
  BY <1>1, <1>3, VisitFacts DEF NewWatch, Clause
<1>6. f \in db[a].lits /\ s \in db[a].lits /\ db[a].lits \subseteq Literal
  BY <1>3 DEF IInv, Memory
<1>7. f \in Literal
  BY <1>6
<1>8. /\ ~IsTrue(f)
      /\ pc' \in {pc, "assert"}
      /\ IF IsFalse(f)
         THEN /\ ok' = (ok /\ decisionLevel # 0)
              /\ confl' = a
              /\ qhead' = Len(trail)
              /\ todo' = {}
              /\ UNCHANGED <<trail, reason, level>>
         ELSE /\ trail' = Append(trail, f)
              /\ reason' = [reason EXCEPT ![Var(f)] = a]
              /\ level' = [level EXCEPT ![Var(f)] = decisionLevel]
              /\ todo' = todo \ {a}
              /\ UNCHANGED <<ok, confl, qhead>>
      /\ UNCHANGED <<session, given, answers, watches, trail_lim, root_level, conflict>>
  BY <1>1
<1> HIDE DEF f, s
<1>9. db'[a].lits = db[a].lits /\ db'[a].first = f /\ DOMAIN db' = DOMAIN db
  BY <1>2, <1>3 DEF Clause
<1>10. Calls'
  BY <1>3, <1>8 DEF IInv, Calls, InQuery, decisionLevel, assumps
<1>11. Memory'
  <2>1. \A x \in Literal : \A b \in watches[x] : IF b = a THEN -x \in {f, s} ELSE b \in watches[x]
    BY <1>3 DEF IInv, Memory
  <2>2. watches \in [Literal -> SUBSET DOMAIN db]
    BY DEF IInv, Memory
  <2>3. watches' = watches /\ session' = session
    BY <1>8
  <2>4. /\ watches' \in [Literal -> SUBSET DOMAIN db]
        /\ \A x \in Literal : \A b \in watches'[x] : IF b = a THEN -x \in {f, s} ELSE b \in watches[x]
    BY <2>1, <2>2, <2>3
  <2>5. a \in DOMAIN db
    BY <1>3
  <2>6. QED
    BY <1>2, <1>6, <2>3, <2>4, <2>5, RewatchedMemory
<1>12. ConflictExplains'
  BY <1>3, <1>8 DEF ConflictExplains
<1>13. Assigned /\ Len(trail) \in Nat /\ trail_lim \in Seq(Nat) /\ DOMAIN trail = 1 .. Len(trail)
  BY <1>3, TrailFacts DEF IInv, Divided
<1>14. Consistent(trail, trail_lim, level, reason, db', root_level, assumps)
  BY <1>2, <1>3, <1>4, Rewatched
<1>15. assumps' = assumps
  BY <1>8 DEF assumps
<1>16. \A x \in db[a].lits \ {f} : \E n \in DOMAIN trail : trail[n] = -x
  BY <1>5 DEF IsFalse, ToSet
<1>17. \A x \in db[a].lits \ {f} : decisionLevel = 0 => AtTop(Var(x))
  <2>1. SUFFICES ASSUME NEW x \in db[a].lits \ {f}, decisionLevel = 0 PROVE AtTop(Var(x))
    OBVIOUS
  <2>2. PICK n \in DOMAIN trail : trail[n] = -x
    BY <1>16
  <2>3. Var(trail[n]) = Var(x)
    BY <1>3, <1>6, <2>2, LiteralFacts
  <2>4. QED
    BY <1>13, <2>1, <2>3, TopLevels DEF AtTop, LevelOf
<1>18. ASSUME NEW v \in FormulaModels PROVE \E x \in db[a].lits : True(v, x)
  BY <1>3 DEF IInv, ClausesFollow, Satisfies
<1>19. CASE IsFalse(f)
  <2>1. /\ ok' = (ok /\ decisionLevel # 0)
        /\ confl' = a
        /\ qhead' = Len(trail)
        /\ todo' = {}
        /\ UNCHANGED <<trail, reason, level>>
    BY <1>8, <1>19
  <2>2. Assigned'
    BY <1>8, <1>14, <1>15, <2>1, AssignedNext
  <2>3. \A x \in db[a].lits : IsFalse(x)
    BY <1>5, <1>19
  <2>4. Queue'
    <3>1. \A k \in DOMAIN trail_lim : trail_lim[k] < qhead /\ trail_lim[k] <= Len(trail)
      BY <1>3, <1>13, TrailFacts DEF IInv, Queue, Divided
    <3>2. -trail[qhead] \in db[a].lits
      BY <1>3, <1>6
    <3>3. a # 0
      BY <1>3 DEF IInv, Memory
    <3>4. /\ trail' = trail /\ trail_lim' = trail_lim /\ decisionLevel' = decisionLevel
          /\ \A x : IsFalse(x)' = IsFalse(x)
      BY <1>8, <2>1 DEF decisionLevel, IsFalse
    <3>5. decisionLevel = 0 => ~ok'
      BY <2>1
    <3>6. pc' \notin {"idle", "simplified", "decide"}
      BY <1>3, <1>8
    <3>7. /\ confl' \in DOMAIN db' /\ db'[confl'].lits = db[a].lits /\ todo' = {}
          /\ qhead' = Len(trail)
      BY <1>3, <1>9, <2>1
    <3>8. QED
      BY <1>3, <1>13, <2>3, <3>1, <3>2, <3>4, <3>5, <3>6, <3>7 DEF Queue
  <2>5. ClausesFollow'
    <3>1. CASE decisionLevel # 0
      <4>1. (ok => ok') /\ FormulaModels' = FormulaModels /\ \A b \in DOMAIN db : db'[b].lits = db[b].lits
        BY <1>2, <1>8, <1>9, <2>1, <3>1, KeepModels
      <4>2. QED
        BY <1>8, <1>9, <2>1, <4>1 DEF IInv, ClausesFollow, AtTop
    <3>2. CASE decisionLevel = 0
      <4>1. FormulaModels' = FormulaModels
        BY <1>8, KeepModels
      <4>2. ASSUME NEW v \in FormulaModels PROVE FALSE
        <5>1. f # s \/ f = s
          OBVIOUS
        <5>2. AtTop(Var(f))
          <6>1. PICK n \in DOMAIN trail : trail[n] = -f
            BY <1>19 DEF IsFalse, ToSet
          <6>2. Var(trail[n]) = Var(f)
            BY <1>3, <1>7, <6>1, LiteralFacts
          <6>3. QED
            BY <1>13, <3>2, <6>2, TopLevels DEF AtTop, LevelOf
        <5>3. \A x \in db[a].lits : IsFalse(x) /\ AtTop(Var(x))
          BY <1>17, <2>3, <3>2, <5>2
        <5>4. Satisfies(v, db[a].lits)
          BY <1>18 DEF Satisfies
        <5>5. QED
          BY <1>6, <5>3, <5>4, TopConflict
      <4>3. QED
        BY <4>1, <4>2 DEF ClausesFollow
    <3>3. QED
      BY <3>1, <3>2
  <2>6. QED
    BY <1>10, <1>11, <1>12, <2>2, <2>4, <2>5 DEF IInv
<1>20. CASE ~IsFalse(f)
  <2>1. /\ trail' = Append(trail, f)
        /\ reason' = [reason EXCEPT ![Var(f)] = a]
        /\ level' = [level EXCEPT ![Var(f)] = decisionLevel]
        /\ todo' = todo \ {a}
        /\ UNCHANGED <<ok, confl, qhead>>
    BY <1>8, <1>20
  <2>2. Var(f) \in Variable /\ decisionLevel \in Nat /\ level \in [Variable -> Int]
    BY <1>3, <1>7, <1>13, LiteralFacts, TrailFacts
  <2>3. \A n \in DOMAIN trail : Var(trail[n]) # Var(f)
    BY <1>3, <1>7, <1>8, <1>13, <1>20, FalseFacts
  <2>4. decisionLevel > root_level => AtLevel(level, db', a, decisionLevel)
    <3>1. SUFFICES ASSUME decisionLevel > root_level
                   PROVE  AtLevel(level, db', a, decisionLevel)
      OBVIOUS
    <3>2. LevelOf(qhead) = decisionLevel
      BY <1>3, <1>13, <3>1, FreshLevel DEF IInv, Queue
    <3>3. s \in db[a].lits \ {f}
      BY <1>3, <1>6, <1>20
    <3>4. Var(s) = Var(trail[qhead])
      BY <1>3, <1>13, LiteralFacts, TrailFacts
    <3>5. QED
      BY <1>9, <3>2, <3>3, <3>4 DEF AtLevel, Others, LevelOf
  <2>5. Assigned'
    <3>1. Enqueueable(trail, trail_lim, level, db', root_level, assumps, f, decisionLevel, a)
      <4>1. a # 0
        BY <1>3 DEF IInv, Memory
      <4>2. Others(db'[a]) = db[a].lits \ {f}
        BY <1>9 DEF Others
      <4>3. QED
        BY <1>3, <1>9, <1>16, <2>2, <2>3, <2>4, <4>1, <4>2 DEF Enqueueable, decisionLevel
    <3>2. \A b \in DOMAIN db' : db'[b].lits \subseteq Literal
      BY <1>2, <1>9 DEF IInv, Memory
    <3>3. a \in Nat
      BY <1>3 DEF IInv, Memory
    <3>4. Consistent(Append(trail, f), trail_lim, [level EXCEPT ![Var(f)] = decisionLevel],
                     [reason EXCEPT ![Var(f)] = a], db', root_level, assumps)
      BY <1>3, <1>7, <1>14, <3>1, <3>2, <3>3, Enqueued
    <3>5. Consistent(trail', trail_lim', level', reason', db', root_level', assumps')
      BY <1>8, <1>15, <2>1, <3>4
    <3>6. QED
      BY <1>8, <3>5, AssignedNext
  <2>6. Len(trail') = Len(trail) + 1 /\ \A n \in DOMAIN trail : trail'[n] = trail[n]
    BY <1>13, <2>1
  <2>7. Queue'
    <3>1. todo' \subseteq watches'[trail'[qhead']] \/ todo' = {}
      BY <1>3, <1>8, <2>1, <2>6 DEF IInv, Queue
    <3>2. qhead' \in 0 .. Len(trail') /\ qhead' >= 1
      BY <1>3, <1>13, <2>1, <2>6
    <3>3. \A k \in DOMAIN trail_lim' : trail_lim'[k] <= qhead' /\ (todo' # {} => trail_lim'[k] < qhead')
      BY <1>8, <2>1 DEF IInv, Queue
    <3>4. confl' = 0 /\ pc' \notin {"idle", "simplified", "decide"}
      BY <1>3, <1>8, <2>1
    <3>5. QED
      BY <3>1, <3>2, <3>3, <3>4 DEF Queue
  <2>8. ClausesFollow'
    <3>1. \A x \in ToSet(trail') : x = f \/ (x \in ToSet(trail) /\ Var(x) # Var(f) /\ Var(x) \in Variable)
      <4>1. SUFFICES ASSUME NEW n \in DOMAIN trail', trail'[n] # f
                     PROVE  n \in DOMAIN trail /\ trail'[n] = trail[n]
        BY <1>3, <1>13, <2>3, TrailFacts DEF ToSet
      <4>2. QED
        BY <1>13, <2>1, <4>1
    <3>2. ASSUME NEW v \in FormulaModels, decisionLevel = 0
          PROVE  True(v, f)
      <4>1. PICK x \in db[a].lits : True(v, x)
        BY <1>18
      <4>2. CASE x = f
        BY <4>1, <4>2
      <4>3. CASE x # f
        BY <1>5, <1>6, <1>17, <3>2, <4>1, <4>3, TopFalse
      <4>4. QED
        BY <4>2, <4>3
    <3>3. \A x \in ToSet(trail) : Var(x) # Var(f) /\ Var(x) \in Variable => level'[Var(x)] = level[Var(x)]
      BY <2>1, <2>2
    <3>4. level'[Var(f)] = decisionLevel
      BY <2>1, <2>2
    <3>5. \A b \in DOMAIN db' : db'[b].lits = db[b].lits
      BY <1>2, <1>9
    <3>6. FormulaModels' = FormulaModels
      BY <1>8, KeepModels
    <3>7. ASSUME NEW v \in FormulaModels
          PROVE  /\ ok'
                 /\ \A b \in DOMAIN db' : Satisfies(v, db'[b].lits)
                 /\ \A x \in ToSet(trail') : level'[Var(x)] = 0 => True(v, x)
      <4>1. ok' /\ \A b \in DOMAIN db' : Satisfies(v, db'[b].lits)
        BY <1>9, <2>1, <3>5 DEF IInv, ClausesFollow
      <4>2. ASSUME NEW x \in ToSet(trail'), level'[Var(x)] = 0 PROVE True(v, x)
        <5>1. CASE x = f
          BY <3>2, <3>4, <4>2, <5>1
        <5>2. CASE x # f
          BY <3>1, <3>3, <4>2, <5>2 DEF IInv, ClausesFollow, AtTop
        <5>3. QED
          BY <5>1, <5>2
      <4>3. QED
        BY <4>1, <4>2
    <3>8. QED
      BY <3>6, <3>7 DEF ClausesFollow, AtTop
  <2>9. QED
    BY <1>10, <1>11, <1>12, <2>5, <2>7, <2>8 DEF IInv
<1>21. QED
  BY <1>19, <1>20


-----------------------------------------------------------------------------
\* A fact on the trail is true in every model.
LEMMA FactFollows ==
  ASSUME IInv, NEW n \in DOMAIN trail, LevelOf(n) = 0, NEW v \in FormulaModels
  PROVE  True(v, trail[n])
  BY DEF IInv, ClausesFollow, AtTop, LevelOf, ToSet

\* What is to be shown of a step.
LEMMA StillFollow ==
  ASSUME \A v \in FormulaModels' :
           /\ ok'
           /\ \A a \in DOMAIN db' : Satisfies(v, db'[a].lits)
           /\ \A n \in DOMAIN trail' : level'[Var(trail'[n])] = 0 => True(v, trail'[n])
  PROVE  ClausesFollow'
  BY DEF ClausesFollow, AtTop, ToSet

\* Where a method waits for the end of propagate, all of the trail is propagated.
LEMMA Propagated ==
  ASSUME IInv, (\E method \in {"simplifyDB", "assume", "search"} : At(method)) \/ Deciding \/ Tidy
  PROVE  todo = {} /\ qhead = Len(trail)
<1>1. session \in Session /\ Assigned /\ qhead \in 0 .. Len(trail)
  BY DEF IInv, Calls, Queue
<1>2. Len(trail) \in Nat
  BY <1>1, TrailFacts
<1>3. CASE ~Propagating
  BY <1>1, <1>2, <1>3 DEF Propagating
<1>4. CASE pc \in {"simplified", "decide"}
  BY <1>4 DEF IInv, Queue
<1>5. QED
  BY <1>3, <1>4 DEF At, Deciding, Tidy, Ready

\* The assignment after a level is reverted to.
LEMMA CancelledAssigned ==
  ASSUME session \in Session, Assigned, NEW l \in 0 .. decisionLevel, cancelUntil(l),
         UNCHANGED <<session, db>>, root_level' \in Nat,
         l = 0 \/ UNCHANGED <<root_level, answers>>
  PROVE  Assigned'
<1>1. Consistent(trail', trail_lim', level', reason', db', root_level, assumps)
  BY Reverted DEF cancelUntil
<1>2. CASE l = 0
  <2>1. Len(trail_lim') = 0
    BY <1>2, TrailFacts DEF cancelUntil, Divided
  <2>2. Consistent(trail', trail_lim', level', reason', db', root_level', assumps')
    BY <1>1, <2>1, NothingAssumed
  <2>3. QED
    BY <2>2, AssignedNext
<1>3. CASE UNCHANGED <<root_level, answers>>
  <2>1. assumps' = assumps
    BY <1>3 DEF assumps
  <2>2. Consistent(trail', trail_lim', level', reason', db', root_level', assumps')
    BY <1>1, <1>3, <2>1
  <2>3. QED
    BY <2>2, AssignedNext
<1>4. QED
  BY <1>2, <1>3

LEMMA CancelledQueue ==
  ASSUME session \in Session, Assigned, NEW l \in 0 .. decisionLevel, cancelUntil(l),
         qhead = Len(trail), todo' = {}, confl' = 0, pc' \notin {"simplified", "decide"}
  PROVE  Queue'
<1>1. /\ Divided(trail, trail_lim) /\ decisionLevel \in Nat /\ DOMAIN trail_lim = 1 .. decisionLevel
      /\ Len(trail) \in Nat
  BY TrailFacts
<1>2. trail' = Cut(l) /\ trail_lim' = SubSeq(trail_lim, 1, l)
  BY DEF cancelUntil
<1>3. DOMAIN trail_lim' = 1 .. l /\ \A k \in 1 .. l : trail_lim'[k] = trail_lim[k]
  BY <1>1, <1>2 DEF Divided, decisionLevel
<1>4. qhead' = Len(Cut(l))
  BY <1>1, CutFacts DEF cancelUntil
<1>5. \A k \in 1 .. l : trail_lim[k] <= Len(Cut(l))
  <2>1. SUFFICES ASSUME NEW k \in 1 .. l PROVE trail_lim[k] <= Len(Cut(l))
    OBVIOUS
  <2>2. CASE l < decisionLevel
    <3>1. l + 1 \in DOMAIN trail_lim /\ k \in DOMAIN trail_lim /\ k <= l + 1
      BY <1>1, <2>2
    <3>2. trail_lim[k] <= trail_lim[l + 1]
      BY <1>1, <3>1 DEF Divided
    <3>3. QED
      BY <1>1, <2>2, <3>2, CutFacts
  <2>3. CASE l = decisionLevel
    BY <1>1, <2>3, CutFacts DEF Divided
  <2>4. QED
    BY <1>1, <2>2, <2>3
<1>6. Len(Cut(l)) \in 0 .. Len(Cut(l))
  BY <1>1, CutFacts
<1>7. QED
  BY <1>2, <1>3, <1>4, <1>5, <1>6 DEF Queue

LEMMA CancelledFollow ==
  ASSUME IInv, NEW l \in 0 .. decisionLevel, cancelUntil(l),
         UNCHANGED <<session, given, ok, db>>
  PROVE  ClausesFollow'
<1>1. session \in Session /\ Assigned
  BY DEF IInv, Calls
<1>2. \A n \in DOMAIN trail' : n \in DOMAIN trail /\ trail'[n] = trail[n]
  BY <1>1, TrailFacts, CutFacts DEF cancelUntil
<1>3. level' = level /\ FormulaModels' = FormulaModels
  BY KeepModels DEF cancelUntil
<1>4. ASSUME NEW v \in FormulaModels', NEW n \in DOMAIN trail', level'[Var(trail'[n])] = 0
      PROVE  True(v, trail'[n])
  BY <1>2, <1>3, <1>4, FactFollows DEF LevelOf
<1>5. QED
  BY <1>3, <1>4, StillFollow DEF IInv, ClausesFollow

LEMMA RestartIInv == IInv /\ Restart => IInv'
<1> SUFFICES ASSUME IInv, Restart PROVE IInv'
  OBVIOUS
<1> USE DEF memory, propagation
<1>1. /\ cancelUntil(root_level)
      /\ pc = "search" /\ confl = 0
      /\ UNCHANGED <<session, given, answers, memory, propagation, root_level, conflict, pc>>
  BY DEF Restart, Ready, At
<1>2. todo = {} /\ qhead = Len(trail)
  BY Propagated DEF Restart, Ready
<1>3. session \in Session /\ Assigned /\ root_level <= decisionLevel
  BY <1>1 DEF IInv, Calls
<1>4. root_level \in 0 .. decisionLevel
  BY <1>3, TrailFacts
<1>5. Assigned' /\ Queue' /\ ClausesFollow'
  BY <1>1, <1>2, <1>3, <1>4, CancelledAssigned, CancelledQueue, CancelledFollow
<1>6. decisionLevel' = root_level
  BY <1>1, <1>3, <1>4, TrailFacts DEF cancelUntil, decisionLevel, Divided
<1>7. Calls'
  BY <1>1, <1>4, <1>6 DEF IInv, Calls, InQuery, assumps
<1>8. Memory'
  BY <1>1, KeepMemory DEF IInv
<1>9. ConflictExplains'
  BY <1>1 DEF ConflictExplains
<1>10. QED
  BY <1>5, <1>7, <1>8, <1>9 DEF IInv

\* What is undone when a query is answered.
LEMMA AnsweredIInv ==
  ASSUME IInv, cancelUntil(0), todo = {}, todo' = {}, confl' = 0, qhead = Len(trail),
         UNCHANGED <<session, given, ok, db, watches, root_level>>,
         InQuery,
         \/ pc' = "assert" /\ answers' = answers
         \/ pc' = "idle" /\ answers' = Append(answers, Last(answers')) /\ ConflictExplains'
  PROVE  IInv'
<1>1. session \in Session /\ Assigned
  BY DEF IInv, Calls
<1>2. decisionLevel \in Nat /\ 0 \in 0 .. decisionLevel /\ root_level \in Nat
  BY <1>1, TrailFacts
<1>3. Assigned' /\ Queue' /\ ClausesFollow'
  BY <1>1, <1>2, CancelledAssigned, CancelledQueue, CancelledFollow
<1>4. decisionLevel' = 0
  BY <1>1, <1>2, TrailFacts DEF cancelUntil, decisionLevel, Divided
<1>5. Calls'
  BY <1>4 DEF IInv, Calls, InQuery
<1>6. Memory'
  BY KeepMemory DEF IInv
<1>7. ConflictExplains'
  BY DEF ConflictExplains
<1>8. QED
  BY <1>3, <1>5, <1>6, <1>7 DEF IInv

LEMMA FindModelIInv == IInv /\ FindModel => IInv'
<1> SUFFICES ASSUME IInv, FindModel PROVE IInv'
  OBVIOUS
<1>1. /\ Deciding /\ cancelUntil(0)
      /\ answers' = Append(answers, [result |-> "SAT", model |-> ToSet(trail)]) /\ pc' = "idle"
      /\ UNCHANGED <<session, given, memory, propagation, root_level>>
  BY DEF FindModel, Answer
<1>2. todo = {} /\ qhead = Len(trail) /\ confl = 0 /\ InQuery
  BY <1>1, Propagated DEF Deciding, Tidy, Ready, At, IInv, Queue, InQuery
<1>3. answers' = Append(answers, Last(answers')) /\ Last(answers').result = "SAT"
  BY <1>1 DEF IInv, Calls, Last
<1>4. ConflictExplains'
  BY <1>3 DEF ConflictExplains
<1>5. QED
  BY <1>1, <1>2, <1>3, <1>4, AnsweredIInv DEF memory, propagation


-----------------------------------------------------------------------------
\* A decision of search, or an assumption that has no value yet.
LEMMA DecidedIInv ==
  ASSUME IInv, todo = {}, qhead = Len(trail), confl = 0, NEW x \in Literal,
         ~IsTrue(x), ~IsFalse(x),
         decisionLevel < root_level => x \in ToSet(assumps),
         trail_lim' = Append(trail_lim, Len(trail)),
         trail' = Append(trail, x),
         reason' = [reason EXCEPT ![Var(x)] = 0],
         level' = [level EXCEPT ![Var(x)] = decisionLevel + 1],
         UNCHANGED <<session, given, answers, ok, db, watches, qhead, todo, confl, root_level>>,
         pc' \in {"assume", "search"}
  PROVE  Assigned' /\ Queue' /\ ClausesFollow'
<1>1. session \in Session /\ Assigned
  BY DEF IInv, Calls
<1>2. /\ Len(trail) \in Nat /\ DOMAIN trail = 1 .. Len(trail)
      /\ decisionLevel \in Nat /\ DOMAIN trail_lim = 1 .. decisionLevel
      /\ root_level \in Nat /\ level \in [Variable -> Int] /\ Divided(trail, trail_lim)
      /\ \A n \in DOMAIN trail : Var(trail[n]) \in Variable
  BY <1>1, TrailFacts
<1>3. Var(x) \in Variable
  BY <1>1, LiteralFacts
<1>4. \A n \in DOMAIN trail : Var(trail[n]) # Var(x)
  BY <1>1, FalseFacts
<1>5. /\ DOMAIN trail_lim' = 1 .. decisionLevel + 1 /\ Len(trail_lim') = decisionLevel + 1
      /\ trail_lim'[decisionLevel + 1] = Len(trail)
      /\ \A k \in DOMAIN trail_lim : trail_lim'[k] = trail_lim[k]
      /\ \A k \in DOMAIN trail_lim' : k \in DOMAIN trail_lim \/ k = decisionLevel + 1
  BY <1>2 DEF Divided, decisionLevel
<1>6. assumps' = assumps
  BY DEF assumps
<1>7. Assigned'
  <2>1. Consistent(trail, trail_lim', level, reason, db, root_level, assumps)
    BY <1>1, Opened DEF Assigned
  <2>2. Enqueueable(trail, trail_lim', level, db, root_level, assumps, x, decisionLevel + 1, 0)
    BY <1>2, <1>4, <1>5 DEF Enqueueable
  <2>3. \A b \in DOMAIN db : db[b].lits \subseteq Literal
    BY DEF IInv, Memory
  <2>4. Consistent(trail', trail_lim', level', reason', db, root_level, assumps)
    BY <1>1, <2>1, <2>2, <2>3, Enqueued
  <2>5. Consistent(trail', trail_lim', level', reason', db', root_level', assumps')
    BY <1>6, <2>4
  <2>6. QED
    BY <2>5, AssignedNext
<1>8. Queue'
  <2>1. Len(trail') = Len(trail) + 1
    BY <1>2
  <2>2. \A k \in DOMAIN trail_lim' : trail_lim'[k] <= qhead
    BY <1>2, <1>5 DEF Divided
  <2>3. QED
    BY <1>2, <2>1, <2>2 DEF Queue
<1>9. ClausesFollow'
  <2>1. FormulaModels' = FormulaModels
    BY KeepModels
  <2>2. ASSUME NEW v \in FormulaModels', NEW n \in DOMAIN trail', level'[Var(trail'[n])] = 0
        PROVE  True(v, trail'[n])
    <3>1. n \in DOMAIN trail \/ n = Len(trail) + 1
      BY <1>2
    <3>2. n # Len(trail) + 1
      BY <1>2, <1>3, <2>2
    <3>3. trail'[n] = trail[n] /\ LevelOf(n) = 0
      BY <1>2, <1>4, <2>2, <3>1, <3>2 DEF LevelOf
    <3>4. QED
      BY <2>1, <3>1, <3>2, <3>3, FactFollows
  <2>3. QED
    BY <2>1, <2>2, StillFollow DEF IInv, ClausesFollow
<1>10. QED
  BY <1>7, <1>8, <1>9

LEMMA DecideIInv == IInv /\ Decide => IInv'
<1> SUFFICES ASSUME IInv, Decide PROVE IInv'
  OBVIOUS
<1> USE DEF memory, propagation
<1>1. PICK v \in Selectable :
        /\ trail_lim' = Append(trail_lim, Len(trail))
        /\ trail' = Append(trail, -v)
        /\ reason' = [reason EXCEPT ![v] = 0]
        /\ level' = [level EXCEPT ![v] = decisionLevel + 1]
  BY DEF Decide
<1>2. /\ Deciding /\ pc' = "search"
      /\ UNCHANGED <<session, given, answers, memory, qhead, propagation, root_level, conflict>>
  BY DEF Decide
<1>3. /\ todo = {} /\ qhead = Len(trail) /\ confl = 0 /\ pc \in {"search", "simplified", "decide"}
      /\ session \in Session /\ Assigned /\ root_level <= decisionLevel
  BY <1>2, Propagated DEF Deciding, Tidy, Ready, At, IInv, Queue, Calls
<1>4. v \in Variable /\ IsUndef(v)
  BY <1>1 DEF Selectable
<1>5. /\ -v \in Literal /\ Var(-v) = v /\ ~IsTrue(-v) /\ ~IsFalse(-v)
      /\ decisionLevel \in Nat /\ root_level \in Nat
  BY <1>3, <1>4, LiteralFacts, TrailFacts DEF IsUndef, IsTrue, IsFalse
<1>6. Assigned' /\ Queue' /\ ClausesFollow'
  <2>1. ~(decisionLevel < root_level)
    BY <1>3, <1>5
  <2>2. UNCHANGED <<session, given, answers, ok, db, watches, qhead, todo, confl, root_level>>
    BY <1>2
  <2>3. QED
    BY <1>1, <1>2, <1>3, <1>5, <2>1, <2>2, DecidedIInv
<1>7. decisionLevel' = decisionLevel + 1
  BY <1>1, <1>3, TrailFacts DEF decisionLevel, Divided
<1>8. Calls'
  BY <1>2, <1>3, <1>5, <1>7 DEF IInv, Calls, InQuery, assumps
<1>9. Memory'
  BY <1>2, KeepMemory DEF IInv
<1>10. ConflictExplains'
  BY <1>2 DEF ConflictExplains
<1>11. QED
  BY <1>6, <1>8, <1>9, <1>10 DEF IInv

\* The next assumption.
LEMMA AssumptionFacts ==
  ASSUME IInv, At("assume"), decisionLevel < root_level
  PROVE  /\ assumps[decisionLevel + 1] \in Literal
         /\ assumps[decisionLevel + 1] \in ToSet(assumps)
         /\ \A y \in ToSet(assumps) : y \in Literal
         /\ -assumps[decisionLevel + 1] \notin ToSet(assumps)
<1> DEFINE q == Len(answers) + 1
<1>1. /\ session \in Session /\ Assigned /\ pc = "assume" /\ q \in 1 .. Len(session.queries)
      /\ root_level = Len(session.queries[q])
  BY CallFacts DEF IInv, Calls, InQuery, At, assumps
<1>2. decisionLevel \in Nat /\ root_level \in Nat
  BY <1>1, TrailFacts
<1>3. /\ DOMAIN session.queries[q] = 1 .. root_level
      /\ \A i \in 1 .. root_level : session.queries[q][i] \in Literal
  BY <1>1, CallFacts
<1>4. \A i, j \in DOMAIN session.queries[q] :
        i # j => Var(session.queries[q][i]) # Var(session.queries[q][j])
  BY <1>1, CallFacts, SessionAssumption
<1>5. decisionLevel + 1 \in 1 .. root_level
  BY <1>2
<1>6. assumps = session.queries[q]
  BY DEF assumps
<1> HIDE DEF q
<1>7. ASSUME -assumps[decisionLevel + 1] \in ToSet(assumps) PROVE FALSE
  <2>1. PICK j \in 1 .. root_level : session.queries[q][j] = -assumps[decisionLevel + 1]
    BY <1>3, <1>6, <1>7 DEF ToSet
  <2>2. Var(session.queries[q][j]) = Var(session.queries[q][decisionLevel + 1])
    BY <1>1, <1>3, <1>5, <1>6, <2>1, LiteralFacts
  <2>3. j = decisionLevel + 1
    BY <1>3, <1>4, <1>5, <2>2
  <2>4. QED
    BY <1>1, <1>3, <1>5, <1>6, <2>1, <2>3, LiteralFacts
<1>8. QED
  BY <1>3, <1>5, <1>6, <1>7 DEF ToSet

LEMMA AssumeIInv == IInv /\ Assume => IInv'
<1> SUFFICES ASSUME IInv, Assume PROVE IInv'
  OBVIOUS
<1> USE DEF memory, propagation
<1> DEFINE x == assumps[decisionLevel + 1]
<1>1. /\ At("assume") /\ confl = 0 /\ decisionLevel < root_level /\ ~IsFalse(x)
      /\ trail_lim' = Append(trail_lim, Len(trail))
      /\ IF IsTrue(x) THEN UNCHANGED <<trail, reason, level>>
         ELSE /\ trail' = Append(trail, x)
              /\ reason' = [reason EXCEPT ![Var(x)] = 0]
              /\ level' = [level EXCEPT ![Var(x)] = decisionLevel + 1]
      /\ UNCHANGED <<session, given, answers, memory, qhead, propagation, root_level, conflict, pc>>
  BY DEF Assume
<1>2. /\ todo = {} /\ qhead = Len(trail) /\ pc = "assume"
      /\ session \in Session /\ Assigned
  BY <1>1, Propagated DEF At, IInv, Calls
<1>3. /\ decisionLevel \in Nat /\ root_level \in Nat /\ Len(trail) \in Nat
      /\ Divided(trail, trail_lim) /\ DOMAIN trail_lim = 1 .. decisionLevel
  BY <1>2, TrailFacts
<1>4. x \in Literal /\ x \in ToSet(assumps)
  BY <1>1, AssumptionFacts
<1> HIDE DEF x
<1>5. decisionLevel' = decisionLevel + 1
  BY <1>1, <1>3 DEF decisionLevel, Divided
<1>6. Assigned' /\ Queue' /\ ClausesFollow'
  <2>1. CASE IsTrue(x)
    <3>1. UNCHANGED <<trail, reason, level>> /\ assumps' = assumps
      BY <1>1, <2>1 DEF assumps
    <3>2. Consistent(trail, trail_lim', level, reason, db, root_level, assumps)
      BY <1>1, <1>2, Opened DEF Assigned
    <3>3. Consistent(trail', trail_lim', level', reason', db', root_level', assumps')
      BY <1>1, <3>1, <3>2
    <3>4. Assigned'
      BY <1>1, <3>3, AssignedNext
    <3>5. \A k \in DOMAIN trail_lim' : trail_lim'[k] <= Len(trail)
      BY <1>1, <1>3 DEF Divided, decisionLevel
    <3>6. Queue'
      BY <1>1, <1>2, <1>3, <3>1, <3>5 DEF Queue
    <3>7. ClausesFollow'
      BY <1>1, <3>1, KeepFollowing DEF IInv
    <3>8. QED
      BY <3>4, <3>6, <3>7
  <2>2. CASE ~IsTrue(x)
    <3>1. UNCHANGED <<session, given, answers, ok, db, watches, qhead, todo, confl, root_level>>
      BY <1>1
    <3>2. QED
      BY <1>1, <1>2, <1>4, <2>2, <3>1, DecidedIInv
  <2>3. QED
    BY <2>1, <2>2
<1>7. Calls'
  BY <1>1, <1>2, <1>3, <1>5 DEF IInv, Calls, InQuery, assumps
<1>8. Memory'
  BY <1>1, KeepMemory DEF IInv
<1>9. ConflictExplains'
  BY <1>1, <1>2 DEF ConflictExplains
<1>10. QED
  BY <1>6, <1>7, <1>8, <1>9 DEF IInv


-----------------------------------------------------------------------------
\* Clauses that are no reasons are dropped.
LEMMA Dropped ==
  ASSUME IInv, NEW gone \in SUBSET DOMAIN db, \A a \in gone : ~locked(a),
         NEW lists \in [Literal -> SUBSET DOMAIN db], \A x \in Literal : lists[x] \subseteq watches[x],
         Drop(gone, lists), session' = session
  PROVE  /\ Memory'
         /\ Consistent(trail, trail_lim, level, reason, db', root_level, assumps)
         /\ \A a \in DOMAIN db' : a \in DOMAIN db /\ db'[a] = db[a]
<1>1. session \in Session /\ Assigned /\ Memory
  BY DEF IInv, Calls
<1>2. /\ DOMAIN db' = DOMAIN db \ gone /\ \A a \in DOMAIN db' : a \in DOMAIN db /\ db'[a] = db[a]
      /\ watches' = Unwatched(lists, gone)
  BY DEF Drop
<1>3. \A x \in Literal : watches'[x] = lists[x] \ {a \in gone : -x \in {db[a].first, db[a].second}}
  BY <1>2 DEF Unwatched
<1>4. \A x \in Literal : \A a \in watches'[x] : /\ a \in DOMAIN db'
                                               /\ -x \in {db'[a].first, db'[a].second}
  <2>1. SUFFICES ASSUME NEW x \in Literal, NEW a \in watches'[x]
                 PROVE  a \in DOMAIN db' /\ -x \in {db'[a].first, db'[a].second}
    OBVIOUS
  <2>2. a \in watches[x] /\ a \in DOMAIN db
    BY <1>3, <2>1
  <2>3. -x \in {db[a].first, db[a].second}
    BY <1>1, <2>2 DEF Memory
  <2>4. a \notin gone
    BY <1>3, <2>1, <2>3
  <2>5. QED
    BY <1>2, <2>2, <2>3, <2>4
<1>5. watches' \in [Literal -> SUBSET DOMAIN db']
  <2>1. DOMAIN watches' = Literal /\ watches' = [x \in Literal |-> watches'[x]]
    BY <1>2 DEF Unwatched
  <2>2. QED
    BY <1>4, <2>1
<1>6. Memory'
  <2>1. Literal' = Literal
    BY DEF Literal, Variable
  <2>2. IsFiniteSet(DOMAIN db')
    BY <1>1, <1>2, FS_Subset DEF Memory
  <2>3. /\ DOMAIN db' \subseteq Nat \ {0}
        /\ \A a \in DOMAIN db' :
             /\ db'[a] = Clause(db'[a].learnt, db'[a].first, db'[a].second, db'[a].lits, db'[a].id)
             /\ db'[a].lits \subseteq Literal
             /\ db'[a].first \in db'[a].lits
             /\ db'[a].second \in db'[a].lits
    BY <1>1, <1>2 DEF Memory
  <2>4. QED
    BY <1>4, <1>5, <2>1, <2>2, <2>3 DEF Memory, Clause
<1>7. Consistent(trail, trail_lim, level, reason, db', root_level, assumps)
  <2>1. ASSUME NEW n \in DOMAIN trail, reason[Var(trail[n])] # 0
        PROVE  /\ reason[Var(trail[n])] \in DOMAIN db'
               /\ db'[reason[Var(trail[n])]] = db[reason[Var(trail[n])]]
    <3> DEFINE a == reason[Var(trail[n])]
    <3>1. a \in DOMAIN db /\ db[a].first = trail[n]
      BY <1>1, <2>1, TrailFacts DEF Reasoned, Implies
    <3>2. locked(a)
      BY <3>1 DEF locked
    <3>3. QED
      BY <1>2, <3>1, <3>2
  <2>2. QED
    BY <1>1, <2>1, ReasonsKept DEF Assigned
<1>8. QED
  BY <1>2, <1>6, <1>7

\* simplifyDB, for any method it returns to.
LEMMA Simplified ==
  ASSUME IInv, NEW next, Simplify(next), session' = session
  PROVE  /\ Memory'
         /\ Consistent(trail, trail_lim, level, reason, db', root_level, assumps)
         /\ \A a \in DOMAIN db' : a \in DOMAIN db /\ db'[a] = db[a]
         /\ ok' = ok /\ pc' \in {next, "assert"}
<1> DEFINE satisfied == {a \in DOMAIN db : ~locked(a) /\ \E x \in db[a].lits : IsTrue(x)}
<1>1. CASE pc' = next /\ UNCHANGED memory
  BY <1>1, KeepMemory DEF IInv, Assigned, memory
<1>2. CASE Drop(satisfied, Cleared) /\ ok' = ok /\ pc' \in {next, "assert"}
  <2>1. Cleared \in [Literal -> SUBSET DOMAIN db] /\ \A x \in Literal : Cleared[x] \subseteq watches[x]
    BY DEF IInv, Memory, Cleared
  <2>2. satisfied \in SUBSET DOMAIN db /\ \A a \in satisfied : ~locked(a)
    OBVIOUS
  <2> HIDE DEF satisfied
  <2>3. QED
    BY <1>2, <2>1, <2>2, Dropped
<1>3. QED
  BY <1>1, <1>2 DEF Simplify

\* What follows, when clauses are dropped.
LEMMA FewerFollow ==
  ASSUME IInv, UNCHANGED <<session, given, trail, level>>, ok' = ok,
         \A a \in DOMAIN db' : a \in DOMAIN db /\ db'[a] = db[a]
  PROVE  ClausesFollow'
<1>1. FormulaModels' = FormulaModels
  BY KeepModels
<1>2. QED
  BY <1>1 DEF IInv, ClausesFollow, AtTop

LEMMA SimplifyDBIInv == IInv /\ SimplifyDB => IInv'
<1> SUFFICES ASSUME IInv, SimplifyDB PROVE IInv'
  OBVIOUS
<1> USE DEF assignment, propagation
<1>1. /\ At("simplifyDB") /\ confl = 0 /\ Simplify("assume") /\ root_level' = Len(assumps)
      /\ UNCHANGED <<session, given, answers, assignment, propagation, conflict>>
  BY DEF SimplifyDB
<1>2. /\ todo = {} /\ qhead = Len(trail) /\ decisionLevel = 0 /\ pc = "simplifyDB"
      /\ session \in Session /\ Assigned
  BY <1>1, Propagated DEF At, IInv, Calls
<1>3. /\ Memory'
      /\ Consistent(trail, trail_lim, level, reason, db', root_level, assumps)
      /\ \A a \in DOMAIN db' : a \in DOMAIN db /\ db'[a] = db[a]
      /\ ok' = ok /\ pc' \in {"assume", "assert"}
  BY <1>1, Simplified
<1>4. Len(answers) + 1 \in DOMAIN session.queries /\ Len(assumps) \in Nat
  BY <1>2, CallFacts DEF IInv, Calls, assumps
<1>5. Calls'
  BY <1>1, <1>2, <1>3, <1>4 DEF IInv, Calls, InQuery, decisionLevel, assumps
<1>6. Assigned'
  <2>1. Consistent(trail, trail_lim, level, reason, db', root_level', assumps')
    BY <1>1, <1>2, <1>3, <1>4, NothingAssumed DEF decisionLevel
  <2>2. Consistent(trail', trail_lim', level', reason', db', root_level', assumps')
    BY <1>1, <2>1
  <2>3. QED
    BY <1>1, <2>2, AssignedNext
<1>7. Queue'
  BY <1>1, <1>2, <1>3 DEF IInv, Queue, decisionLevel
<1>8. ClausesFollow'
  BY <1>1, <1>3, FewerFollow
<1>9. ConflictExplains'
  BY <1>3 DEF ConflictExplains
<1>10. QED
  BY <1>3, <1>5, <1>6, <1>7, <1>8, <1>9 DEF IInv

LEMMA SearchSimplifyIInv == IInv /\ SearchSimplify => IInv'
<1> SUFFICES ASSUME IInv, SearchSimplify PROVE IInv'
  OBVIOUS
<1> USE DEF assignment, propagation
<1>1. /\ Ready /\ Simplify("simplified")
      /\ UNCHANGED <<session, given, answers, assignment, propagation, root_level, conflict>>
  BY DEF SearchSimplify
<1>2. todo = {} /\ qhead = Len(trail) /\ confl = 0 /\ pc = "search" /\ Assigned
  BY <1>1, Propagated DEF Ready, At, IInv
<1>3. /\ Memory'
      /\ Consistent(trail, trail_lim, level, reason, db', root_level, assumps)
      /\ \A a \in DOMAIN db' : a \in DOMAIN db /\ db'[a] = db[a]
      /\ ok' = ok /\ pc' \in {"simplified", "assert"}
  BY <1>1, Simplified
<1>4. assumps' = assumps /\ decisionLevel' = decisionLevel
  BY <1>1 DEF assumps, decisionLevel
<1>5. Calls'
  BY <1>1, <1>2, <1>3, <1>4 DEF IInv, Calls, InQuery
<1>6. Assigned'
  <2>1. Consistent(trail', trail_lim', level', reason', db', root_level', assumps')
    BY <1>1, <1>3, <1>4
  <2>2. QED
    BY <1>1, <2>1, AssignedNext
<1>7. Queue'
  BY <1>1, <1>2, <1>3 DEF IInv, Queue
<1>8. ClausesFollow'
  BY <1>1, <1>3, FewerFollow
<1>9. ConflictExplains'
  BY <1>3 DEF ConflictExplains
<1>10. QED
  BY <1>3, <1>5, <1>6, <1>7, <1>8, <1>9 DEF IInv

LEMMA ReduceDBIInv == IInv /\ ReduceDB => IInv'
<1> SUFFICES ASSUME IInv, ReduceDB PROVE IInv'
  OBVIOUS
<1> USE DEF assignment, propagation
<1> DEFINE long == {a \in Learnts : Cardinality(db[a].lits) > 2}
           kept == {a \in long : locked(a)}
<1>1. PICK gone \in SUBSET (long \ kept) :
        Drop(gone, watches) /\ pc' \in {"decide", "assert"}
  BY DEF ReduceDB
<1>2. /\ Tidy
      /\ UNCHANGED <<session, given, answers, ok, assignment, propagation, root_level, conflict>>
  BY DEF ReduceDB
<1>3. /\ todo = {} /\ qhead = Len(trail) /\ confl = 0 /\ pc \in {"search", "simplified"}
  BY <1>2, Propagated DEF Tidy, Ready, At, IInv, Queue
<1>4. /\ Memory'
      /\ Consistent(trail, trail_lim, level, reason, db', root_level, assumps)
      /\ \A a \in DOMAIN db' : a \in DOMAIN db /\ db'[a] = db[a]
  <2>1. gone \in SUBSET DOMAIN db /\ \A a \in gone : ~locked(a)
    BY DEF Learnts
  <2>2. watches \in [Literal -> SUBSET DOMAIN db]
    BY DEF IInv, Memory
  <2>3. QED
    BY <1>1, <1>2, <2>1, <2>2, Dropped
<1>5. assumps' = assumps /\ decisionLevel' = decisionLevel
  BY <1>2 DEF assumps, decisionLevel
<1>6. Calls'
  BY <1>1, <1>2, <1>3, <1>5 DEF IInv, Calls, InQuery
<1>7. Assigned'
  <2>1. Consistent(trail', trail_lim', level', reason', db', root_level', assumps')
    BY <1>2, <1>4, <1>5
  <2>2. QED
    BY <1>2, <2>1, AssignedNext
<1>8. Queue'
  BY <1>1, <1>2, <1>3 DEF IInv, Queue
<1>9. ClausesFollow'
  BY <1>2, <1>4, FewerFollow
<1>10. ConflictExplains'
  BY <1>1 DEF ConflictExplains
<1>11. QED
  BY <1>4, <1>6, <1>7, <1>8, <1>9, <1>10 DEF IInv


-----------------------------------------------------------------------------
\* newClause puts a clause into memory.
LEMMA Remembered ==
  ASSUME IInv, NEW c, NEW f, NEW s, NEW lits,
         c = Clause(c.learnt, f, s, lits, c.id), lits \in SUBSET Literal, f \in lits, s \in lits,
         db' = [a \in DOMAIN db \cup {Address} |-> IF a = Address THEN c ELSE db[a]],
         watches' = Watching(c, Address),
         session' = session
  PROVE  /\ Memory'
         /\ Address \in Nat \ {0} /\ Address \notin DOMAIN db
         /\ DOMAIN db' = DOMAIN db \cup {Address}
         /\ \A a \in DOMAIN db : db'[a] = db[a]
         /\ db'[Address].first = f /\ db'[Address].lits = lits
<1>1. session \in Session /\ Memory
  BY DEF IInv, Calls
<1>2. Address \in Nat \ {0} /\ Address \notin DOMAIN db
  BY <1>1, AddressIsFree DEF Memory
<1> DEFINE n == Address
<1>3. c.first = f /\ c.second = s /\ c.lits = lits
  BY DEF Clause
<1>3a. c = Clause(c.learnt, c.first, c.second, c.lits, c.id)
  BY <1>3
<1>4. /\ DOMAIN db' = DOMAIN db \cup {n} /\ db'[n] = c /\ \A a \in DOMAIN db : db'[a] = db[a]
      /\ watches' = [watches EXCEPT ![-c.first] = @ \cup {n}, ![-c.second] = @ \cup {n}]
  BY <1>2 DEF Watching
<1> HIDE DEF n
<1>5. -f \in Literal /\ -s \in Literal /\ -(-f) = f /\ -(-s) = s
  BY <1>1, LiteralFacts
<1>6. watches' = [watches EXCEPT ![-f] = @ \cup {n}, ![-s] = @ \cup {n}]
  BY <1>3, <1>4
<1>7. watches \in [Literal -> SUBSET DOMAIN db]
  BY <1>1 DEF Memory
<1>8. watches' \in [Literal -> SUBSET DOMAIN db']
  <2> DEFINE D == SUBSET DOMAIN db'
  <2>1. watches \in [Literal -> D] /\ \A S \in D : S \cup {n} \in D
    BY <1>4, <1>7
  <2> HIDE DEF D
  <2>2. watches' \in [Literal -> D]
    BY <1>5, <1>6, <2>1
  <2>3. QED
    BY <2>2 DEF D
<1>9. \A x \in Literal : \A a \in watches'[x] :
        (a \in DOMAIN db /\ a \in watches[x]) \/ (a = n /\ x \in {-f, -s})
  BY <1>5, <1>6, <1>7
<1>10. \A x \in Literal : \A a \in watches'[x] : -x \in {db'[a].first, db'[a].second}
  <2>1. SUFFICES ASSUME NEW x \in Literal, NEW a \in watches'[x]
                 PROVE  -x \in {db'[a].first, db'[a].second}
    OBVIOUS
  <2>2. CASE a \in DOMAIN db /\ a \in watches[x]
    BY <1>1, <1>4, <2>2 DEF Memory
  <2>3. CASE a = n /\ x \in {-f, -s}
    BY <1>3, <1>4, <1>5, <2>3
  <2>4. QED
    BY <1>9, <2>2, <2>3
<1>11. \A a \in DOMAIN db' :
         /\ db'[a] = Clause(db'[a].learnt, db'[a].first, db'[a].second, db'[a].lits, db'[a].id)
         /\ db'[a].lits \subseteq Literal
         /\ db'[a].first \in db'[a].lits
         /\ db'[a].second \in db'[a].lits
  <2>1. SUFFICES ASSUME NEW a \in DOMAIN db'
                 PROVE  /\ db'[a] = Clause(db'[a].learnt, db'[a].first, db'[a].second,
                                           db'[a].lits, db'[a].id)
                        /\ db'[a].lits \subseteq Literal
                        /\ db'[a].first \in db'[a].lits
                        /\ db'[a].second \in db'[a].lits
    OBVIOUS
  <2>2. CASE a \in DOMAIN db
    BY <1>1, <1>4, <2>2 DEF Memory
  <2>3. CASE a = n
    BY <1>3, <1>3a, <1>4, <2>3
  <2>4. QED
    BY <1>4, <2>2, <2>3
<1>12. IsFiniteSet(DOMAIN db') /\ DOMAIN db' \subseteq Nat \ {0}
  BY <1>1, <1>2, <1>4, FS_AddElement DEF Memory, n
<1>13. Literal' = Literal
  BY DEF Literal, Variable
<1>14. Memory'
  BY <1>8, <1>10, <1>11, <1>12, <1>13, ZenonT(60) DEF Memory, Clause
<1>15. QED
  BY <1>2, <1>3, <1>4, <1>14 DEF n

\* A clause more, and fewer models.
LEMMA MoreGiven ==
  ASSUME IInv, given < Len(session.clauses), given' = given + 1, session' = session,
         NEW v \in FormulaModels'
  PROVE  v \in FormulaModels /\ Satisfies(v, session.clauses[given + 1])
<1>1. given \in Nat
  BY CallFacts DEF IInv, Calls
<1>2. Formula' = Formula \cup {session.clauses[given + 1]}
  BY <1>1 DEF Formula
<1>3. Variable' = Variable
  BY DEF Variable
<1>4. QED
  BY <1>2, <1>3 DEF FormulaModels, SatisfiesAll

LEMMA AddClauseIInv == IInv /\ AddClause => IInv'
<1> SUFFICES ASSUME IInv, AddClause PROVE IInv'
  OBVIOUS
<1> USE DEF memory, assignment, propagation
<1> DEFINE qs   == session.clauses[given + 1]
           kept == {x \in qs : ~IsFalse(x)}
           unit == First(kept)
           next == First(kept \ {unit})
<1>1. /\ pc = "idle" /\ given < Len(session.clauses) /\ given' = given + 1
      /\ UNCHANGED <<session, answers, propagation, root_level, conflict, pc>>
  BY DEF AddClause
<1>2. \E id :
        \/ UNCHANGED <<memory, assignment>>
        \/ /\ ok' = (kept # {})
           /\ IF Cardinality(kept) > 1
              THEN /\ db' = [a \in DOMAIN db \cup {Address} |->
                               IF a = Address THEN Clause(FALSE, unit, next, kept, id) ELSE db[a]]
                   /\ watches' = Watching(Clause(FALSE, unit, next, kept, id), Address)
              ELSE UNCHANGED <<db, watches>>
           /\ IF Cardinality(kept) = 1
              THEN /\ trail' = Append(trail, unit)
                   /\ reason' = [reason EXCEPT ![Var(unit)] = 0]
                   /\ level' = [level EXCEPT ![Var(unit)] = 0]
              ELSE UNCHANGED <<trail, reason, level>>
           /\ UNCHANGED <<trail_lim, qhead>>
           /\ \A x \in qs : ~IsTrue(x)
  BY DEF AddClause
<1>3. PICK id :
        \/ UNCHANGED <<memory, assignment>>
        \/ /\ ok' = (kept # {})
           /\ IF Cardinality(kept) > 1
              THEN /\ db' = [a \in DOMAIN db \cup {Address} |->
                               IF a = Address THEN Clause(FALSE, unit, next, kept, id) ELSE db[a]]
                   /\ watches' = Watching(Clause(FALSE, unit, next, kept, id), Address)
              ELSE UNCHANGED <<db, watches>>
           /\ IF Cardinality(kept) = 1
              THEN /\ trail' = Append(trail, unit)
                   /\ reason' = [reason EXCEPT ![Var(unit)] = 0]
                   /\ level' = [level EXCEPT ![Var(unit)] = 0]
              ELSE UNCHANGED <<trail, reason, level>>
           /\ UNCHANGED <<trail_lim, qhead>>
           /\ \A x \in qs : ~IsTrue(x)
  BY <1>2
<1>4. /\ session \in Session /\ Assigned /\ decisionLevel = 0 /\ answers = <<>>
      /\ todo = {} /\ confl = 0 /\ Len(trail_lim) = 0
  BY <1>1, CallFacts DEF IInv, Calls, Queue, decisionLevel
<1>5. given + 1 \in 1 .. Len(session.clauses) /\ given + 1 \in 0 .. Len(session.clauses)
  BY <1>1, <1>4, CallFacts DEF IInv, Calls
<1>6. qs \subseteq Literal
  BY <1>4, <1>5, CallFacts
<1>7. /\ Len(trail) \in Nat /\ DOMAIN trail = 1 .. Len(trail) /\ level \in [Variable -> Int]
      /\ trail_lim \in Seq(Nat) /\ DOMAIN trail_lim = {}
      /\ \A n \in DOMAIN trail : Var(trail[n]) \in Variable
  BY <1>4, TrailFacts DEF Divided
<1> HIDE DEF qs
<1>8. Calls'
  BY <1>1, <1>3, <1>4, <1>5 DEF IInv, Calls, InQuery, decisionLevel
<1>9. ConflictExplains'
  BY <1>1, <1>4 DEF ConflictExplains
<1>10. \A v \in FormulaModels' : v \in FormulaModels /\ Satisfies(v, qs)
  BY <1>1, MoreGiven DEF qs
<1>11. assumps' = assumps
  BY <1>1 DEF assumps
<1>12. CASE UNCHANGED <<memory, assignment>>
  <2>1. Memory' /\ Assigned'
    BY <1>1, <1>12, KeepMemory, KeepAssigned DEF IInv
  <2>2. Queue'
    BY <1>1, <1>4, <1>7, <1>12 DEF IInv, Queue
  <2>3. ClausesFollow'
    BY <1>10, <1>12 DEF IInv, ClausesFollow, AtTop
  <2>4. QED
    BY <1>8, <1>9, <2>1, <2>2, <2>3 DEF IInv
<1>13. CASE /\ ok' = (kept # {})
            /\ IF Cardinality(kept) > 1
               THEN /\ db' = [a \in DOMAIN db \cup {Address} |->
                                IF a = Address THEN Clause(FALSE, unit, next, kept, id) ELSE db[a]]
                    /\ watches' = Watching(Clause(FALSE, unit, next, kept, id), Address)
               ELSE UNCHANGED <<db, watches>>
            /\ IF Cardinality(kept) = 1
               THEN /\ trail' = Append(trail, unit)
                    /\ reason' = [reason EXCEPT ![Var(unit)] = 0]
                    /\ level' = [level EXCEPT ![Var(unit)] = 0]
               ELSE UNCHANGED <<trail, reason, level>>
            /\ UNCHANGED <<trail_lim, qhead>>
            /\ \A x \in qs : ~IsTrue(x)
  <2>1. \A x \in qs \ kept : IsFalse(x) /\ AtTop(Var(x))
    <3>1. SUFFICES ASSUME NEW x \in qs, IsFalse(x) PROVE AtTop(Var(x))
      OBVIOUS
    <3>2. PICK n \in DOMAIN trail : trail[n] = -x
      BY <1>4, <1>6, <3>1, FalseFacts
    <3>3. Var(trail[n]) = Var(x)
      BY <1>4, <1>6, <3>2, LiteralFacts
    <3>4. QED
      BY <1>4, <3>3, TopLevels DEF AtTop, LevelOf
  <2>2. \A v \in FormulaModels' : \E x \in kept : True(v, x)
    BY <1>6, <1>10, <2>1, TopFalse DEF Satisfies
  <2>3. kept \in SUBSET Literal /\ \A x \in kept : ~IsTrue(x) /\ ~IsFalse(x)
    BY <1>6, <1>13
  <2>4. kept # {} => unit \in kept
    BY <1>4, <2>3, FirstMember
  <2>5. \A v \in FormulaModels' : ok' /\ kept # {}
    BY <1>13, <2>2
  <2>6. Cardinality(kept) > 1 => next \in kept /\ unit \in kept
    <3>1. SUFFICES ASSUME Cardinality(kept) > 1 PROVE next \in kept /\ unit \in kept
      OBVIOUS
    <3>2. kept # {} /\ kept # {unit}
      <4> HIDE DEF kept, unit
      <4>1. Cardinality({}) = 0 /\ Cardinality({unit}) = 1
        BY FS_EmptySet, FS_Singleton
      <4>2. QED
        BY <3>1, <4>1
    <3>3. unit \in kept
      BY <2>4, <3>2
    <3>4. kept \ {unit} \in SUBSET Literal /\ kept \ {unit} # {}
      BY <2>3, <3>2, <3>3
    <3> HIDE DEF unit, kept
    <3>5. next \in kept \ {unit}
      BY <1>4, <3>4, FirstMember
    <3>6. QED
      BY <3>3, <3>5
  <2>7. Cardinality(kept) = 1 => unit \in kept /\ kept = {unit}
    <3>1. SUFFICES ASSUME Cardinality(kept) = 1 PROVE unit \in kept /\ kept = {unit}
      OBVIOUS
    <3>2. kept # {}
      BY <3>1, FS_EmptySet
    <3>3. unit \in kept
      BY <2>4, <3>2
    <3>4. \E x : kept = {x}
      <4>1. session.vars \in Nat
        BY <1>4, SessionAssumption
      <4>2. IsFiniteSet(Literal)
        <5>1. Literal \subseteq -session.vars .. session.vars /\ -session.vars \in Int /\ session.vars \in Int
          BY <4>1 DEF Literal, Variable
        <5>2. IsFiniteSet(-session.vars .. session.vars)
          BY <5>1, FS_Interval
        <5>3. QED
          BY <5>1, <5>2, FS_Subset
      <4>3. IsFiniteSet(kept)
        BY <2>3, <4>2, FS_Subset
      <4>4. QED
        BY <3>1, <4>3, FS_Singleton
    <3>5. QED
      BY <3>3, <3>4
  <2> HIDE DEF kept, unit, next
  <2>8. CASE Cardinality(kept) > 1
    <3>1. /\ db' = [a \in DOMAIN db \cup {Address} |->
                      IF a = Address THEN Clause(FALSE, unit, next, kept, id) ELSE db[a]]
          /\ watches' = Watching(Clause(FALSE, unit, next, kept, id), Address)
      BY <1>13, <2>8
    <3>2. Cardinality(kept) # 1
      BY <2>8
    <3>3. UNCHANGED <<trail, reason, level, trail_lim, qhead>>
      BY <1>13, <3>2
    <3>4. /\ Memory'
          /\ Address \in Nat \ {0} /\ Address \notin DOMAIN db
          /\ DOMAIN db' = DOMAIN db \cup {Address}
          /\ \A a \in DOMAIN db : db'[a] = db[a]
          /\ db'[Address].lits = kept
      <4> DEFINE c == Clause(FALSE, unit, next, kept, id)
      <4>1. next \in kept /\ unit \in kept /\ kept \in SUBSET Literal /\ session' = session
        BY <1>1, <2>3, <2>6, <2>8
      <4>2. c = Clause(c.learnt, unit, next, kept, c.id)
        BY DEF Clause
      <4>3. /\ db' = [a \in DOMAIN db \cup {Address} |-> IF a = Address THEN c ELSE db[a]]
            /\ watches' = Watching(c, Address)
        BY <3>1
      <4> HIDE DEF c
      <4>4. QED
        BY <4>1, <4>2, <4>3, Remembered
    <3>5. Assigned'
      <4>1. \A n \in DOMAIN trail : reason[Var(trail[n])] # 0 => reason[Var(trail[n])] \in DOMAIN db
        BY <1>4, TrailFacts DEF Reasoned, Implies
      <4>2. Consistent(trail, trail_lim, level, reason, db', root_level, assumps)
        BY <1>4, <3>4, <4>1, ReasonsKept DEF Assigned
      <4>3. Consistent(trail', trail_lim', level', reason', db', root_level', assumps')
        BY <1>1, <1>11, <3>3, <4>2
      <4>4. QED
        BY <1>1, <4>3, AssignedNext
    <3>6. Queue'
      BY <1>1, <1>4, <1>7, <3>3 DEF IInv, Queue
    <3>7. ClausesFollow'
      <4>1. ASSUME NEW v \in FormulaModels', NEW a \in DOMAIN db' PROVE Satisfies(v, db'[a].lits)
        <5>1. CASE a \in DOMAIN db
          BY <1>10, <3>4, <5>1 DEF IInv, ClausesFollow
        <5>2. CASE a = Address
          BY <2>2, <3>4, <5>2 DEF Satisfies
        <5>3. QED
          BY <3>4, <5>1, <5>2
      <4>2. QED
        BY <1>10, <2>5, <3>3, <4>1 DEF IInv, ClausesFollow, AtTop
    <3>8. QED
      BY <1>8, <1>9, <3>4, <3>5, <3>6, <3>7 DEF IInv
  <2>9. CASE Cardinality(kept) = 1
    <3>1. ~(Cardinality(kept) > 1)
      BY <2>9
    <3>2. /\ trail' = Append(trail, unit)
          /\ reason' = [reason EXCEPT ![Var(unit)] = 0]
          /\ level' = [level EXCEPT ![Var(unit)] = 0]
          /\ UNCHANGED <<trail_lim, qhead, db, watches>>
      BY <1>13, <2>9, <3>1
    <3>3. unit \in kept /\ kept = {unit}
      BY <2>7, <2>9
    <3>4. unit \in Literal /\ Var(unit) \in Variable /\ \A n \in DOMAIN trail : Var(trail[n]) # Var(unit)
      BY <1>4, <2>3, <3>3, FalseFacts, LiteralFacts
    <3>5. Memory'
      BY <1>1, <3>2, KeepMemory DEF IInv
    <3>6. Assigned'
      <4>1. Enqueueable(trail, trail_lim, level, db, root_level, assumps, unit, 0, 0)
        BY <1>4, <3>4 DEF Enqueueable
      <4>2. \A b \in DOMAIN db : db[b].lits \subseteq Literal
        BY DEF IInv, Memory
      <4>3. Consistent(trail, trail_lim, level, reason, db, root_level, assumps)
        BY <1>4 DEF Assigned
      <4>4. Consistent(trail', trail_lim, level', reason', db, root_level, assumps)
        <5>1. session \in Session /\ unit \in Literal /\ 0 \in Nat
          BY <1>4, <3>4
        <5>2. Consistent(Append(trail, unit), trail_lim, [level EXCEPT ![Var(unit)] = 0],
                         [reason EXCEPT ![Var(unit)] = 0], db, root_level, assumps)
          BY <4>1, <4>2, <4>3, <5>1, Enqueued
        <5>3. QED
          BY <3>2, <5>2
      <4>5. Consistent(trail', trail_lim', level', reason', db', root_level', assumps')
        BY <1>1, <1>11, <3>2, <4>4
      <4>6. QED
        BY <1>1, <4>5, AssignedNext
    <3>7. Queue'
      <4>1. Len(trail') = Len(trail) + 1
        BY <1>7, <3>2
      <4>2. QED
        BY <1>1, <1>4, <1>7, <3>2, <4>1 DEF IInv, Queue
    <3>8. ClausesFollow'
      <4>1. ASSUME NEW v \in FormulaModels', NEW n \in DOMAIN trail' PROVE True(v, trail'[n])
        <5>1. CASE n = Len(trail) + 1
          BY <1>7, <2>2, <3>2, <3>3, <5>1
        <5>2. CASE n # Len(trail) + 1
          <6>1. n \in DOMAIN trail /\ trail'[n] = trail[n]
            BY <1>7, <3>2, <5>2
          <6>2. LevelOf(n) = 0
            BY <1>4, <6>1, TopLevels
          <6>3. QED
            BY <1>10, <6>1, <6>2, FactFollows
        <5>3. QED
          BY <5>1, <5>2
      <4>2. QED
        BY <1>10, <2>5, <3>2, <4>1, StillFollow DEF IInv, ClausesFollow
    <3>9. QED
      BY <1>8, <1>9, <3>5, <3>6, <3>7, <3>8 DEF IInv
  <2>10. CASE ~(Cardinality(kept) > 1) /\ Cardinality(kept) # 1
    <3>1. UNCHANGED <<trail, reason, level, trail_lim, qhead, db, watches>>
      BY <1>13, <2>10
    <3>2. Memory' /\ Assigned'
      BY <1>1, <3>1, KeepMemory, KeepAssigned DEF IInv
    <3>3. Queue'
      BY <1>1, <1>4, <1>7, <3>1 DEF IInv, Queue
    <3>4. ClausesFollow'
      BY <1>10, <2>5, <3>1 DEF IInv, ClausesFollow, AtTop
    <3>5. QED
      BY <1>8, <1>9, <3>2, <3>3, <3>4 DEF IInv
  <2>11. QED
    BY <2>8, <2>9, <2>10
<1>14. QED
  BY <1>3, <1>12, <1>13


-----------------------------------------------------------------------------
(***************************************************************************)
(* analyzeFinal: each literal of the trail, from the last on.  The         *)
(* function that says what was found after n of them exists.               *)
(***************************************************************************)
LEMMA TraceBackFacts ==
  ASSUME Len(trail) \in Nat, NEW lits, NEW steps
  PROVE  /\ TraceBack(lits, steps)[0] = [seen |-> VarsOf(Deep(lits)), conflict |-> {}, steps |-> steps]
         /\ \A n \in 1 .. Len(trail) :
              TraceBack(lits, steps)[n]
                = Trace(TraceBack(lits, steps)[n - 1], trail[Len(trail) + 1 - n])
<1> DEFINE start == [seen |-> VarsOf(Deep(lits)), conflict |-> {}, steps |-> steps]
           F(w, n) == IF n = 0 THEN start ELSE Trace(w[n - 1], trail[Len(trail) + 1 - n])
           P(m) == \E w : w = [n \in 0 .. m |-> F(w, n)]
           T == {m \in 0 .. Len(trail) : ~P(m)}
<1>1. T = {}
  <2>1. SUFFICES ASSUME T # {} PROVE FALSE
    OBVIOUS
  <2> HIDE DEF P
  <2>2. T \in SUBSET Nat
    OBVIOUS
  <2>3. PICK m \in T : \A k \in T : m <= k
    <3> HIDE DEF T
    <3>1. QED
      BY <2>1, <2>2, LeastMember
  <2>4. m \in 0 .. Len(trail) /\ ~P(m)
    OBVIOUS
  <2>5. CASE m = 0
    <3> DEFINE w == [n \in 0 .. 0 |-> start]
    <3>1. w = [n \in 0 .. 0 |-> F(w, n)]
      <4>1. \A n \in 0 .. 0 : F(w, n) = start
        OBVIOUS
      <4> HIDE DEF F
      <4>2. QED
        BY <4>1
    <3> HIDE DEF w, F
    <3>2. QED
      BY <2>4, <2>5, <3>1 DEF P
  <2>6. CASE m # 0
    <3>1. m - 1 \in 0 .. Len(trail) /\ m - 1 \notin T
      BY <2>2, <2>3, <2>4, <2>6
    <3>2. P(m - 1)
      BY <3>1
    <3>3. PICK w : w = [n \in 0 .. m - 1 |-> F(w, n)]
      BY <3>2 DEF P
    <3> DEFINE u == [n \in 0 .. m |-> F(w, n)]
    <3>4. \A n \in 1 .. m : u[n - 1] = w[n - 1]
      <4> HIDE DEF F
      <4>1. \A n \in 1 .. m : n - 1 \in 0 .. m - 1 /\ n - 1 \in 0 .. m
        BY <2>4
      <4>2. QED
        BY <3>3, <4>1
    <3> HIDE DEF u
    <3>5. \A n \in 0 .. m : F(u, n) = F(w, n)
      <4>1. SUFFICES ASSUME NEW n \in 0 .. m PROVE F(u, n) = F(w, n)
        OBVIOUS
      <4>2. CASE n = 0
        BY <4>2
      <4>3. CASE n # 0
        <5>1. n \in 1 .. m
          BY <2>4, <4>3
        <5>2. u[n - 1] = w[n - 1]
          BY <3>4, <5>1
        <5>3. QED
          BY <4>3, <5>2
      <4>4. QED
        BY <4>2, <4>3
    <3> HIDE DEF F
    <3>6. u = [n \in 0 .. m |-> F(u, n)]
      BY <3>5 DEF u
    <3>7. QED
      BY <2>4, <3>6 DEF P
  <2>7. QED
    BY <2>5, <2>6
<1>2. \E w : w = [n \in 0 .. Len(trail) |-> F(w, n)]
  <2>1. Len(trail) \in 0 .. Len(trail)
    OBVIOUS
  <2>2. P(Len(trail))
    <3> HIDE DEF P
    <3>1. QED
      BY <1>1, <2>1
  <2>3. QED
    BY <2>2
<1> DEFINE R(w) == w = [n \in 0 .. Len(trail) |-> F(w, n)]
<1>3. R(CHOOSE w : R(w))
  <2> HIDE DEF F
  <2>1. \E w : R(w)
    BY <1>2
  <2> HIDE DEF R
  <2>2. QED
    BY <2>1
<1>4. TraceBack(lits, steps) = [n \in 0 .. Len(trail) |-> F(TraceBack(lits, steps), n)]
  BY <1>3 DEF TraceBack
<1>5. TraceBack(lits, steps)[0] = start
  <2>1. 0 \in 0 .. Len(trail)
    OBVIOUS
  <2> DEFINE w == TraceBack(lits, steps)
  <2>2. w[0] = F(w, 0)
    <3> HIDE DEF F, w
    <3>1. w = [n \in 0 .. Len(trail) |-> F(w, n)]
      BY <1>4 DEF w
    <3>2. QED
      BY <2>1, <3>1
  <2>3. QED
    BY <2>2
<1>6. ASSUME NEW n \in 1 .. Len(trail)
      PROVE  TraceBack(lits, steps)[n]
               = Trace(TraceBack(lits, steps)[n - 1], trail[Len(trail) + 1 - n])
  <2> DEFINE w == TraceBack(lits, steps)
  <2>1. w[n] = F(w, n)
    <3> HIDE DEF F, w
    <3>1. w = [k \in 0 .. Len(trail) |-> F(w, k)]
      BY <1>4 DEF w
    <3>2. QED
      BY <3>1
  <2> HIDE DEF w
  <2>2. w[n] = Trace(w[n - 1], trail[Len(trail) + 1 - n])
    BY <2>1
  <2>3. QED
    BY <2>2 DEF w
<1>7. QED
  BY <1>5, <1>6


\* The variables that the walk notes are on the trail, above the top level.
OnTrail(vs) == \A u \in vs : \E m \in DOMAIN trail : Var(trail[m]) = u /\ LevelOf(m) # 0

\* The clause at a reason, for a model in which it is not its first literal
\* that is true.
LEMMA ReasonFacts ==
  ASSUME IInv, NEW p \in DOMAIN trail, reason[Var(trail[p])] # 0
  PROVE  LET a == reason[Var(trail[p])] IN
         /\ a \in DOMAIN db /\ Antecedents(a) \subseteq Literal
         /\ \A y \in Antecedents(a) : IsFalse(y) /\ \E m \in 1 .. p - 1 : trail[m] = -y
         /\ OnTrail(VarsOf(Deep(Antecedents(a))))
         /\ \A v \in FormulaModels : True(v, -trail[p]) =>
              \E m \in 1 .. p - 1 : /\ Var(trail[m]) \in VarsOf(Deep(Antecedents(a)))
                                    /\ -trail[m] \in Antecedents(a)
                                    /\ True(v, -trail[m])
<1> DEFINE a == reason[Var(trail[p])]
<1>1. session \in Session /\ Assigned
  BY DEF IInv, Calls
<1>2. /\ a \in DOMAIN db /\ db[a].first = trail[p]
      /\ \A y \in Others(db[a]) : \E m \in 1 .. p - 1 : trail[m] = -y
  BY <1>1, TrailFacts DEF Reasoned, Implies
<1>3. Antecedents(a) = Others(db[a]) /\ db[a].lits \subseteq Literal /\ db[a].first \in db[a].lits
  BY <1>2 DEF Antecedents, Others, IInv, Memory
<1>4. DOMAIN trail = 1 .. Len(trail) /\ Len(trail) \in Nat /\ trail[p] \in Literal
  BY <1>1, TrailFacts
<1> HIDE DEF a
<1>5. Antecedents(a) \subseteq Literal
  BY <1>3 DEF Others
<1>6. \A m \in 1 .. p - 1 : m \in DOMAIN trail
  BY <1>4
<1>7. ASSUME NEW y \in Antecedents(a)
      PROVE  /\ IsFalse(y)
             /\ \E m \in 1 .. p - 1 : trail[m] = -y /\ -trail[m] = y /\ Var(trail[m]) = Var(y)
  <2>1. PICK m \in 1 .. p - 1 : trail[m] = -y
    BY <1>2, <1>3
  <2>2. m \in DOMAIN trail /\ y \in Literal
    BY <1>5, <1>6
  <2>3. -trail[m] = y /\ Var(trail[m]) = Var(y)
    BY <1>1, <2>1, <2>2, FalseFacts
  <2>4. IsFalse(y)
    BY <1>1, <2>1, <2>2, FalseFacts
  <2>5. QED
    BY <2>1, <2>3, <2>4
<1>8. OnTrail(VarsOf(Deep(Antecedents(a))))
  <2>1. SUFFICES ASSUME NEW y \in Antecedents(a), ~AtTop(Var(y))
                 PROVE  \E m \in DOMAIN trail : Var(trail[m]) = Var(y) /\ LevelOf(m) # 0
    BY DEF OnTrail, VarsOf, Deep
  <2>2. PICK m \in 1 .. p - 1 : Var(trail[m]) = Var(y)
    BY <1>7
  <2>3. QED
    BY <1>6, <2>1, <2>2 DEF LevelOf, AtTop
<1>9. ASSUME NEW v \in FormulaModels, True(v, -trail[p])
      PROVE  \E m \in 1 .. p - 1 : /\ Var(trail[m]) \in VarsOf(Deep(Antecedents(a)))
                                   /\ -trail[m] \in Antecedents(a)
                                   /\ True(v, -trail[m])
  <2>1. PICK y \in db[a].lits : True(v, y)
    BY <1>2 DEF IInv, ClausesFollow, Satisfies
  <2>2. y # trail[p]
    <3>1. v \in [Variable -> BOOLEAN]
      BY DEF FormulaModels
    <3>2. QED
      BY <1>1, <1>4, <1>9, <2>1, <3>1, TrueFacts
  <2>3. y \in Antecedents(a) /\ y \in Literal
    BY <1>2, <1>3, <2>1, <2>2 DEF Others
  <2>4. ~AtTop(Var(y))
    BY <1>7, <2>1, <2>3, TopFalse
  <2>5. PICK m \in 1 .. p - 1 : trail[m] = -y /\ -trail[m] = y /\ Var(trail[m]) = Var(y)
    BY <1>7, <2>3
  <2>6. Var(trail[m]) \in VarsOf(Deep(Antecedents(a)))
    BY <2>3, <2>4, <2>5 DEF VarsOf, Deep
  <2>7. QED
    BY <2>1, <2>3, <2>5, <2>6
<1>10. QED
  BY <1>2, <1>5, <1>7, <1>8, <1>9 DEF a

\* After n literals of the trail: the clause of the conflict and of what is
\* still to be traced follows.
Traced(w, lits, n) ==
  /\ w = [seen |-> w.seen, conflict |-> w.conflict, steps |-> w.steps]
  /\ OnTrail(w.seen)
  /\ w.conflict \subseteq {-x : x \in ToSet(assumps)}
  /\ \A v \in FormulaModels : Satisfies(v, lits) =>
       \/ Satisfies(v, w.conflict)
       \/ \E m \in 1 .. Len(trail) - n : Var(trail[m]) \in w.seen /\ True(v, -trail[m])

LEMMA TraceStart ==
  ASSUME IInv, NEW lits \in SUBSET Literal, \A x \in lits : IsFalse(x), NEW steps
  PROVE  Traced([seen |-> VarsOf(Deep(lits)), conflict |-> {}, steps |-> steps], lits, 0)
<1>1. session \in Session /\ Assigned
  BY DEF IInv, Calls
<1>2. Len(trail) \in Nat /\ DOMAIN trail = 1 .. Len(trail)
  BY <1>1, TrailFacts
<1>3. \A x \in lits : \E m \in 1 .. Len(trail) :
        trail[m] = -x /\ -trail[m] = x /\ Var(trail[m]) = Var(x)
  <2>1. SUFFICES ASSUME NEW x \in lits
                 PROVE  \E m \in 1 .. Len(trail) :
                          trail[m] = -x /\ -trail[m] = x /\ Var(trail[m]) = Var(x)
    OBVIOUS
  <2>2. x \in Literal /\ IsFalse(x)
    OBVIOUS
  <2>3. PICK m \in DOMAIN trail : trail[m] = -x
    BY <1>1, <2>2, FalseFacts
  <2>4. -trail[m] = x /\ Var(trail[m]) = Var(x)
    BY <1>1, <2>2, <2>3, FalseFacts
  <2>5. QED
    BY <1>2, <2>3, <2>4
<1>4. OnTrail(VarsOf(Deep(lits)))
  <2>1. SUFFICES ASSUME NEW x \in lits, ~AtTop(Var(x))
                 PROVE  \E m \in DOMAIN trail : Var(trail[m]) = Var(x) /\ LevelOf(m) # 0
    BY DEF OnTrail, VarsOf, Deep
  <2>2. QED
    BY <1>2, <1>3, <2>1 DEF LevelOf, AtTop
<1>5. ASSUME NEW v \in FormulaModels, Satisfies(v, lits)
      PROVE  \E m \in 1 .. Len(trail) - 0 : Var(trail[m]) \in VarsOf(Deep(lits)) /\ True(v, -trail[m])
  <2>1. PICK x \in lits : True(v, x)
    BY <1>5 DEF Satisfies
  <2>2. ~AtTop(Var(x))
    BY <2>1, TopFalse
  <2>3. PICK m \in 1 .. Len(trail) : -trail[m] = x /\ Var(trail[m]) = Var(x)
    BY <1>3
  <2>4. QED
    BY <1>2, <2>1, <2>2, <2>3 DEF VarsOf, Deep
<1>6. QED
  BY <1>4, <1>5 DEF Traced

LEMMA TraceStep ==
  ASSUME IInv, decisionLevel <= root_level, NEW lits, NEW n \in 1 .. Len(trail), NEW w,
         Traced(w, lits, n - 1)
  PROVE  Traced(Trace(w, trail[Len(trail) + 1 - n]), lits, n)
<1> DEFINE p == Len(trail) + 1 - n
           x == trail[p]
           a == reason[Var(x)]
           u == Trace(w, x)
<1>1. session \in Session /\ Assigned
  BY DEF IInv, Calls
<1>2. /\ Len(trail) \in Nat /\ DOMAIN trail = 1 .. Len(trail)
      /\ \A i, j \in DOMAIN trail : Var(trail[i]) = Var(trail[j]) => i = j
  BY <1>1, TrailFacts
<1>3. p \in DOMAIN trail /\ Len(trail) - n = p - 1 /\ Len(trail) - (n - 1) = p
  BY <1>2
<1>4. /\ w = [seen |-> w.seen, conflict |-> w.conflict, steps |-> w.steps]
      /\ OnTrail(w.seen)
      /\ w.conflict \subseteq {-y : y \in ToSet(assumps)}
      /\ \A v \in FormulaModels : Satisfies(v, lits) =>
           \/ Satisfies(v, w.conflict)
           \/ \E m \in 1 .. p : Var(trail[m]) \in w.seen /\ True(v, -trail[m])
  BY <1>3 DEF Traced
<1>5. \A m \in 1 .. p : m \in 1 .. p - 1 \/ m = p
  BY <1>2, <1>3
<1> HIDE DEF p
<1>6. CASE Var(x) \notin w.seen
  <2>1. u = w
    BY <1>6 DEF Trace
  <2>2. \A v \in FormulaModels : Satisfies(v, lits) =>
           \/ Satisfies(v, w.conflict)
           \/ \E m \in 1 .. p - 1 : Var(trail[m]) \in w.seen /\ True(v, -trail[m])
    BY <1>4, <1>5, <1>6
  <2>3. Traced(w, lits, n)
    BY <1>3, <1>4, <2>2 DEF Traced
  <2>4. QED
    BY <2>1, <2>3 DEF p
<1>7. CASE Var(x) \in w.seen /\ a = 0
  <2>1. u = [w EXCEPT !.conflict = @ \cup {-x}]
    BY <1>7 DEF Trace
  <2>2. /\ u.seen = w.seen /\ u.conflict = w.conflict \cup {-x} /\ u.steps = w.steps
        /\ u = [seen |-> u.seen, conflict |-> u.conflict, steps |-> u.steps]
    BY <1>4, <2>1
  <2>3. LevelOf(p) # 0
    BY <1>2, <1>3, <1>4, <1>7 DEF OnTrail
  <2>4. LevelOf(p) <= root_level
    <3>1. LevelOf(p) \in 0 .. decisionLevel /\ root_level \in Nat /\ decisionLevel \in Nat
      BY <1>1, <1>3, TrailFacts DEF Levelled, LevelOf, decisionLevel
    <3>2. QED
      BY <3>1
  <2>5. x \in ToSet(assumps)
    BY <1>1, <1>3, <1>7, <2>3, <2>4, TrailFacts DEF Reasoned, LevelOf
  <2> HIDE DEF u, x, a
  <2>6. \A v \in FormulaModels : Satisfies(v, lits) =>
           \/ Satisfies(v, u.conflict)
           \/ \E m \in 1 .. p - 1 : Var(trail[m]) \in u.seen /\ True(v, -trail[m])
    <3>1. SUFFICES ASSUME NEW v \in FormulaModels, Satisfies(v, lits)
                   PROVE  \/ Satisfies(v, u.conflict)
                          \/ \E m \in 1 .. p - 1 : Var(trail[m]) \in u.seen /\ True(v, -trail[m])
      OBVIOUS
    <3>2. CASE Satisfies(v, w.conflict)
      BY <2>2, <3>2 DEF Satisfies
    <3>3. CASE \E m \in 1 .. p : Var(trail[m]) \in w.seen /\ True(v, -trail[m])
      <4>1. PICK m \in 1 .. p : Var(trail[m]) \in w.seen /\ True(v, -trail[m])
        BY <3>3
      <4>2. CASE m = p
        BY <2>2, <4>1, <4>2 DEF Satisfies, x
      <4>3. CASE m # p
        BY <1>5, <2>2, <4>1, <4>3
      <4>4. QED
        BY <4>2, <4>3
    <3>4. QED
      BY <1>4, <3>1, <3>2, <3>3
  <2>7. Traced(u, lits, n)
    BY <1>3, <1>4, <2>2, <2>5, <2>6 DEF Traced
  <2>8. QED
    BY <2>7 DEF u, x, p
<1>8. CASE Var(x) \in w.seen /\ a # 0
  <2> DEFINE new == VarsOf(Deep(Antecedents(a)))
  <2>1. u = [w EXCEPT !.seen = @ \cup new, !.steps = @ \o ReasonSteps(Var(x))]
    BY <1>8 DEF Trace
  <2>2. /\ u.seen = w.seen \cup new /\ u.conflict = w.conflict
        /\ u = [seen |-> u.seen, conflict |-> u.conflict, steps |-> u.steps]
    <3> HIDE DEF new, u
    <3>1. QED
      BY <1>4, <2>1
  <2>3. /\ OnTrail(new)
        /\ \A v \in FormulaModels : True(v, -x) =>
             \E m \in 1 .. p - 1 : Var(trail[m]) \in new /\ True(v, -trail[m])
    BY <1>3, <1>8, ReasonFacts
  <2> HIDE DEF u, x, a, new
  <2>4. OnTrail(u.seen)
    BY <1>4, <2>2, <2>3 DEF OnTrail
  <2>5. \A v \in FormulaModels : Satisfies(v, lits) =>
           \/ Satisfies(v, u.conflict)
           \/ \E m \in 1 .. p - 1 : Var(trail[m]) \in u.seen /\ True(v, -trail[m])
    <3>1. SUFFICES ASSUME NEW v \in FormulaModels, Satisfies(v, lits)
                   PROVE  \/ Satisfies(v, u.conflict)
                          \/ \E m \in 1 .. p - 1 : Var(trail[m]) \in u.seen /\ True(v, -trail[m])
      OBVIOUS
    <3>2. CASE Satisfies(v, w.conflict)
      BY <2>2, <3>2
    <3>3. CASE \E m \in 1 .. p : Var(trail[m]) \in w.seen /\ True(v, -trail[m])
      <4>1. PICK m \in 1 .. p : Var(trail[m]) \in w.seen /\ True(v, -trail[m])
        BY <3>3
      <4>2. CASE m = p
        BY <2>2, <2>3, <4>1, <4>2 DEF x
      <4>3. CASE m # p
        BY <1>5, <2>2, <4>1, <4>3
      <4>4. QED
        BY <4>2, <4>3
    <3>4. QED
      BY <1>4, <3>1, <3>2, <3>3
  <2>6. Traced(u, lits, n)
    BY <1>3, <1>4, <2>2, <2>4, <2>5 DEF Traced
  <2>7. QED
    BY <2>6 DEF u, x, p
<1>9. QED
  BY <1>6, <1>7, <1>8

\* The conflict found is about assumptions, and true wherever the literals are.
LEMMA Explained ==
  ASSUME IInv, decisionLevel <= root_level, NEW steps,
         NEW lits \in SUBSET Literal, \A x \in lits : IsFalse(x)
  PROVE  /\ Assumed(lits, steps).conflict \subseteq {-x : x \in ToSet(assumps)}
         /\ \A v \in FormulaModels :
              Satisfies(v, lits) => Satisfies(v, Assumed(lits, steps).conflict)
<1> DEFINE w == TraceBack(lits, steps)
           T == {n \in 0 .. Len(trail) : ~Traced(w[n], lits, n)}
           K == Len(trail) - Len(Cut(0))
<1>1. session \in Session /\ Assigned
  BY DEF IInv, Calls
<1>2. /\ Len(trail) \in Nat /\ DOMAIN trail = 1 .. Len(trail) /\ 0 \in 0 .. decisionLevel
      /\ Divided(trail, trail_lim) /\ Levelled(trail, trail_lim, level, root_level)
      /\ \A i, j \in DOMAIN trail : Var(trail[i]) = Var(trail[j]) => i = j
  BY <1>1, TrailFacts
<1>2a. /\ w[0] = [seen |-> VarsOf(Deep(lits)), conflict |-> {}, steps |-> steps]
       /\ \A n \in 1 .. Len(trail) : w[n] = Trace(w[n - 1], trail[Len(trail) + 1 - n])
  <2>1. Len(trail) \in Nat
    BY <1>2
  <2>2. QED
    BY <2>1, TraceBackFacts
<1>3. T = {}
  <2>1. SUFFICES ASSUME T # {} PROVE FALSE
    OBVIOUS
  <2>2. PICK n \in T : \A m \in T : n <= m
    <3>1. T \in SUBSET Nat
      OBVIOUS
    <3> HIDE DEF T
    <3>2. QED
      BY <2>1, <3>1, LeastMember
  <2> HIDE DEF w
  <2>2a. n \in 0 .. Len(trail) /\ ~Traced(w[n], lits, n)
    BY <2>2
  <2> HIDE DEF T
  <2>3. CASE n = 0
    <3>1. Traced([seen |-> VarsOf(Deep(lits)), conflict |-> {}, steps |-> steps], lits, 0)
      BY TraceStart
    <3>2. QED
      BY <1>2a, <2>2a, <2>3, <3>1
  <2>4. CASE n # 0
    <3>1. n \in 1 .. Len(trail) /\ n - 1 \in 0 .. Len(trail) /\ n - 1 < n
      BY <1>2, <2>2a, <2>4
    <3>2. Traced(w[n - 1], lits, n - 1)
      BY <2>2, <3>1 DEF T
    <3>3. w[n] = Trace(w[n - 1], trail[Len(trail) + 1 - n])
      BY <1>2a, <3>1
    <3>4. Traced(w[n], lits, n)
      BY <3>1, <3>2, <3>3, TraceStep
    <3>5. QED
      BY <2>2a, <3>4
  <2>5. QED
    BY <2>3, <2>4
<1>4. Len(Cut(0)) \in 0 .. Len(trail) /\ DOMAIN Cut(0) = 1 .. Len(Cut(0))
  BY <1>2, CutFacts
<1>5. K \in 0 .. Len(trail) /\ Len(trail) - K = Len(Cut(0))
  BY <1>2, <1>4
<1>6. Traced(w[K], lits, K)
  <2> HIDE DEF K, w
  <2>1. QED
    BY <1>3, <1>5
<1>7. w[K] = Assumed(lits, steps)
  BY DEF Assumed
<1> HIDE DEF K, w
<1>8. ASSUME NEW m \in 1 .. Len(trail) - K, Var(trail[m]) \in w[K].seen PROVE FALSE
  <2>1. m \in DOMAIN Cut(0) /\ m \in DOMAIN trail
    BY <1>2, <1>4, <1>5
  <2>2. LevelOf(m) = 0
    BY <1>2, <2>1, CutLevels
  <2>3. LevelOf(m) # 0
    BY <1>2, <1>6, <1>8, <2>1 DEF Traced, OnTrail
  <2>4. QED
    BY <2>2, <2>3
<1>9. QED
  BY <1>6, <1>7, <1>8 DEF Traced


\* An answer with a conflict that explains it.
LEMMA AnswerExplains ==
  ASSUME IInv, NEW answer, answers' = Append(answers, answer),
         UNCHANGED <<session, given, ok>>,
         ok => /\ conflict' \subseteq {-x : x \in ToSet(assumps)}
               /\ \A v \in FormulaModels : Satisfies(v, conflict')
  PROVE  ConflictExplains'
<1>1. Len(answers') = Len(answers) + 1
  BY DEF IInv, Calls
<1>2. ToSet(session'.queries[Len(answers')]) = ToSet(assumps)
  BY <1>1 DEF assumps
<1>3. FormulaModels' = FormulaModels
  BY KeepModels
<1>4. QED
  BY <1>2, <1>3 DEF ConflictExplains

\* analyzeFinal of a conflict among assumptions and what they imply.
LEMMA FinalExplains ==
  ASSUME IInv, confl # 0, decisionLevel <= root_level, ok
  PROVE  LET c == analyzeFinal(confl, db[confl].lits).conflict IN
         /\ c \subseteq {-x : x \in ToSet(assumps)}
         /\ \A v \in FormulaModels : Satisfies(v, c)
<1>1. session \in Session /\ Assigned /\ Memory
  BY DEF IInv, Calls
<1>2. confl \in DOMAIN db /\ decisionLevel # 0 /\ \A x \in db[confl].lits : IsFalse(x)
  BY DEF IInv, Queue
<1>3. root_level # 0
  BY <1>1, <1>2, TrailFacts
<1> DEFINE lits  == db[confl].lits
           steps == UnitSteps(lits)
<1>4. analyzeFinal(confl, lits).conflict = Assumed(lits, steps).conflict
  BY <1>3 DEF analyzeFinal
<1>5. lits \in SUBSET Literal
  BY <1>1, <1>2 DEF Memory
<1>6. \A x \in lits : IsFalse(x)
  BY <1>2
<1>7. \A v \in FormulaModels : Satisfies(v, lits)
  BY <1>2 DEF IInv, ClausesFollow
<1> HIDE DEF lits, steps
<1>8. /\ Assumed(lits, steps).conflict \subseteq {-x : x \in ToSet(assumps)}
      /\ \A v \in FormulaModels : Satisfies(v, lits) => Satisfies(v, Assumed(lits, steps).conflict)
  BY <1>5, <1>6, Explained
<1>9. QED
  BY <1>4, <1>7, <1>8 DEF lits

LEMMA SearchConflictIInv == IInv /\ SearchConflict => IInv'
<1> SUFFICES ASSUME IInv, SearchConflict PROVE IInv'
  OBVIOUS
<1> DEFINE answer == [result |-> "UNSAT", model |-> {}]
<1>1. /\ At("search") /\ confl # 0 /\ decisionLevel = root_level
      /\ conflict' = analyzeFinal(confl, db[confl].lits).conflict
      /\ confl' = 0
      /\ answers' = Append(answers, answer) /\ pc' = "idle"
      /\ cancelUntil(0)
      /\ UNCHANGED <<session, given, ok, db, watches, todo, root_level>>
  BY DEF SearchConflict, Answer
<1>2. todo = {} /\ qhead = Len(trail) /\ InQuery
  BY <1>1, Propagated DEF At, InQuery
<1>3. decisionLevel <= root_level
  BY <1>1, TrailFacts DEF IInv, Calls
<1>4. ConflictExplains'
  BY <1>1, <1>3, FinalExplains, AnswerExplains
<1>5. answers' = Append(answers, Last(answers'))
  BY <1>1 DEF IInv, Calls, Last
<1>6. QED
  BY <1>1, <1>2, <1>4, <1>5, AnsweredIInv

LEMMA AssumeConflictIInv == IInv /\ AssumeConflict => IInv'
<1> SUFFICES ASSUME IInv, AssumeConflict PROVE IInv'
  OBVIOUS
<1> DEFINE answer == [result |-> "UNSAT", model |-> {}]
<1>1. /\ At("assume") /\ confl # 0
      /\ conflict' = analyzeFinal(confl, db[confl].lits).conflict
      /\ confl' = 0
      /\ \/ answers' = Append(answers, answer) /\ pc' = "idle"
         \/ answers' = answers /\ pc' = "assert"
      /\ cancelUntil(0)
      /\ UNCHANGED <<session, given, ok, db, watches, todo, root_level>>
  BY DEF AssumeConflict, Answer
<1>2. todo = {} /\ qhead = Len(trail) /\ InQuery
  BY <1>1, Propagated DEF At, InQuery
<1>3. CASE answers' = answers /\ pc' = "assert"
  BY <1>1, <1>2, <1>3, AnsweredIInv
<1>4. CASE answers' = Append(answers, answer) /\ pc' = "idle"
  <2>1. decisionLevel <= root_level
    BY <1>1 DEF IInv, Calls, At
  <2>2. ConflictExplains'
    BY <1>1, <1>4, <2>1, FinalExplains, AnswerExplains
  <2>3. answers' = Append(answers, Last(answers'))
    BY <1>4 DEF IInv, Calls, Last
  <2>4. QED
    BY <1>1, <1>2, <1>4, <2>2, <2>3, AnsweredIInv
<1>5. QED
  BY <1>1, <1>3, <1>4

\* The assumption that is false, with the conflict of its reason.
LEMMA FalseExplains ==
  ASSUME IInv, At("assume"), decisionLevel < root_level, NEW x, NEW a,
         x = assumps[decisionLevel + 1], a = reason[Var(x)], IsFalse(x), NEW c,
         c = (IF a # 0 THEN Assumed(Antecedents(a), <<>>).conflict \cup {-x} ELSE {-x})
  PROVE  c \subseteq {-y : y \in ToSet(assumps)} /\ \A v \in FormulaModels : Satisfies(v, c)
<1>1. session \in Session /\ Assigned /\ Memory
  BY DEF IInv, Calls
<1>2. x \in Literal /\ x \in ToSet(assumps) /\ -x \notin ToSet(assumps)
  BY AssumptionFacts
<1>3. PICK p \in DOMAIN trail : trail[p] = -x
  BY <1>1, <1>2, FalseFacts
<1>4. Var(trail[p]) = Var(x) /\ decisionLevel \in Nat /\ root_level \in Nat
  BY <1>1, <1>2, <1>3, FalseFacts, TrailFacts
<1>5. CASE a # 0
  <2> DEFINE lits == Antecedents(a)
             steps == <<>>
             d == Assumed(lits, steps).conflict
  <2>1. /\ a \in DOMAIN db /\ lits \in SUBSET Literal
        /\ \A y \in lits : IsFalse(y)
    BY <1>4, <1>5, ReasonFacts
  <2>2. db[a].first = trail[p]
    BY <1>1, <1>4, <1>5, TrailFacts DEF Reasoned, Implies
  <2>3. \A v \in FormulaModels : Satisfies(v, lits) \/ True(v, -x)
    BY <1>3, <2>1, <2>2 DEF IInv, ClausesFollow, Satisfies, Antecedents
  <2>4. decisionLevel <= root_level
    BY <1>4
  <2>5. c = d \cup {-x}
    BY <1>5
  <2> HIDE DEF lits, steps
  <2>6. /\ d \subseteq {-y : y \in ToSet(assumps)}
        /\ \A v \in FormulaModels : Satisfies(v, lits) => Satisfies(v, d)
    BY <2>1, <2>4, Explained
  <2> HIDE DEF d
  <2>7. QED
    BY <1>2, <2>3, <2>5, <2>6 DEF Satisfies
<1>6. CASE a = 0
  <2>1. LevelOf(p) = 0
    <3>1. LevelOf(p) \in 0 .. decisionLevel
      BY <1>1, TrailFacts DEF Levelled, LevelOf, decisionLevel
    <3>2. LevelOf(p) # 0 /\ LevelOf(p) <= root_level => trail[p] \in ToSet(assumps)
      BY <1>1, <1>4, <1>6, TrailFacts DEF Reasoned, LevelOf
    <3>3. LevelOf(p) <= root_level
      BY <1>4, <3>1
    <3>4. QED
      BY <1>2, <1>3, <3>2, <3>3
  <2>2. \A v \in FormulaModels : True(v, -x)
    BY <1>3, <2>1, FactFollows
  <2>3. c = {-x}
    BY <1>6
  <2>4. QED
    BY <1>2, <2>2, <2>3 DEF Satisfies
<1>7. QED
  BY <1>5, <1>6

LEMMA AssumeFalseIInv == IInv /\ AssumeFalse => IInv'
<1> SUFFICES ASSUME IInv, AssumeFalse PROVE IInv'
  OBVIOUS
<1> DEFINE answer == [result |-> "UNSAT", model |-> {}]
           x == assumps[decisionLevel + 1]
           a == reason[Var(x)]
           c == IF a # 0 THEN Assumed(Antecedents(a), <<>>).conflict \cup {-x} ELSE {-x}
<1>1. /\ At("assume") /\ confl = 0 /\ decisionLevel < root_level /\ IsFalse(x)
      /\ conflict' = c
      /\ \/ answers' = Append(answers, answer) /\ pc' = "idle"
         \/ answers' = answers /\ pc' = "assert"
      /\ cancelUntil(0)
      /\ UNCHANGED <<session, given, ok, db, watches, todo, confl, root_level>>
  BY DEF AssumeFalse, Answer, propagation
<1>2. todo = {} /\ qhead = Len(trail) /\ InQuery
  BY <1>1, Propagated DEF At, InQuery
<1>3. CASE answers' = answers /\ pc' = "assert"
  BY <1>1, <1>2, <1>3, AnsweredIInv
<1>4. CASE answers' = Append(answers, answer) /\ pc' = "idle"
  <2>1. c \subseteq {-y : y \in ToSet(assumps)} /\ \A v \in FormulaModels : Satisfies(v, c)
    <3>1. x = assumps[decisionLevel + 1] /\ a = reason[Var(x)]
      OBVIOUS
    <3>2. c = (IF a # 0 THEN Assumed(Antecedents(a), <<>>).conflict \cup {-x} ELSE {-x})
      OBVIOUS
    <3> HIDE DEF x, a, c
    <3>3. QED
      BY <1>1, <3>1, <3>2, FalseExplains
  <2> HIDE DEF c, answer
  <2>2. ConflictExplains'
    BY <1>1, <1>4, <2>1, AnswerExplains
  <2>3. answers' = Append(answers, Last(answers'))
    BY <1>4 DEF IInv, Calls, Last
  <2>4. QED
    BY <1>1, <1>2, <1>4, <2>2, <2>3, AnsweredIInv
<1>5. QED
  BY <1>1, <1>3, <1>4



-----------------------------------------------------------------------------
(***************************************************************************)
(* analyze: each literal of the trail, from the last on, until the unique  *)
(* implication point is found.                                             *)
(***************************************************************************)
WalkStart ==
  Note([seen |-> {}, path |-> 0, lits |-> {}, steps |-> UnitSteps(db[confl].lits), uip |-> 0],
       db[confl].lits)

LEMMA WalkFacts ==
  ASSUME Len(trail) \in Nat
  PROVE  /\ Walk[0] = WalkStart
         /\ \A n \in 1 .. Len(trail) : Walk[n] = Back(Walk[n - 1], trail[Len(trail) + 1 - n])
<1> DEFINE F(w, n) == IF n = 0 THEN WalkStart ELSE Back(w[n - 1], trail[Len(trail) + 1 - n])
           P(m) == \E w : w = [n \in 0 .. m |-> F(w, n)]
           T == {m \in 0 .. Len(trail) : ~P(m)}
<1>1. T = {}
  <2>1. SUFFICES ASSUME T # {} PROVE FALSE
    OBVIOUS
  <2> HIDE DEF P
  <2>2. T \in SUBSET Nat
    OBVIOUS
  <2>3. PICK m \in T : \A k \in T : m <= k
    <3> HIDE DEF T
    <3>1. QED
      BY <2>1, <2>2, LeastMember
  <2>4. m \in 0 .. Len(trail) /\ ~P(m)
    OBVIOUS
  <2>5. CASE m = 0
    <3> DEFINE w == [n \in 0 .. 0 |-> WalkStart]
    <3>1. w = [n \in 0 .. 0 |-> F(w, n)]
      <4>1. \A n \in 0 .. 0 : F(w, n) = WalkStart
        OBVIOUS
      <4> HIDE DEF F
      <4>2. QED
        BY <4>1
    <3> HIDE DEF w, F
    <3>2. QED
      BY <2>4, <2>5, <3>1 DEF P
  <2>6. CASE m # 0
    <3>1. m - 1 \in 0 .. Len(trail) /\ m - 1 \notin T
      BY <2>2, <2>3, <2>4, <2>6
    <3>2. P(m - 1)
      BY <3>1
    <3>3. PICK w : w = [n \in 0 .. m - 1 |-> F(w, n)]
      BY <3>2 DEF P
    <3> DEFINE u == [n \in 0 .. m |-> F(w, n)]
    <3>4. \A n \in 1 .. m : u[n - 1] = w[n - 1]
      <4> HIDE DEF F
      <4>1. \A n \in 1 .. m : n - 1 \in 0 .. m - 1 /\ n - 1 \in 0 .. m
        BY <2>4
      <4>2. QED
        BY <3>3, <4>1
    <3> HIDE DEF u
    <3>5. \A n \in 0 .. m : F(u, n) = F(w, n)
      <4>1. SUFFICES ASSUME NEW n \in 0 .. m PROVE F(u, n) = F(w, n)
        OBVIOUS
      <4>2. CASE n = 0
        BY <4>2
      <4>3. CASE n # 0
        <5>1. n \in 1 .. m
          BY <2>4, <4>3
        <5>2. u[n - 1] = w[n - 1]
          BY <3>4, <5>1
        <5>3. QED
          BY <4>3, <5>2
      <4>4. QED
        BY <4>2, <4>3
    <3> HIDE DEF F
    <3>6. u = [n \in 0 .. m |-> F(u, n)]
      BY <3>5 DEF u
    <3>7. QED
      BY <2>4, <3>6 DEF P
  <2>7. QED
    BY <2>5, <2>6
<1>2. \E w : w = [n \in 0 .. Len(trail) |-> F(w, n)]
  <2>1. Len(trail) \in 0 .. Len(trail)
    OBVIOUS
  <2>2. P(Len(trail))
    <3> HIDE DEF P
    <3>1. QED
      BY <1>1, <2>1
  <2>3. QED
    BY <2>2
<1> DEFINE R(w) == w = [n \in 0 .. Len(trail) |-> F(w, n)]
<1>3. R(CHOOSE w : R(w))
  <2> HIDE DEF F
  <2>1. \E w : R(w)
    BY <1>2
  <2> HIDE DEF R
  <2>2. QED
    BY <2>1
<1>4. Walk = [n \in 0 .. Len(trail) |-> F(Walk, n)]
  BY <1>3 DEF Walk, WalkStart
<1>5. Walk[0] = WalkStart
  <2>1. 0 \in 0 .. Len(trail)
    OBVIOUS
  <2> DEFINE w == Walk
  <2>2. w[0] = F(w, 0)
    <3> HIDE DEF F, w
    <3>1. w = [n \in 0 .. Len(trail) |-> F(w, n)]
      BY <1>4 DEF w
    <3>2. QED
      BY <2>1, <3>1
  <2>3. QED
    BY <2>2
<1>6. ASSUME NEW n \in 1 .. Len(trail)
      PROVE  Walk[n] = Back(Walk[n - 1], trail[Len(trail) + 1 - n])
  <2> DEFINE w == Walk
  <2>1. w[n] = F(w, n)
    <3> HIDE DEF F, w
    <3>1. w = [k \in 0 .. Len(trail) |-> F(w, k)]
      BY <1>4 DEF w
    <3>2. QED
      BY <3>1
  <2> HIDE DEF w
  <2>2. w[n] = Back(w[n - 1], trail[Len(trail) + 1 - n])
    BY <2>1
  <2>3. QED
    BY <2>2 DEF w
<1>7. QED
  BY <1>5, <1>6

\* False literals of these variables that are of the last decision's level.
OpenIn(vs) ==
  {x \in Literal : IsFalse(x) /\ Var(x) \in vs /\ level[Var(x)] = decisionLevel}

\* False literals of the levels below, but the top.
Below == {x \in Literal : IsFalse(x) /\ level[Var(x)] # 0 /\ level[Var(x)] # decisionLevel}

\* Two false literals are about different variables.
LEMMA FalseUnique ==
  ASSUME session \in Session, Assigned, NEW x \in Literal, NEW y \in Literal,
         IsFalse(x), IsFalse(y), Var(x) = Var(y)
  PROVE  x = y
<1>1. PICK m \in DOMAIN trail : trail[m] = -x
  BY FalseFacts
<1>2. Var(trail[m]) = Var(y) /\ x = -trail[m]
  BY <1>1, FalseFacts
<1>3. trail[m] = -y
  BY <1>2, FalseFacts
<1>4. QED
  BY <1>1, <1>3, LiteralFacts

LEMMA LiteralsFinite ==
  ASSUME session \in Session
  PROVE  IsFiniteSet(Literal)
<1>1. session.vars \in Nat
  BY SessionAssumption
<1>2. Literal \subseteq -session.vars .. session.vars
  BY <1>1 DEF Literal, Variable
<1>3. IsFiniteSet(-session.vars .. session.vars)
  BY <1>1, FS_Interval
<1>4. QED
  BY <1>2, <1>3, FS_Subset

\* What analyze has noted: the literals to keep, and how many are to resolve.
Noted(w) ==
  /\ w = [seen |-> w.seen, path |-> w.path, lits |-> w.lits, steps |-> w.steps, uip |-> w.uip]
  /\ w.lits \subseteq Below
  /\ w.seen \subseteq VarsOf(w.lits \cup OpenIn(w.seen))
  /\ w.path = Cardinality(OpenIn(w.seen))

LEMMA NoteFacts ==
  ASSUME session \in Session, Assigned, decisionLevel # 0, NEW w, Noted(w),
         NEW lits \in SUBSET Literal, \A x \in lits : IsFalse(x)
  PROVE  LET u == Note(w, lits) IN
         /\ Noted(u)
         /\ OpenIn(w.seen) \subseteq OpenIn(u.seen)
         /\ OpenIn(u.seen) \subseteq OpenIn(w.seen) \cup lits
         /\ w.lits \subseteq u.lits
         /\ Deep(lits) \subseteq u.lits \cup OpenIn(u.seen)
         /\ u.uip = w.uip
<1> DEFINE u       == Note(w, lits)
           new     == {x \in Deep(lits) : Var(x) \notin w.seen}
           current == {x \in new : level[Var(x)] = decisionLevel}
<1>1. u = [w EXCEPT !.seen = @ \cup VarsOf(new), !.path = @ + Cardinality(current),
                    !.lits = @ \cup (new \ current)]
  BY DEF Note
<1>2. new \subseteq lits /\ current \subseteq new /\ new \subseteq Literal
  BY DEF Deep
<1>3. \A x \in lits : x \in Literal /\ IsFalse(x)
  OBVIOUS
<1>4. new \ current \subseteq Below
  BY <1>2, <1>3 DEF Below, Deep, AtTop
<1>5. current \cap OpenIn(w.seen) = {}
  BY DEF OpenIn
<1>6. \A x \in Deep(lits) : x \in lits /\ (Var(x) \notin w.seen => x \in new)
  BY DEF Deep
<1>7. \A x \in new : level[Var(x)] = decisionLevel => x \in current
  OBVIOUS
<1>8. \A x \in lits : level[Var(x)] = decisionLevel => x \in Deep(lits)
  BY DEF Deep, AtTop
<1>9. \A x \in current : level[Var(x)] = decisionLevel
  OBVIOUS
<1> HIDE DEF new, current, u
<1>10. /\ u.seen = w.seen \cup VarsOf(new) /\ u.path = w.path + Cardinality(current)
       /\ u.lits = w.lits \cup (new \ current) /\ u.steps = w.steps /\ u.uip = w.uip
       /\ u = [seen |-> u.seen, path |-> u.path, lits |-> u.lits, steps |-> u.steps, uip |-> u.uip]
  <2>1. w = [seen |-> w.seen, path |-> w.path, lits |-> w.lits, steps |-> w.steps, uip |-> w.uip]
    BY DEF Noted
  <2>2. QED
    BY <1>1, <2>1
<1>11. OpenIn(u.seen) = OpenIn(w.seen) \cup current
  <2>1. ASSUME NEW x \in OpenIn(u.seen) PROVE x \in OpenIn(w.seen) \cup current
    <3>1. x \in Literal /\ IsFalse(x) /\ Var(x) \in u.seen /\ level[Var(x)] = decisionLevel
      BY DEF OpenIn
    <3>2. CASE Var(x) \in w.seen
      BY <3>1, <3>2 DEF OpenIn
    <3>3. CASE Var(x) \in VarsOf(new)
      <4>1. PICK y \in new : Var(x) = Var(y)
        BY <3>3 DEF VarsOf
      <4>2. x = y
        BY <1>2, <1>3, <3>1, <4>1, FalseUnique
      <4>3. QED
        BY <1>7, <3>1, <4>1, <4>2
    <3>4. QED
      BY <1>10, <3>1, <3>2, <3>3
  <2>2. OpenIn(w.seen) \subseteq OpenIn(u.seen)
    BY <1>10 DEF OpenIn
  <2>3. current \subseteq OpenIn(u.seen)
    BY <1>2, <1>3, <1>9, <1>10 DEF OpenIn, VarsOf
  <2>4. QED
    BY <2>1, <2>2, <2>3
<1>12. u.path = Cardinality(OpenIn(u.seen))
  <2>1. IsFiniteSet(OpenIn(w.seen)) /\ IsFiniteSet(current)
    <3>1. OpenIn(w.seen) \subseteq Literal /\ current \subseteq Literal
      BY <1>2 DEF OpenIn
    <3>2. QED
      BY <3>1, LiteralsFinite, FS_Subset
  <2>2. Cardinality(OpenIn(w.seen) \cup current)
          = Cardinality(OpenIn(w.seen)) + Cardinality(current)
    <3>1. /\ Cardinality(OpenIn(w.seen)) \in Nat /\ Cardinality(current) \in Nat
          /\ OpenIn(w.seen) \cap current = {}
      BY <1>5, <2>1, FS_CardinalityType
    <3>2. Cardinality(OpenIn(w.seen) \cap current) = 0
      BY <3>1, FS_EmptySet
    <3>3. Cardinality(OpenIn(w.seen) \cup current)
            = Cardinality(OpenIn(w.seen)) + Cardinality(current)
                - Cardinality(OpenIn(w.seen) \cap current)
      <4> DEFINE S == OpenIn(w.seen)
      <4> HIDE DEF S
      <4>1. IsFiniteSet(S) /\ IsFiniteSet(current)
        BY <2>1 DEF S
      <4>2. Cardinality(S \cup current) = Cardinality(S) + Cardinality(current) - Cardinality(S \cap current)
        BY <4>1, FS_Union
      <4>3. QED
        BY <4>2 DEF S
    <3>4. QED
      BY <3>1, <3>2, <3>3
  <2>3. QED
    BY <1>10, <1>11, <2>2 DEF Noted
<1>13. Deep(lits) \subseteq u.lits \cup OpenIn(u.seen)
  <2>1. SUFFICES ASSUME NEW x \in Deep(lits) PROVE x \in u.lits \cup OpenIn(u.seen)
    OBVIOUS
  <2>2. x \in lits /\ x \in Literal /\ IsFalse(x)
    BY <1>3, <1>6
  <2>3. CASE Var(x) \notin w.seen
    BY <1>6, <1>10, <1>11, <2>3
  <2>4. CASE Var(x) \in w.seen
    <3>1. PICK y \in w.lits \cup OpenIn(w.seen) : Var(y) = Var(x)
      BY <2>4 DEF Noted, VarsOf
    <3>2. y \in Literal /\ IsFalse(y)
      BY DEF Noted, Below, OpenIn
    <3>3. x = y
      BY <2>2, <3>1, <3>2, FalseUnique
    <3>4. QED
      BY <1>10, <1>11, <3>3
  <2>5. QED
    BY <2>3, <2>4
<1>14. u.seen \subseteq VarsOf(u.lits \cup OpenIn(u.seen))
  <2>1. ASSUME NEW v \in w.seen PROVE v \in VarsOf(u.lits \cup OpenIn(u.seen))
    <3>1. PICK y \in w.lits \cup OpenIn(w.seen) : Var(y) = v
      BY DEF Noted, VarsOf
    <3>2. y \in u.lits \cup OpenIn(u.seen)
      BY <1>10, <1>11, <3>1
    <3>3. QED
      BY <3>1, <3>2 DEF VarsOf
  <2>2. new \subseteq u.lits \cup OpenIn(u.seen)
    BY <1>10, <1>11
  <2>3. VarsOf(new) \subseteq VarsOf(u.lits \cup OpenIn(u.seen))
    BY <2>2 DEF VarsOf
  <2>4. QED
    BY <1>10, <2>1, <2>3
<1>15. u.lits \subseteq Below
  BY <1>4, <1>10 DEF Noted
<1>16. Noted(u)
  BY <1>10, <1>12, <1>14, <1>15 DEF Noted
<1>17. QED
  BY <1>2, <1>10, <1>11, <1>13, <1>16 DEF u



(***************************************************************************)
(* After n literals of the trail: the clause to be learnt so far, with     *)
(* what is still to be resolved, all of which lies further back, follows.  *)
(***************************************************************************)
Found(w, n) ==
  /\ Noted(w)
  /\ w.uip = 0 => /\ w.path # 0
                  /\ \A m \in DOMAIN trail : -trail[m] \in OpenIn(w.seen) => m <= Len(trail) - n
                  /\ \A v \in FormulaModels : Satisfies(v, w.lits \cup OpenIn(w.seen))
  /\ w.uip # 0 => /\ w.uip \in Literal /\ IsFalse(w.uip) /\ level[Var(w.uip)] = decisionLevel
                  /\ \A v \in FormulaModels : Satisfies(v, w.lits \cup {w.uip})

\* The methods that analyze runs in.
Conflicting == confl # 0 /\ decisionLevel > root_level

LEMMA ConflictFacts ==
  ASSUME IInv, Conflicting
  PROVE  /\ session \in Session /\ Assigned /\ decisionLevel # 0 /\ decisionLevel \in Nat
         /\ root_level \in Nat
         /\ confl \in DOMAIN db /\ db[confl].lits \in SUBSET Literal
         /\ \A x \in db[confl].lits : IsFalse(x)
         /\ \E n \in DOMAIN trail : -trail[n] \in db[confl].lits /\ LevelOf(n) = decisionLevel
<1>1. session \in Session /\ Assigned
  BY DEF IInv, Calls
<1>2. decisionLevel \in Nat /\ root_level \in Nat /\ decisionLevel > root_level
  BY <1>1, TrailFacts DEF Conflicting
<1>3. /\ confl \in DOMAIN db /\ \A x \in db[confl].lits : IsFalse(x)
      /\ \E n \in DOMAIN trail : /\ -trail[n] \in db[confl].lits
                                /\ \A k \in DOMAIN trail_lim : trail_lim[k] < n
  BY DEF IInv, Queue, Conflicting
<1>4. db[confl].lits \in SUBSET Literal
  BY <1>3 DEF IInv, Memory
<1>5. \E n \in DOMAIN trail : -trail[n] \in db[confl].lits /\ LevelOf(n) = decisionLevel
  BY <1>1, <1>2, <1>3, FreshLevel
<1>6. QED
  BY <1>1, <1>2, <1>3, <1>4, <1>5

\* A position of the trail, and the false literal there.
LEMMA PositionFacts ==
  ASSUME session \in Session, Assigned, NEW m \in DOMAIN trail
  PROVE  /\ -trail[m] \in Literal /\ IsFalse(-trail[m]) /\ Var(-trail[m]) = Var(trail[m])
         /\ -trail[m] # 0 /\ -(-trail[m]) = trail[m]
         /\ \A n \in DOMAIN trail : -trail[n] = -trail[m] => n = m
<1>1. trail[m] \in Literal
  BY TrailFacts
<1>2. /\ -trail[m] \in Literal /\ Var(-trail[m]) = Var(trail[m]) /\ -(-trail[m]) = trail[m]
      /\ -trail[m] # 0
  BY <1>1, LiteralFacts
<1>3. IsFalse(-trail[m])
  BY <1>2 DEF IsFalse, ToSet
<1>4. ASSUME NEW n \in DOMAIN trail, -trail[n] = -trail[m] PROVE n = m
  <2>1. trail[n] \in Literal
    BY TrailFacts
  <2>2. Var(trail[n]) = Var(trail[m])
    BY <1>2, <1>4, <2>1, LiteralFacts
  <2>3. QED
    BY <2>2, TrailFacts
<1>5. QED
  BY <1>2, <1>3, <1>4

LEMMA FoundStart ==
  ASSUME IInv, Conflicting
  PROVE  Found(WalkStart, 0)
<1> DEFINE c == db[confl].lits
           steps == UnitSteps(c)
           s == [seen |-> {}, path |-> 0, lits |-> {}, steps |-> steps, uip |-> 0]
           w == WalkStart
<1>1. /\ session \in Session /\ Assigned /\ decisionLevel # 0 /\ confl \in DOMAIN db
      /\ c \in SUBSET Literal /\ \A x \in c : IsFalse(x)
      /\ \E n \in DOMAIN trail : -trail[n] \in c /\ LevelOf(n) = decisionLevel
  BY ConflictFacts
<1>2. w = Note(s, c)
  BY DEF WalkStart
<1> HIDE DEF c, steps, w
<1>3. Noted(s)
  <2>1. OpenIn({}) = {}
    BY DEF OpenIn
  <2>2. QED
    BY <2>1, FS_EmptySet DEF Noted
<1>4. s.seen = {} /\ s.lits = {} /\ s.uip = 0
  OBVIOUS
<1> HIDE DEF s
<1>5. /\ Noted(w) /\ w.uip = 0 /\ Deep(c) \subseteq w.lits \cup OpenIn(w.seen)
      /\ OpenIn(w.seen) \subseteq c
  <2>1. OpenIn(s.seen) = {}
    BY <1>4 DEF OpenIn
  <2>2. QED
    BY <1>1, <1>2, <1>3, <1>4, <2>1, NoteFacts
<1>6. w.path # 0
  <2>1. PICK n \in DOMAIN trail : -trail[n] \in c /\ LevelOf(n) = decisionLevel
    BY <1>1
  <2>2. level[Var(-trail[n])] = decisionLevel
    BY <1>1, <2>1, PositionFacts DEF LevelOf
  <2>3. -trail[n] \in Deep(c)
    BY <1>1, <2>1, <2>2 DEF Deep, AtTop
  <2>4. -trail[n] \notin Below
    BY <2>2 DEF Below
  <2>5. -trail[n] \in OpenIn(w.seen)
    BY <1>5, <2>3, <2>4 DEF Noted
  <2>6. IsFiniteSet(OpenIn(w.seen))
    <3>1. OpenIn(w.seen) \subseteq Literal
      BY DEF OpenIn
    <3>2. QED
      BY <1>1, <3>1, LiteralsFinite, FS_Subset
  <2>7. QED
    BY <1>5, <2>5, <2>6, FS_EmptySet DEF Noted
<1>7. \A m \in DOMAIN trail : m <= Len(trail) - 0
  BY <1>1, TrailFacts
<1>8. ASSUME NEW v \in FormulaModels PROVE Satisfies(v, w.lits \cup OpenIn(w.seen))
  <2>1. PICK x \in c : True(v, x)
    BY <1>1 DEF IInv, ClausesFollow, Satisfies, c
  <2>2. ~AtTop(Var(x))
    BY <1>1, <2>1, TopFalse
  <2>3. x \in w.lits \cup OpenIn(w.seen)
    BY <1>5, <2>2 DEF Deep
  <2>4. QED
    BY <2>1, <2>3 DEF Satisfies
<1>9. Found(w, 0)
  BY <1>5, <1>6, <1>7, <1>8 DEF Found
<1>10. QED
  BY <1>9 DEF w

\* A literal that was met: it is taken off the open ones.
Passed(w, x) == [w EXCEPT !.seen = @ \ {Var(x)}, !.path = @ - 1]

\* A literal of the trail that is to be resolved away, or that is the unique
\* implication point if it is the last one.
LEMMA StepFacts ==
  ASSUME IInv, Conflicting, NEW n \in 1 .. Len(trail), NEW w, Found(w, n - 1),
         NEW p, p = Len(trail) + 1 - n, w.uip = 0, Var(trail[p]) \in w.seen
  PROVE  LET x == trail[p]
             b == Passed(w, x)
         IN
         /\ b.seen = w.seen \ {Var(x)} /\ b.path = w.path - 1 /\ b.lits = w.lits
         /\ b.steps = w.steps /\ b.uip = 0
         /\ b = [seen |-> b.seen, path |-> b.path, lits |-> b.lits, steps |-> b.steps, uip |-> b.uip]
         /\ p \in DOMAIN trail /\ -x \in OpenIn(w.seen) /\ OpenIn(b.seen) = OpenIn(w.seen) \ {-x}
         /\ b.path = Cardinality(OpenIn(b.seen)) /\ IsFiniteSet(OpenIn(b.seen))
         /\ Noted(b)
         /\ b.path # 0 => reason[Var(x)] # 0
<1> DEFINE x == trail[p]
           a == reason[Var(x)]
           b == Passed(w, x)
<1>1. session \in Session /\ Assigned /\ decisionLevel # 0 /\ decisionLevel > root_level
  BY ConflictFacts DEF Conflicting
<1>2. Len(trail) \in Nat /\ DOMAIN trail = 1 .. Len(trail)
  BY <1>1, TrailFacts
<1>3. p \in DOMAIN trail /\ Len(trail) - n = p - 1 /\ Len(trail) - (n - 1) = p
  BY <1>2
<1>4. /\ Noted(w)
      /\ w.uip = 0 => /\ w.path # 0
                      /\ \A m \in DOMAIN trail : -trail[m] \in OpenIn(w.seen) => m <= p
                      /\ \A v \in FormulaModels : Satisfies(v, w.lits \cup OpenIn(w.seen))
      /\ w.uip # 0 => /\ w.uip \in Literal /\ IsFalse(w.uip) /\ level[Var(w.uip)] = decisionLevel
                      /\ \A v \in FormulaModels : Satisfies(v, w.lits \cup {w.uip})
  BY <1>3 DEF Found
<1>5. \A m \in DOMAIN trail : m <= p /\ m # p => m <= p - 1 /\ m \in 1 .. p - 1
  BY <1>2, <1>3
<1>6. w.uip = 0 /\ Var(x) \in w.seen
  OBVIOUS
<1>7. /\ b.seen = w.seen \ {Var(x)} /\ b.path = w.path - 1 /\ b.lits = w.lits
      /\ b.steps = w.steps /\ b.uip = 0
      /\ b = [seen |-> b.seen, path |-> b.path, lits |-> b.lits, steps |-> b.steps, uip |-> b.uip]
  <2>1. w = [seen |-> w.seen, path |-> w.path, lits |-> w.lits, steps |-> w.steps, uip |-> w.uip]
    BY <1>4 DEF Noted
  <2> DEFINE seen == w.seen \ {Var(x)}
             path == w.path - 1
  <2>2. b = [[w EXCEPT !.seen = seen] EXCEPT !.path = path]
    BY DEF Passed
  <2> HIDE DEF seen, path, b
  <2>3. b = [seen |-> seen, path |-> path, lits |-> w.lits, steps |-> w.steps, uip |-> w.uip]
    BY <2>1, <2>2
  <2>4. /\ b.seen = seen /\ b.path = path /\ b.lits = w.lits /\ b.steps = w.steps
        /\ b.uip = w.uip
    BY <2>3
  <2>5. QED
    BY <1>6, <2>3, <2>4 DEF seen, path
<1> HIDE DEF b
<1>8. /\ OpenIn(w.seen) \subseteq Literal /\ IsFiniteSet(OpenIn(w.seen))
      /\ Cardinality(OpenIn(w.seen)) = w.path /\ OpenIn(w.seen) # {}
  <2>1. OpenIn(w.seen) \subseteq Literal
    BY DEF OpenIn
  <2>2. IsFiniteSet(OpenIn(w.seen))
    BY <1>1, <2>1, LiteralsFinite, FS_Subset
  <2>3. QED
    BY <1>4, <1>6, <2>1, <2>2, FS_EmptySet DEF Noted
<1>9. ASSUME NEW y \in OpenIn(w.seen)
      PROVE  \E m \in DOMAIN trail : /\ y = -trail[m] /\ LevelOf(m) = decisionLevel /\ m <= p
                                     /\ \A k \in DOMAIN trail_lim : trail_lim[k] < m
  <2>1. y \in Literal /\ IsFalse(y) /\ level[Var(y)] = decisionLevel
    BY DEF OpenIn
  <2>2. PICK m \in DOMAIN trail : trail[m] = -y
    BY <1>1, <2>1, FalseFacts
  <2>3. y = -trail[m] /\ Var(trail[m]) = Var(y)
    BY <1>1, <2>1, <2>2, FalseFacts
  <2>4. LevelOf(m) = decisionLevel /\ m <= p
    BY <1>4, <1>6, <2>1, <2>3 DEF LevelOf
  <2>5. \A k \in DOMAIN trail_lim : trail_lim[k] < m <=> k <= decisionLevel
    BY <1>1, <2>4, TrailFacts DEF Levelled, LevelOf
  <2>6. \A k \in DOMAIN trail_lim : k <= decisionLevel
    BY <1>1, TrailFacts
  <2>7. QED
    BY <2>3, <2>4, <2>5, <2>6
<1>10. LevelOf(p) = decisionLevel /\ \A k \in DOMAIN trail_lim : trail_lim[k] < p
  <2>1. PICK m \in DOMAIN trail : m <= p /\ \A k \in DOMAIN trail_lim : trail_lim[k] < m
    BY <1>8, <1>9
  <2>2. ASSUME NEW k \in DOMAIN trail_lim PROVE trail_lim[k] < p
    <3>1. trail_lim[k] \in Nat /\ m \in Nat /\ p \in Nat
      BY <1>1, <1>2, <1>3, TrailFacts DEF Divided
    <3>2. QED
      BY <2>1, <3>1
  <2>3. QED
    BY <1>1, <1>3, <2>2, FreshLevel
<1>11. -x \in OpenIn(w.seen)
  BY <1>1, <1>3, <1>6, <1>10, PositionFacts DEF OpenIn, LevelOf
<1>12. OpenIn(b.seen) = OpenIn(w.seen) \ {-x}
  <2>1. ASSUME NEW y \in OpenIn(w.seen), y # -x PROVE Var(y) # Var(x)
    <3>1. y \in Literal /\ IsFalse(y)
      BY DEF OpenIn
    <3>2. -x \in Literal /\ IsFalse(-x) /\ Var(-x) = Var(x)
      BY <1>1, <1>3, PositionFacts
    <3>3. QED
      BY <1>1, <2>1, <3>1, <3>2, FalseUnique
  <2>2. Var(-x) = Var(x)
    BY <1>1, <1>3, PositionFacts
  <2>3. QED
    BY <1>7, <2>1, <2>2 DEF OpenIn
<1>13. b.path = Cardinality(OpenIn(b.seen)) /\ IsFiniteSet(OpenIn(b.seen))
  <2> DEFINE S == OpenIn(w.seen)
             y == -x
  <2>1. IsFiniteSet(S) /\ Cardinality(S) = w.path /\ y \in S
    BY <1>8, <1>11
  <2> HIDE DEF S, y
  <2>2. IsFiniteSet(S \ {y}) /\ Cardinality(S \ {y}) = w.path - 1
    BY <2>1, FS_RemoveElement
  <2> QED BY <1>7, <1>12, <2>2 DEF S, y
<1>14. Noted(b)
  <2>1. ASSUME NEW v \in b.seen PROVE v \in VarsOf(b.lits \cup OpenIn(b.seen))
    <3>1. v \in w.seen /\ v # Var(x)
      BY <1>7
    <3>2. PICK y \in w.lits \cup OpenIn(w.seen) : Var(y) = v
      BY <1>4, <3>1 DEF Noted, VarsOf
    <3>3. Var(-x) = Var(x)
      BY <1>1, <1>3, PositionFacts
    <3>4. QED
      BY <1>7, <1>12, <3>1, <3>2, <3>3 DEF VarsOf
  <2>2. b.lits \subseteq Below
    BY <1>4, <1>7 DEF Noted
  <2>3. QED
    BY <1>7, <1>13, <2>1, <2>2 DEF Noted
<1>15. b.path # 0 => a # 0
  <2>1. SUFFICES ASSUME b.path # 0, a = 0 PROVE FALSE
    OBVIOUS
  <2>2. p = trail_lim[decisionLevel] + 1
    BY <1>1, <1>3, <1>10, <2>1, TrailFacts DEF Reasoned, LevelOf
  <2>3. PICK y \in OpenIn(b.seen) : TRUE
    BY <1>13, <2>1, FS_EmptySet
  <2>4. y \in OpenIn(w.seen) /\ y # -x
    BY <1>12, <2>3
  <2>5. PICK m \in DOMAIN trail : /\ y = -trail[m] /\ m <= p
                                  /\ \A k \in DOMAIN trail_lim : trail_lim[k] < m
    BY <1>9, <2>4
  <2>6. m # p
    BY <2>4, <2>5
  <2>7. decisionLevel \in DOMAIN trail_lim
    BY <1>1, TrailFacts
  <2>8. trail_lim[decisionLevel] \in Nat /\ m \in Nat /\ p \in Nat
    <3>1. trail_lim \in Seq(Nat)
      BY <1>1, TrailFacts DEF Divided
    <3>2. QED
      BY <1>2, <1>3, <2>7, <3>1
  <2>9. trail_lim[decisionLevel] < m
    BY <2>5, <2>7
  <2>10. QED
    BY <2>2, <2>5, <2>6, <2>8, <2>9
<1>16. QED
  BY <1>3, <1>7, <1>11, <1>12, <1>13, <1>14, <1>15 DEF b

LEMMA FoundStep ==
  ASSUME IInv, Conflicting, NEW n \in 1 .. Len(trail), NEW w, Found(w, n - 1)
  PROVE  Found(Back(w, trail[Len(trail) + 1 - n]), n)
<1> DEFINE p == Len(trail) + 1 - n
           x == trail[p]
           b == Passed(w, x)
           u == Back(w, x)
<1>1. session \in Session /\ Assigned /\ decisionLevel # 0 /\ decisionLevel > root_level
  BY ConflictFacts DEF Conflicting
<1>2. Len(trail) \in Nat /\ DOMAIN trail = 1 .. Len(trail)
  BY <1>1, TrailFacts
<1>3. p \in DOMAIN trail /\ Len(trail) - n = p - 1 /\ Len(trail) - (n - 1) = p
  BY <1>2
<1>4. /\ Noted(w)
      /\ w.uip = 0 => /\ w.path # 0
                      /\ \A m \in DOMAIN trail : -trail[m] \in OpenIn(w.seen) => m <= p
                      /\ \A v \in FormulaModels : Satisfies(v, w.lits \cup OpenIn(w.seen))
      /\ w.uip # 0 => /\ w.uip \in Literal /\ IsFalse(w.uip) /\ level[Var(w.uip)] = decisionLevel
                      /\ \A v \in FormulaModels : Satisfies(v, w.lits \cup {w.uip})
  BY <1>3 DEF Found
<1>5. \A m \in DOMAIN trail : m <= p /\ m # p => m <= p - 1 /\ m \in 1 .. p - 1
  BY <1>2, <1>3
<1> HIDE DEF p
<1>6. CASE w.uip # 0
  <2>1. u = w
    BY <1>6 DEF Back
  <2>2. Found(w, n)
    BY <1>4, <1>6 DEF Found
  <2>3. QED
    BY <2>1, <2>2 DEF p
<1>7. CASE w.uip = 0 /\ Var(x) \notin w.seen
  <2>1. u = w
    BY <1>7 DEF Back
  <2>2. -trail[p] \notin OpenIn(w.seen)
    BY <1>1, <1>3, <1>7, PositionFacts DEF OpenIn
  <2>3. \A m \in DOMAIN trail : -trail[m] \in OpenIn(w.seen) => m <= p - 1
    BY <1>4, <1>5, <1>7, <2>2
  <2>4. Found(w, n)
    BY <1>3, <1>4, <1>7, <2>3 DEF Found
  <2>5. QED
    BY <2>1, <2>4 DEF p
<1>8. CASE w.uip = 0 /\ Var(x) \in w.seen
  <2>1. /\ b.seen = w.seen \ {Var(x)} /\ b.path = w.path - 1 /\ b.lits = w.lits
        /\ b.steps = w.steps /\ b.uip = 0
        /\ b = [seen |-> b.seen, path |-> b.path, lits |-> b.lits, steps |-> b.steps, uip |-> b.uip]
        /\ -x \in OpenIn(w.seen) /\ OpenIn(b.seen) = OpenIn(w.seen) \ {-x}
        /\ b.path = Cardinality(OpenIn(b.seen)) /\ IsFiniteSet(OpenIn(b.seen))
        /\ Noted(b)
        /\ b.path # 0 => reason[Var(x)] # 0
    <3>1. p = Len(trail) + 1 - n
      BY DEF p
    <3>2. w.uip = 0 /\ Var(trail[p]) \in w.seen
      BY <1>8
    <3> HIDE DEF p
    <3> HIDE DEF x, b
    <3>3. \A q : q = Len(trail) + 1 - n /\ Var(trail[q]) \in w.seen =>
            LET y == trail[q]
                d == Passed(w, y)
            IN  /\ d.seen = w.seen \ {Var(y)} /\ d.path = w.path - 1 /\ d.lits = w.lits
                /\ d.steps = w.steps /\ d.uip = 0
                /\ d = [seen |-> d.seen, path |-> d.path, lits |-> d.lits, steps |-> d.steps, uip |-> d.uip]
                /\ -y \in OpenIn(w.seen) /\ OpenIn(d.seen) = OpenIn(w.seen) \ {-y}
                /\ d.path = Cardinality(OpenIn(d.seen)) /\ IsFiniteSet(OpenIn(d.seen))
                /\ Noted(d)
                /\ d.path # 0 => reason[Var(y)] # 0
      BY <3>2, StepFacts
    <3>4. QED
      BY <3>1, <3>2, <3>3 DEF x, b
  <2>2. \A v \in FormulaModels : Satisfies(v, b.lits \cup OpenIn(w.seen))
    BY <1>4, <1>8, <2>1
  <2>3. CASE b.path = 0
    <3>1. u = [b EXCEPT !.uip = -x]
      BY <1>8, <2>3 DEF Back, Passed
    <3> HIDE DEF u, b, x
    <3>2. /\ u.seen = b.seen /\ u.path = b.path /\ u.lits = b.lits /\ u.steps = b.steps /\ u.uip = -x
          /\ u = [seen |-> u.seen, path |-> u.path, lits |-> u.lits, steps |-> u.steps, uip |-> u.uip]
      BY <2>1, <3>1
    <3>3. Noted(u)
      BY <2>1, <3>2 DEF Noted
    <3>4. OpenIn(w.seen) = {-x}
      <4>1. OpenIn(b.seen) = {}
        BY <2>1, <2>3, FS_EmptySet
      <4>2. QED
        BY <2>1, <4>1
    <3>5. -x \in Literal /\ IsFalse(-x) /\ level[Var(-x)] = decisionLevel
      BY <2>1 DEF OpenIn
    <3>6. -x # 0
      BY <1>1, <3>5, LiteralFacts
    <3>7. \A v \in FormulaModels : Satisfies(v, u.lits \cup {u.uip})
      BY <2>2, <3>2, <3>4
    <3>8. Found(u, n)
      BY <3>2, <3>3, <3>5, <3>6, <3>7 DEF Found
    <3>9. QED
      BY <3>8 DEF u, x, p
  <2>4. CASE b.path # 0
    <3> DEFINE a     == reason[Var(x)]
               lits  == Antecedents(a)
               steps == w.steps \o ReasonSteps(Var(x))
               d     == [b EXCEPT !.steps = steps]
    <3>1. u = Note(d, lits)
      BY <1>8, <2>1, <2>4 DEF Back, Passed
    <3>2. /\ d.seen = b.seen /\ d.path = b.path /\ d.lits = b.lits /\ d.uip = b.uip
          /\ d = [seen |-> d.seen, path |-> d.path, lits |-> d.lits, steps |-> d.steps, uip |-> d.uip]
      <4> HIDE DEF steps, b
      <4>1. QED
        BY <2>1
    <3> HIDE DEF d, steps, b, u
    <3>3. Noted(d)
      BY <2>1, <3>2 DEF Noted
    <3>4. a # 0
      BY <2>1, <2>4
    <3>5. /\ lits \in SUBSET Literal
          /\ \A y \in lits : IsFalse(y) /\ \E m \in 1 .. p - 1 : trail[m] = -y
          /\ \A v \in FormulaModels : True(v, -x) =>
               \E m \in 1 .. p - 1 : /\ Var(trail[m]) \in VarsOf(Deep(lits))
                                     /\ -trail[m] \in lits
                                     /\ True(v, -trail[m])
      BY <1>3, <3>4, ReasonFacts
    <3> HIDE DEF a, lits, x
    <3>6. /\ Noted(u)
          /\ OpenIn(d.seen) \subseteq OpenIn(u.seen)
          /\ OpenIn(u.seen) \subseteq OpenIn(d.seen) \cup lits
          /\ d.lits \subseteq u.lits
          /\ Deep(lits) \subseteq u.lits \cup OpenIn(u.seen)
          /\ u.uip = d.uip
      BY <1>1, <3>1, <3>3, <3>5, NoteFacts
    <3>7. u.path # 0
      <4>1. OpenIn(u.seen) # {}
        BY <2>1, <2>4, <3>2, <3>6, FS_EmptySet
      <4>2. IsFiniteSet(OpenIn(u.seen))
        <5>1. OpenIn(u.seen) \subseteq Literal
          BY DEF OpenIn
        <5>2. QED
          BY <1>1, <5>1, LiteralsFinite, FS_Subset
      <4>3. QED
        BY <3>6, <4>1, <4>2, FS_EmptySet DEF Noted
    <3>8. ASSUME NEW m \in DOMAIN trail, -trail[m] \in OpenIn(u.seen) PROVE m <= p - 1
      <4>1. CASE -trail[m] \in OpenIn(d.seen)
        <5>1. -trail[m] \in OpenIn(w.seen) /\ -trail[m] # -x
          BY <2>1, <3>2, <4>1
        <5>2. m <= p /\ m # p
          BY <1>4, <1>8, <5>1 DEF x
        <5>3. QED
          BY <1>5, <5>2
      <4>2. CASE -trail[m] \in lits
        <5>1. PICK k \in 1 .. p - 1 : trail[k] = -(-trail[m])
          BY <3>5, <4>2
        <5>2. k \in DOMAIN trail
          BY <1>2, <1>3
        <5>3. trail[k] = trail[m]
          BY <1>1, <5>1, PositionFacts
        <5>4. k = m
          BY <1>1, <5>2, <5>3, TrailFacts
        <5>5. QED
          BY <1>3, <5>4
      <4>3. QED
        BY <3>6, <3>8, <4>1, <4>2
    <3>9. ASSUME NEW v \in FormulaModels PROVE Satisfies(v, u.lits \cup OpenIn(u.seen))
      <4>1. PICK y \in b.lits \cup OpenIn(w.seen) : True(v, y)
        BY <2>2 DEF Satisfies
      <4>2. CASE y = -x
        <5>1. PICK m \in 1 .. p - 1 : /\ Var(trail[m]) \in VarsOf(Deep(lits))
                                      /\ -trail[m] \in lits
                                      /\ True(v, -trail[m])
          BY <3>5, <4>1, <4>2
        <5>2. m \in DOMAIN trail
          BY <1>2, <1>3
        <5>3. ~AtTop(Var(-trail[m]))
          <6>1. Var(-trail[m]) = Var(trail[m])
            BY <1>1, <5>2, PositionFacts
          <6>2. QED
            BY <5>1, <6>1 DEF VarsOf, Deep
        <5>4. -trail[m] \in Deep(lits)
          BY <5>1, <5>3 DEF Deep
        <5>5. -trail[m] \in u.lits \cup OpenIn(u.seen)
          BY <3>6, <5>4
        <5>6. QED
          BY <5>1, <5>5 DEF Satisfies
      <4>3. CASE y # -x
        <5>1. y \in u.lits \cup OpenIn(u.seen)
          BY <2>1, <3>2, <3>6, <4>3
        <5>2. QED
          BY <4>1, <5>1 DEF Satisfies
      <4>4. QED
        BY <4>2, <4>3
    <3>10. u.uip = 0
      BY <2>1, <3>2, <3>6
    <3>11. Found(u, n)
      BY <1>3, <3>6, <3>7, <3>8, <3>9, <3>10 DEF Found
    <3>12. QED
      BY <3>11 DEF u, x, p
  <2>5. QED
    BY <2>3, <2>4
<1>9. QED
  BY <1>6, <1>7, <1>8

\* The unique implication point and the literals of lower levels.
LEMMA FirstUIPFacts ==
  ASSUME IInv, Conflicting
  PROVE  /\ FirstUIP.uip \in Literal /\ IsFalse(FirstUIP.uip)
         /\ level[Var(FirstUIP.uip)] = decisionLevel
         /\ FirstUIP.lits \subseteq Below
         /\ \A v \in FormulaModels : Satisfies(v, FirstUIP.lits \cup {FirstUIP.uip})
<1> DEFINE w == Walk
           T == {n \in 0 .. Len(trail) : ~Found(w[n], n)}
<1>1. session \in Session /\ Assigned /\ Len(trail) \in Nat /\ DOMAIN trail = 1 .. Len(trail)
  BY ConflictFacts, TrailFacts
<1>2. /\ w[0] = WalkStart
      /\ \A n \in 1 .. Len(trail) : w[n] = Back(w[n - 1], trail[Len(trail) + 1 - n])
  BY <1>1, WalkFacts
<1> HIDE DEF w
<1>3. T = {}
  <2>1. SUFFICES ASSUME T # {} PROVE FALSE
    OBVIOUS
  <2>2. PICK n \in T : \A m \in T : n <= m
    <3>1. T \in SUBSET Nat
      OBVIOUS
    <3> HIDE DEF T
    <3>2. QED
      BY <2>1, <3>1, LeastMember
  <2>3. n \in 0 .. Len(trail) /\ ~Found(w[n], n)
    BY <2>2
  <2> HIDE DEF T
  <2>4. CASE n = 0
    <3>1. Found(WalkStart, 0)
      BY FoundStart
    <3>2. QED
      BY <1>2, <2>3, <2>4, <3>1
  <2>5. CASE n # 0
    <3>1. n \in 1 .. Len(trail) /\ n - 1 \in 0 .. Len(trail) /\ n - 1 < n
      BY <1>1, <2>3, <2>5
    <3>2. Found(w[n - 1], n - 1)
      BY <2>2, <3>1 DEF T
    <3>3. w[n] = Back(w[n - 1], trail[Len(trail) + 1 - n])
      BY <1>2, <3>1
    <3>4. Found(w[n], n)
      BY <3>1, <3>2, <3>3, FoundStep
    <3>5. QED
      BY <2>3, <3>4
  <2>6. QED
    BY <2>4, <2>5
<1>4. Found(w[Len(trail)], Len(trail)) /\ FirstUIP = w[Len(trail)]
  BY <1>1, <1>3 DEF FirstUIP, w
<1> HIDE DEF T
<1> DEFINE f == FirstUIP
<1>5. Found(f, Len(trail))
  BY <1>4
<1> HIDE DEF f
<1>6. f.uip # 0
  <2>1. SUFFICES ASSUME f.uip = 0 PROVE FALSE
    OBVIOUS
  <2>2. OpenIn(f.seen) # {}
    BY <1>5, <2>1, FS_EmptySet DEF Found, Noted
  <2>3. PICK y \in OpenIn(f.seen) : TRUE
    BY <2>2
  <2>4. y \in Literal /\ IsFalse(y)
    BY DEF OpenIn
  <2>5. PICK m \in DOMAIN trail : trail[m] = -y
    BY <1>1, <2>4, FalseFacts
  <2>6. y = -trail[m]
    BY <1>1, <2>4, <2>5, FalseFacts
  <2>7. m <= Len(trail) - Len(trail)
    BY <1>5, <2>1, <2>3, <2>6 DEF Found
  <2>8. QED
    BY <1>1, <2>7
<1>7. QED
  BY <1>5, <1>6 DEF Found, Noted, f



-----------------------------------------------------------------------------
(***************************************************************************)
(* analyze_removable: the function that says what follows from the         *)
(* literals found, among the first n of the trail, exists.                 *)
(***************************************************************************)
LEMMA ImpliedUpToFacts ==
  ASSUME Len(trail) \in Nat, NEW lits
  PROVE  LET I == ImpliedUpTo(lits) IN
         /\ I[0] = {}
         /\ \A n \in 1 .. Len(trail) :
              I[n] = I[n - 1] \cup {v \in {Var(trail[n])} : Follows(lits, I[n - 1], v)}
<1> DEFINE F(w, n) == IF n = 0 THEN {}
                      ELSE w[n - 1] \cup {v \in {Var(trail[n])} : Follows(lits, w[n - 1], v)}
           P(m) == \E w : w = [n \in 0 .. m |-> F(w, n)]
           T == {m \in 0 .. Len(trail) : ~P(m)}
<1>1. T = {}
  <2>1. SUFFICES ASSUME T # {} PROVE FALSE
    OBVIOUS
  <2> HIDE DEF P
  <2>2. T \in SUBSET Nat
    OBVIOUS
  <2>3. PICK m \in T : \A k \in T : m <= k
    <3> HIDE DEF T
    <3>1. QED
      BY <2>1, <2>2, LeastMember
  <2>4. m \in 0 .. Len(trail) /\ ~P(m)
    OBVIOUS
  <2>5. CASE m = 0
    <3> DEFINE w == [n \in 0 .. 0 |-> {}]
    <3>1. w = [n \in 0 .. 0 |-> F(w, n)]
      <4>1. \A n \in 0 .. 0 : F(w, n) = {}
        OBVIOUS
      <4> HIDE DEF F
      <4>2. QED
        BY <4>1
    <3> HIDE DEF w, F
    <3>2. QED
      BY <2>4, <2>5, <3>1 DEF P
  <2>6. CASE m # 0
    <3>1. m - 1 \in 0 .. Len(trail) /\ m - 1 \notin T
      BY <2>2, <2>3, <2>4, <2>6
    <3>2. P(m - 1)
      BY <3>1
    <3>3. PICK w : w = [n \in 0 .. m - 1 |-> F(w, n)]
      BY <3>2 DEF P
    <3> DEFINE u == [n \in 0 .. m |-> F(w, n)]
    <3>4. \A n \in 1 .. m : u[n - 1] = w[n - 1]
      <4> HIDE DEF F
      <4>1. \A n \in 1 .. m : n - 1 \in 0 .. m - 1 /\ n - 1 \in 0 .. m
        BY <2>4
      <4>2. QED
        BY <3>3, <4>1
    <3> HIDE DEF u
    <3>5. \A n \in 0 .. m : F(u, n) = F(w, n)
      <4>1. SUFFICES ASSUME NEW n \in 0 .. m PROVE F(u, n) = F(w, n)
        OBVIOUS
      <4>2. CASE n = 0
        BY <4>2
      <4>3. CASE n # 0
        <5>1. n \in 1 .. m
          BY <2>4, <4>3
        <5>2. u[n - 1] = w[n - 1]
          BY <3>4, <5>1
        <5>3. QED
          BY <4>3, <5>2
      <4>4. QED
        BY <4>2, <4>3
    <3> HIDE DEF F
    <3>6. u = [n \in 0 .. m |-> F(u, n)]
      BY <3>5 DEF u
    <3>7. QED
      BY <2>4, <3>6 DEF P
  <2>7. QED
    BY <2>5, <2>6
<1>2. \E w : w = [n \in 0 .. Len(trail) |-> F(w, n)]
  <2>1. Len(trail) \in 0 .. Len(trail)
    OBVIOUS
  <2>2. P(Len(trail))
    <3> HIDE DEF P
    <3>1. QED
      BY <1>1, <2>1
  <2>3. QED
    BY <2>2
<1> DEFINE R(w) == w = [n \in 0 .. Len(trail) |-> F(w, n)]
<1>3. R(CHOOSE w : R(w))
  <2> HIDE DEF F
  <2>1. \E w : R(w)
    BY <1>2
  <2> HIDE DEF R
  <2>2. QED
    BY <2>1
<1> DEFINE I == ImpliedUpTo(lits)
<1>4. I = [n \in 0 .. Len(trail) |-> F(I, n)]
  BY <1>3 DEF ImpliedUpTo
<1> HIDE DEF I
<1>5. I[0] = {}
  <2>1. 0 \in 0 .. Len(trail)
    OBVIOUS
  <2>2. I[0] = F(I, 0)
    <3> HIDE DEF F
    <3>1. QED
      BY <1>4, <2>1
  <2>3. QED
    BY <2>2
<1>6. ASSUME NEW n \in 1 .. Len(trail)
      PROVE  I[n] = I[n - 1] \cup {v \in {Var(trail[n])} : Follows(lits, I[n - 1], v)}
  <2>1. I[n] = F(I, n)
    <3> HIDE DEF F
    <3>1. QED
      BY <1>4
  <2>2. QED
    BY <2>1
<1>7. QED
  BY <1>5, <1>6 DEF I

\* What is found to follow does so from the literals found and each other.
LEMMA ImpliedFacts ==
  ASSUME Len(trail) \in Nat, NEW lits, NEW u \in Implied(lits)
  PROVE  Follows(lits, Implied(lits), u)
<1> DEFINE I == ImpliedUpTo(lits)
           N == Len(trail)
<1>1. /\ I[0] = {} /\ N \in Nat /\ Implied(lits) = I[N]
      /\ \A n \in 1 .. N : I[n] = I[n - 1] \cup {v \in {Var(trail[n])} : Follows(lits, I[n - 1], v)}
  BY ImpliedUpToFacts DEF Implied
<1> HIDE DEF I, N
<1>2. \A n \in 1 .. N : /\ I[n - 1] \subseteq I[n]
                        /\ \A v \in I[n] : v \in I[n - 1] \/ Follows(lits, I[n - 1], v)
  BY <1>1
<1>3. \A n \in 0 .. N : I[n] \subseteq I[N]
  <2> DEFINE T == {k \in 0 .. N : ~(I[N - k] \subseteq I[N])}
  <2>1. T = {}
    <3>1. SUFFICES ASSUME T # {} PROVE FALSE
      OBVIOUS
    <3>2. PICK k \in T : \A j \in T : k <= j
      <4>1. T \in SUBSET Nat
        OBVIOUS
      <4> HIDE DEF T
      <4>2. QED
        BY <3>1, <4>1, LeastMember
    <3>3. k \in 0 .. N /\ ~(I[N - k] \subseteq I[N])
      BY <3>2
    <3>4. k # 0
      BY <1>1, <3>3
    <3>5. k - 1 \in 0 .. N /\ k - 1 < k /\ N - (k - 1) \in 1 .. N /\ (N - (k - 1)) - 1 = N - k
      BY <1>1, <3>3, <3>4
    <3>6. I[N - (k - 1)] \subseteq I[N]
      BY <3>2, <3>5
    <3>7. I[N - k] \subseteq I[N - (k - 1)]
      BY <1>2, <3>5
    <3>8. QED
      BY <3>3, <3>6, <3>7
  <2>2. ASSUME NEW n \in 0 .. N PROVE I[n] \subseteq I[N]
    <3>1. N - n \in 0 .. N /\ N - (N - n) = n
      BY <1>1
    <3>2. QED
      BY <2>1, <3>1
  <2>3. QED
    BY <2>2
<1> DEFINE T == {n \in 0 .. N : u \in I[n]}
<1>4. PICK n \in T : \A m \in T : n <= m
  <2>1. T \in SUBSET Nat /\ N \in T
    BY <1>1
  <2> HIDE DEF T
  <2>2. QED
    BY <2>1, LeastMember
<1>5. n \in 1 .. N /\ n - 1 \in 0 .. N /\ n - 1 < n
  BY <1>1, <1>4
<1>6. u \in I[n] /\ u \notin I[n - 1]
  BY <1>4, <1>5
<1>7. Follows(lits, I[n - 1], u) /\ I[n - 1] \subseteq I[N]
  BY <1>2, <1>3, <1>5, <1>6
<1>8. QED
  BY <1>1, <1>7 DEF Follows

\* What analyze leaves of the literals found.
Rest(lits) == {x \in lits : Var(x) \notin Implied(lits)}

\* They are true in no model in which those removed are.
LEMMA RestFollows ==
  ASSUME IInv, NEW lits \in SUBSET Below, NEW v \in FormulaModels, Satisfies(v, lits)
  PROVE  Satisfies(v, Rest(lits))
<1> DEFINE S == Implied(lits)
           T == {m \in DOMAIN trail : Var(trail[m]) \in S /\ True(v, -trail[m])}
<1>1. /\ session \in Session /\ Assigned /\ Len(trail) \in Nat /\ DOMAIN trail = 1 .. Len(trail)
      /\ v \in [Variable -> BOOLEAN]
  BY TrailFacts DEF IInv, Calls, FormulaModels
<1>2. ASSUME NEW y \in lits
      PROVE  \E m \in DOMAIN trail : y = -trail[m] /\ Var(trail[m]) = Var(y)
  <2>1. y \in Literal /\ IsFalse(y)
    BY DEF Below
  <2>2. PICK m \in DOMAIN trail : trail[m] = -y
    BY <1>1, <2>1, FalseFacts
  <2>3. QED
    BY <1>1, <2>1, <2>2, FalseFacts
<1>3. SUFFICES ASSUME ~Satisfies(v, Rest(lits)) PROVE FALSE
  OBVIOUS
<1>4. \A y \in lits : True(v, y) => Var(y) \in S
  BY <1>3 DEF Satisfies, Rest
<1>5. T # {}
  <2>1. PICK y \in lits : True(v, y)
    BY DEF Satisfies
  <2>2. PICK m \in DOMAIN trail : y = -trail[m] /\ Var(trail[m]) = Var(y)
    BY <1>2
  <2>3. Var(y) \in S
    BY <1>4, <2>1
  <2>4. QED
    BY <2>1, <2>2, <2>3
<1>6. PICK m \in T : \A n \in T : m <= n
  <2>1. T \in SUBSET Nat
    BY <1>1
  <2> HIDE DEF T
  <2>2. QED
    BY <1>5, <2>1, LeastMember
<1>7. m \in DOMAIN trail /\ Var(trail[m]) \in S /\ True(v, -trail[m])
  BY <1>6
<1>8. /\ reason[Var(trail[m])] # 0
      /\ VarsOf(Deep(Antecedents(reason[Var(trail[m])]))) \subseteq VarsOf(lits) \cup S
  BY <1>1, <1>7, ImpliedFacts DEF Follows
<1>9. PICK n \in 1 .. m - 1 : /\ Var(trail[n]) \in VarsOf(lits) \cup S
                              /\ True(v, -trail[n])
  BY <1>7, <1>8, ReasonFacts
<1>10. n \in DOMAIN trail /\ n < m
  BY <1>1, <1>7
<1>11. Var(trail[n]) \in S
  <2>1. SUFFICES ASSUME Var(trail[n]) \in VarsOf(lits) PROVE Var(trail[n]) \in S
    BY <1>9
  <2>2. PICK y \in lits : Var(y) = Var(trail[n])
    BY <2>1 DEF VarsOf
  <2>3. PICK k \in DOMAIN trail : y = -trail[k] /\ Var(trail[k]) = Var(y)
    BY <1>2
  <2>4. k = n
    BY <1>1, <1>10, <2>2, <2>3, TrailFacts
  <2>5. QED
    BY <1>4, <1>9, <2>2, <2>3, <2>4
<1>12. QED
  BY <1>1, <1>6, <1>9, <1>10, <1>11

(***************************************************************************)
(* Above the assumptions, a literal is left of each level: no decision has *)
(* a reason, and what has follows from a literal of its level.             *)
(***************************************************************************)
LEMMA RestLevels ==
  ASSUME IInv, NEW lits \in SUBSET Below, NEW x \in lits, level[Var(x)] > root_level
  PROVE  \E y \in Rest(lits) : level[Var(y)] = level[Var(x)]
<1> DEFINE S == Implied(lits)
           L == level[Var(x)]
           T == {m \in DOMAIN trail : LevelOf(m) = L /\ Var(trail[m]) \in VarsOf(lits) \cup S}
<1>1. session \in Session /\ Assigned /\ Len(trail) \in Nat /\ DOMAIN trail = 1 .. Len(trail)
  BY TrailFacts DEF IInv, Calls
<1>2. SUFFICES ASSUME \A y \in Rest(lits) : level[Var(y)] # L PROVE FALSE
  OBVIOUS
<1>3. L # 0
  BY DEF Below
<1>4. L > root_level
  OBVIOUS
<1>5. \A y \in lits : level[Var(y)] = L => Var(y) \in S
  BY <1>2 DEF Rest
<1>6. T # {}
  <2>1. x \in Literal /\ IsFalse(x)
    BY DEF Below
  <2>2. PICK m \in DOMAIN trail : trail[m] = -x
    BY <1>1, <2>1, FalseFacts
  <2>3. Var(trail[m]) = Var(x)
    BY <1>1, <2>1, <2>2, FalseFacts
  <2>4. QED
    BY <2>3 DEF LevelOf, VarsOf
<1> HIDE DEF L
<1>7. PICK m \in T : \A n \in T : m <= n
  <2>1. T \in SUBSET Nat
    BY <1>1
  <2> HIDE DEF T
  <2>2. QED
    BY <1>6, <2>1, LeastMember
<1>8. m \in DOMAIN trail /\ LevelOf(m) = L /\ Var(trail[m]) \in VarsOf(lits) \cup S
  BY <1>7
<1>9. Var(trail[m]) \in S
  <2>1. SUFFICES ASSUME Var(trail[m]) \in VarsOf(lits) PROVE Var(trail[m]) \in S
    BY <1>8
  <2>2. PICK y \in lits : Var(y) = Var(trail[m])
    BY <2>1 DEF VarsOf
  <2>3. QED
    BY <1>5, <1>8, <2>2 DEF LevelOf
<1> DEFINE a == reason[Var(trail[m])]
<1>10. a # 0 /\ VarsOf(Deep(Antecedents(a))) \subseteq VarsOf(lits) \cup S
  BY <1>1, <1>9, ImpliedFacts DEF Follows
<1>11. AtLevel(level, db, a, L) /\ Implies(trail, db, a, m)
  BY <1>1, <1>4, <1>8, <1>10, TrailFacts DEF Reasoned, LevelOf
<1> HIDE DEF a
<1>12. PICK y \in Others(db[a]) : level[Var(y)] = L
  BY <1>11 DEF AtLevel
<1>13. y \in Deep(Antecedents(a)) /\ y \in Literal
  BY <1>3, <1>11, <1>12 DEF Deep, AtTop, Antecedents, Others, Implies, IInv, Memory
<1>14. PICK n \in 1 .. m - 1 : trail[n] = -y
  BY <1>11 DEF Implies
<1>15. n \in DOMAIN trail /\ n < m
  BY <1>1, <1>8
<1>16. Var(trail[n]) = Var(y)
  BY <1>1, <1>13, <1>14, <1>15, FalseFacts
<1>17. LevelOf(n) = L /\ Var(trail[n]) \in VarsOf(lits) \cup S
  BY <1>10, <1>12, <1>13, <1>16 DEF LevelOf, VarsOf
<1>18. QED
  BY <1>1, <1>7, <1>15, <1>17


\* The clause to be learnt, and the level to go back to.
LEMMA AnalyzeFacts ==
  ASSUME IInv, Conflicting, NEW K, K = Max({analyze.back, root_level})
  PROVE  /\ analyze.uip \in Literal /\ IsFalse(analyze.uip)
         /\ level[Var(analyze.uip)] = decisionLevel
         /\ analyze.rest \subseteq Below
         /\ \A v \in FormulaModels : Satisfies(v, {analyze.uip} \cup analyze.rest)
         /\ K \in 0 .. decisionLevel /\ K < decisionLevel /\ root_level <= K
         /\ \A x \in analyze.rest : level[Var(x)] \in 1 .. K
         /\ analyze.rest = {} => K = root_level
         /\ K > root_level => \E x \in analyze.rest : level[Var(x)] = K
<1> DEFINE f    == FirstUIP
           lits == f.lits
           D    == decisionLevel
           T    == {level[Var(x)] : x \in lits} \cup {0}
           B    == analyze.back
<1>1. session \in Session /\ Assigned /\ D \in Nat /\ root_level \in Nat /\ root_level < D
  BY ConflictFacts DEF Conflicting
<1>2. /\ f.uip \in Literal /\ IsFalse(f.uip) /\ level[Var(f.uip)] = D
      /\ lits \subseteq Below
      /\ \A v \in FormulaModels : Satisfies(v, lits \cup {f.uip})
  BY FirstUIPFacts
<1>3. analyze.uip = f.uip /\ analyze.rest = Rest(lits) /\ B = Max(T)
  <2>1. lits \ {x \in lits : Var(x) \in Implied(lits)} = Rest(lits)
    BY DEF Rest
  <2>2. QED
    BY <2>1 DEF analyze
<1> HIDE DEF B, lits, f
<1>4. ASSUME NEW x \in Below PROVE level[Var(x)] \in 1 .. D - 1
  <2>1. x \in Literal /\ IsFalse(x) /\ level[Var(x)] # 0 /\ level[Var(x)] # D
    BY DEF Below
  <2>2. PICK m \in DOMAIN trail : trail[m] = -x
    BY <1>1, <2>1, FalseFacts
  <2>3. Var(trail[m]) = Var(x)
    BY <1>1, <2>1, <2>2, FalseFacts
  <2>4. LevelOf(m) \in 0 .. D
    BY <1>1, TrailFacts DEF Levelled, LevelOf, decisionLevel
  <2>5. QED
    BY <1>1, <2>1, <2>3, <2>4 DEF LevelOf
<1> HIDE DEF D
<1>5. /\ B \in T /\ \A t \in T : t <= B
      /\ T \in SUBSET Nat
      /\ \A t \in T : t <= D - 1
  <2>1. \A t \in T : t \in Nat /\ t <= D - 1
    BY <1>1, <1>2, <1>4
  <2>2. T \in SUBSET Nat /\ T # {} /\ D - 1 \in Nat
    BY <1>1, <2>1
  <2> HIDE DEF T
  <2>3. Max(T) \in T /\ \A t \in T : t <= Max(T)
    BY <2>1, <2>2, GreatestMember
  <2>4. QED
    BY <1>3, <2>1, <2>2, <2>3
<1> HIDE DEF T
<1>6. /\ K \in {B, root_level} /\ B <= K /\ root_level <= K
      /\ K \in Nat /\ K < D /\ B \in Nat
  <2> DEFINE U == {B, root_level}
  <2>1. B \in Nat /\ B <= D - 1
    BY <1>5
  <2>2. U \in SUBSET Nat /\ U # {} /\ D \in Nat /\ \A t \in U : t <= D
    BY <1>1, <2>1
  <2>3. B \in U /\ root_level \in U /\ K = Max(U)
    BY DEF B
  <2> HIDE DEF U
  <2>4. K \in U /\ \A t \in U : t <= K
    BY <2>2, <2>3, GreatestMember
  <2>5. QED
    BY <1>1, <2>1, <2>3, <2>4 DEF U
<1>7. Rest(lits) \subseteq lits
  BY DEF Rest
<1>8. \A x \in Rest(lits) : level[Var(x)] \in 1 .. K
  <2>1. SUFFICES ASSUME NEW x \in Rest(lits) PROVE level[Var(x)] \in 1 .. K
    OBVIOUS
  <2>2. level[Var(x)] \in 1 .. D - 1 /\ level[Var(x)] \in T
    BY <1>2, <1>4, <1>7 DEF T
  <2>3. level[Var(x)] <= B
    BY <1>5, <2>2
  <2>4. QED
    BY <1>1, <1>6, <2>2, <2>3
<1>9. K > root_level => \E x \in Rest(lits) : level[Var(x)] = K
  <2>1. SUFFICES ASSUME K > root_level PROVE \E x \in Rest(lits) : level[Var(x)] = K
    OBVIOUS
  <2>2. K = B /\ K # 0
    BY <1>1, <1>6, <2>1
  <2>3. PICK x \in lits : level[Var(x)] = K
    BY <1>5, <2>2 DEF T
  <2>4. lits \in SUBSET Below /\ level[Var(x)] > root_level
    BY <1>2, <2>1, <2>3
  <2>5. QED
    BY <2>3, <2>4, RestLevels
<1>10. Rest(lits) = {} => K = root_level
  BY <1>1, <1>6, <1>9
<1>11. ASSUME NEW v \in FormulaModels PROVE Satisfies(v, {f.uip} \cup Rest(lits))
  <2>1. Satisfies(v, lits \cup {f.uip})
    BY <1>2
  <2>2. Satisfies(v, lits) => Satisfies(v, Rest(lits))
    BY <1>2, RestFollows
  <2>3. QED
    BY <2>1, <2>2 DEF Satisfies
<1>12. Rest(lits) \subseteq Below
  BY <1>2, <1>7
<1>13. K \in 0 .. D
  BY <1>1, <1>6
<1>14. QED
  BY <1>2, <1>3, <1>6, <1>8, <1>9, <1>10, <1>11, <1>12, <1>13 DEF D

\* The decisions kept are within the trail kept.
LEMMA CutLims ==
  ASSUME session \in Session, Assigned, NEW l \in 0 .. decisionLevel, NEW k \in 1 .. l
  PROVE  trail_lim[k] <= Len(Cut(l))
<1>1. /\ Divided(trail, trail_lim) /\ decisionLevel \in Nat /\ DOMAIN trail_lim = 1 .. decisionLevel
      /\ Len(trail) \in Nat
  BY TrailFacts
<1>2. CASE l < decisionLevel
  <2>1. l + 1 \in DOMAIN trail_lim /\ k \in DOMAIN trail_lim /\ k <= l + 1
    BY <1>1, <1>2
  <2>2. trail_lim[k] <= trail_lim[l + 1]
    BY <1>1, <2>1 DEF Divided
  <2>3. QED
    BY <1>1, <1>2, <2>2, CutFacts
<1>3. CASE l = decisionLevel
  BY <1>1, <1>3, CutFacts DEF Divided
<1>4. QED
  BY <1>1, <1>2, <1>3

LEMMA LearnIInv == IInv /\ Learn => IInv'
<1> SUFFICES ASSUME IInv, Learn PROVE IInv'
  OBVIOUS
<1> DEFINE x    == analyze.uip
           rest == analyze.rest
           K    == Max({analyze.back, root_level})
           a    == IF rest = {} THEN 0 ELSE Address
           L    == IF rest = {} THEN 0 ELSE K
           lits == {x} \cup rest
           id   == IF session.logged THEN LastId(analyze.log) ELSE 0
           t    == Cut(K)
           lim  == SubSeq(trail_lim, 1, K)
           rsn  == [v \in Variable |-> IF v \in Undone(K) THEN 0 ELSE reason[v]]
<1>1. /\ At("search") /\ confl # 0 /\ decisionLevel > root_level
      /\ trail' = Append(t, x)
      /\ trail_lim' = lim
      /\ qhead' = Len(t)
      /\ level' = [level EXCEPT ![Var(x)] = L]
      /\ reason' = [v \in Variable |-> IF v = Var(x) THEN a ELSE rsn[v]]
      /\ IF rest = {} THEN UNCHANGED <<db, watches>>
         ELSE \E y \in SecondWatch(rest) :
                LET c == Clause(TRUE, x, y, lits, id) IN
                /\ db' = [b \in DOMAIN db \cup {Address} |-> IF b = Address THEN c ELSE db[b]]
                /\ watches' = Watching(c, Address)
      /\ confl' = 0
      /\ UNCHANGED <<session, given, answers, ok, todo, root_level, conflict, pc>>
  <2>1. reason' = [v \in Variable |-> IF v = Var(x) THEN a
                                      ELSE IF v \in Undone(K) THEN 0 ELSE reason[v]]
    BY DEF Learn
  <2>2. reason' = [v \in Variable |-> IF v = Var(x) THEN a ELSE rsn[v]]
    BY <2>1
  <2>3. QED
    BY <2>2 DEF Learn
<1>2. todo = {} /\ qhead = Len(trail) /\ pc = "search"
  BY <1>1, Propagated DEF At
<1>3. Conflicting /\ session \in Session /\ Assigned /\ decisionLevel \in Nat /\ root_level \in Nat
  BY <1>1, ConflictFacts DEF Conflicting
<1>4. /\ x \in Literal /\ IsFalse(x) /\ level[Var(x)] = decisionLevel
      /\ rest \subseteq Below
      /\ \A v \in FormulaModels : Satisfies(v, lits)
      /\ K \in 0 .. decisionLevel /\ K < decisionLevel /\ root_level <= K
      /\ \A y \in rest : level[Var(y)] \in 1 .. K
      /\ rest = {} => K = root_level
      /\ K > root_level => \E y \in rest : level[Var(y)] = K
  <2>1. K = Max({analyze.back, root_level})
    OBVIOUS
  <2> HIDE DEF K
  <2>2. QED
    BY <1>3, <2>1, AnalyzeFacts
<1> HIDE DEF x, rest, K, id
<1>5. /\ Divided(trail, trail_lim) /\ Levelled(trail, trail_lim, level, root_level)
      /\ Len(t) \in 0 .. Len(trail) /\ DOMAIN t = 1 .. Len(t) /\ t \in Seq(Literal)
      /\ \A n \in DOMAIN t : n \in DOMAIN trail /\ t[n] = trail[n]
      /\ Len(lim) = K /\ DOMAIN lim = 1 .. K
      /\ \A k \in 1 .. K : lim[k] = trail_lim[k]
  <2>1. Divided(trail, trail_lim) /\ Levelled(trail, trail_lim, level, root_level)
    BY <1>3, TrailFacts
  <2>2. Len(lim) = K /\ DOMAIN lim = 1 .. K /\ \A k \in 1 .. K : lim[k] = trail_lim[k]
    BY <1>4, <2>1 DEF Divided, decisionLevel
  <2>3. QED
    BY <1>4, <2>1, <2>2, CutFacts
<1>6. Consistent(t, lim, level, rsn, db, root_level, assumps)
  BY <1>3, <1>4, Reverted
<1> HIDE DEF t, lim
<1>7. /\ rest # {} => /\ Address \in Nat \ {0} /\ Address \notin DOMAIN db
                      /\ DOMAIN db' = DOMAIN db \cup {Address}
                      /\ db'[Address].first = x /\ db'[Address].lits = lits
      /\ rest = {} => db' = db
      /\ \A b \in DOMAIN db : b \in DOMAIN db' /\ db'[b] = db[b]
      /\ Memory'
  <2>1. CASE rest = {}
    BY <1>1, <2>1, KeepMemory DEF IInv
  <2>2. CASE rest # {}
    <3>1. PICK y \in SecondWatch(rest) :
            LET c == Clause(TRUE, x, y, lits, id) IN
            /\ db' = [b \in DOMAIN db \cup {Address} |-> IF b = Address THEN c ELSE db[b]]
            /\ watches' = Watching(c, Address)
      BY <1>1, <2>2
    <3> DEFINE c == Clause(TRUE, x, y, lits, id)
    <3>2. y \in lits /\ x \in lits /\ lits \in SUBSET Literal
      BY <1>4 DEF SecondWatch, Below
    <3>3. c = Clause(c.learnt, x, y, lits, c.id)
      BY DEF Clause
    <3>4. /\ db' = [b \in DOMAIN db \cup {Address} |-> IF b = Address THEN c ELSE db[b]]
          /\ watches' = Watching(c, Address)
      BY <3>1
    <3> HIDE DEF c, lits
    <3>5. /\ Memory'
          /\ Address \in Nat \ {0} /\ Address \notin DOMAIN db
          /\ DOMAIN db' = DOMAIN db \cup {Address}
          /\ \A b \in DOMAIN db : db'[b] = db[b]
          /\ db'[Address].first = x /\ db'[Address].lits = lits
      BY <1>1, <3>2, <3>3, <3>4, Remembered
    <3>6. QED
      BY <2>2, <3>5
  <2>3. QED
    BY <2>1, <2>2
<1>8. \A n \in DOMAIN t : Var(t[n]) # Var(x)
  <2>1. SUFFICES ASSUME NEW n \in DOMAIN t, Var(t[n]) = Var(x) PROVE FALSE
    OBVIOUS
  <2>2. n \in DOMAIN trail /\ LevelOf(n) = decisionLevel
    BY <1>4, <1>5, <2>1 DEF LevelOf
  <2>3. LevelOf(n) > K
    BY <1>3, <1>4, <2>2
  <2>4. QED
    BY <1>4, <1>5, <2>1, <2>2, <2>3, CutLevels DEF t
<1>9. ASSUME NEW y \in rest
      PROVE  \E m \in DOMAIN t : t[m] = -y
  <2>1. y \in Literal /\ IsFalse(y) /\ level[Var(y)] \in 1 .. K
    BY <1>4 DEF Below
  <2>2. PICK m \in DOMAIN trail : trail[m] = -y
    BY <1>3, <2>1, FalseFacts
  <2>3. Var(trail[m]) = Var(y)
    BY <1>3, <2>1, <2>2, FalseFacts
  <2>4. LevelOf(m) # 0 /\ LevelOf(m) <= K
    BY <1>4, <2>1, <2>3 DEF LevelOf
  <2>5. m \in DOMAIN t
    BY <1>4, <1>5, <2>4, CutLevels DEF t
  <2>6. QED
    BY <1>5, <2>2, <2>5
<1>10. Consistent(t, lim, level, rsn, db', root_level, assumps)
  <2>1. ASSUME NEW n \in DOMAIN t, rsn[Var(t[n])] # 0
        PROVE  rsn[Var(t[n])] \in DOMAIN db
    BY <1>6, <2>1 DEF Consistent, Reasoned, Implies
  <2>2. \A n \in DOMAIN t : LET b == rsn[Var(t[n])] IN
          b # 0 => b \in DOMAIN db' /\ db'[b].first = db[b].first /\ db'[b].lits = db[b].lits
    BY <1>7, <2>1
  <2> HIDE DEF rsn
  <2>3. QED
    BY <1>6, <2>2, ReasonsKept
<1>11. Enqueueable(t, lim, level, db', root_level, assumps, x, L, a)
  <2>1. L \in 0 .. Len(lim) /\ (L = Len(lim) \/ (L = 0 /\ Len(lim) <= root_level))
    BY <1>3, <1>4, <1>5
  <2>2. a = 0 => L = 0
    BY <1>7
  <2>3. ASSUME a # 0
        PROVE  /\ a \in DOMAIN db' /\ db'[a].first = x
               /\ \A y \in Others(db'[a]) : \E m \in DOMAIN t : t[m] = -y
               /\ L > root_level => AtLevel(level, db', a, L)
    <3>1. rest # {} /\ a = Address /\ L = K
      BY <2>3
    <3>2. a \in DOMAIN db' /\ db'[a].first = x /\ db'[a].lits = lits
      BY <1>7, <3>1
    <3>3. x \notin rest
      BY <1>4 DEF Below
    <3>4. Others(db'[a]) = rest
      BY <3>2, <3>3 DEF Others
    <3>5. QED
      BY <1>4, <1>9, <3>1, <3>2, <3>4 DEF AtLevel
  <2>4. QED
    BY <1>8, <2>1, <2>2, <2>3 DEF Enqueueable
<1>12. \A b \in DOMAIN db' : db'[b].lits \subseteq Literal
  <2>1. Literal' = Literal
    BY <1>1 DEF Literal, Variable
  <2>2. QED
    BY <1>7, <2>1 DEF Memory
<1>13. Assigned'
  <2>1. a \in Nat
    BY <1>7
  <2>2. reason' = [rsn EXCEPT ![Var(x)] = a]
    <3>1. Var(x) \in Variable
      BY <1>3, <1>4, LiteralFacts
    <3>2. QED
      BY <1>1, <3>1
  <2> HIDE DEF rsn, a, L
  <2>3. Consistent(Append(t, x), lim, [level EXCEPT ![Var(x)] = L], [rsn EXCEPT ![Var(x)] = a],
                   db', root_level, assumps)
    BY <1>3, <1>4, <1>10, <1>11, <1>12, <2>1, Enqueued
  <2>4. assumps' = assumps /\ root_level' = root_level
    BY <1>1 DEF assumps
  <2>5. Consistent(trail', trail_lim', level', reason', db', root_level', assumps')
    BY <1>1, <2>2, <2>3, <2>4
  <2>6. QED
    BY <1>1, <2>5, AssignedNext
<1>14. /\ Len(trail') = Len(t) + 1 /\ Len(t) \in Nat
       /\ DOMAIN trail' = 1 .. Len(t) + 1
       /\ \A n \in DOMAIN t : trail'[n] = t[n]
       /\ trail'[Len(t) + 1] = x
  BY <1>1, <1>5
<1>15. Queue'
  <2>1. qhead' \in 0 .. Len(trail') /\ todo' = {} /\ confl' = 0 /\ pc' = "search"
    BY <1>1, <1>2, <1>14
  <2>2. ASSUME NEW k \in DOMAIN trail_lim' PROVE trail_lim'[k] <= qhead'
    <3>1. k \in 1 .. K /\ trail_lim'[k] = trail_lim[k]
      BY <1>1, <1>5
    <3>2. trail_lim[k] <= Len(t)
      BY <1>3, <1>4, <3>1, CutLims DEF t
    <3>3. QED
      BY <1>1, <3>1, <3>2
  <2>3. QED
    BY <2>1, <2>2 DEF Queue
<1>16. FormulaModels' = FormulaModels
  BY <1>1, KeepModels
<1>17. ClausesFollow'
  <2>1. ASSUME NEW v \in FormulaModels'
        PROVE  /\ ok' /\ \A b \in DOMAIN db' : Satisfies(v, db'[b].lits)
               /\ \A n \in DOMAIN trail' : level'[Var(trail'[n])] = 0 => True(v, trail'[n])
    <3>1. v \in FormulaModels
      BY <1>16
    <3>2. ok' /\ \A b \in DOMAIN db : Satisfies(v, db[b].lits)
      BY <1>1, <3>1 DEF IInv, ClausesFollow
    <3>3. \A b \in DOMAIN db' : Satisfies(v, db'[b].lits)
      <4>1. CASE rest = {}
        BY <1>7, <3>2, <4>1
      <4>2. CASE rest # {}
        BY <1>4, <1>7, <3>1, <3>2, <4>2
      <4>3. QED
        BY <4>1, <4>2
    <3>4. ASSUME NEW n \in DOMAIN trail', level'[Var(trail'[n])] = 0 PROVE True(v, trail'[n])
      <4>1. CASE n \in DOMAIN t
        <5>1. n \in DOMAIN trail /\ trail'[n] = trail[n] /\ Var(trail[n]) # Var(x)
          BY <1>5, <1>8, <1>14, <4>1
        <5>2. LevelOf(n) = 0
          BY <1>1, <1>3, <3>4, <5>1, TrailFacts DEF LevelOf
        <5>3. QED
          BY <3>1, <5>1, <5>2, FactFollows
      <4>2. CASE n = Len(t) + 1
        <5>1. Var(x) \in Variable
          BY <1>3, <1>4, LiteralFacts
        <5>2. L = 0
          BY <1>1, <1>3, <1>14, <3>4, <4>2, <5>1, TrailFacts
        <5>3. rest = {}
          BY <1>4, <5>2
        <5>4. Satisfies(v, {x})
          BY <1>4, <3>1, <5>3
        <5>5. QED
          BY <1>14, <4>2, <5>4 DEF Satisfies
      <4>3. QED
        BY <1>5, <1>14, <4>1, <4>2
    <3>5. QED
      BY <3>2, <3>3, <3>4
  <2>2. QED
    BY <2>1, StillFollow
<1>18. Calls'
  <2>1. decisionLevel' = K
    BY <1>1, <1>5 DEF decisionLevel
  <2>2. QED
    BY <1>1, <1>2, <1>4, <2>1 DEF IInv, Calls, InQuery, assumps
<1>19. ConflictExplains'
  BY <1>1, <1>2 DEF ConflictExplains
<1>20. QED
  BY <1>7, <1>13, <1>15, <1>17, <1>18, <1>19 DEF IInv



-----------------------------------------------------------------------------
\* Every step keeps the invariant.
LEMMA NextIInv == IInv /\ [Next]_vars => IInv'
<1> SUFFICES ASSUME IInv, [Next]_vars PROVE IInv'
  OBVIOUS
<1>1. CASE AddClause
  BY <1>1, AddClauseIInv
<1>2. CASE Solve
  BY <1>2, SolveIInv
<1>3. CASE Propagate
  BY <1>3, TakeNextIInv, VisitSatisfiedIInv, VisitNewWatchIInv, VisitUnitIInv DEF Propagate
<1>4. CASE SimplifyConflict
  BY <1>4, SimplifyConflictIInv
<1>5. CASE SimplifyDB
  BY <1>5, SimplifyDBIInv
<1>6. CASE Assume
  BY <1>6, AssumeIInv
<1>7. CASE AssumeFalse
  BY <1>7, AssumeFalseIInv
<1>8. CASE AssumeConflict
  BY <1>8, AssumeConflictIInv
<1>9. CASE StartSearch
  BY <1>9, StartSearchIInv
<1>10. CASE Learn
  BY <1>10, LearnIInv
<1>11. CASE SearchConflict
  BY <1>11, SearchConflictIInv
<1>12. CASE Restart
  BY <1>12, RestartIInv
<1>13. CASE SearchSimplify
  BY <1>13, SearchSimplifyIInv
<1>14. CASE ReduceDB
  BY <1>14, ReduceDBIInv
<1>15. CASE Decide
  BY <1>15, DecideIInv
<1>16. CASE FindModel
  BY <1>16, FindModelIInv
<1>17. CASE Terminating
  BY <1>17, StutterIInv DEF Terminating
<1>18. CASE UNCHANGED vars
  BY <1>18, StutterIInv
<1>19. QED
  BY <1>1, <1>2, <1>3, <1>4, <1>5, <1>6, <1>7, <1>8, <1>9, <1>10, <1>11, <1>12, <1>13, <1>14,
     <1>15, <1>16, <1>17, <1>18 DEF Next

LEMMA SpecIInv == Spec => []IInv
<1>1. Init => IInv
  BY InitIInv
<1>2. IInv /\ [Next]_vars => IInv'
  BY NextIInv
<1>3. QED
  BY <1>1, <1>2, PTL DEF Spec

(***************************************************************************)
(* No freed clause is used, whenever simplifyDB and reduceDB drop clauses  *)
(* while others wait in the watcher lists of propagate.                    *)
(***************************************************************************)
THEOREM ClausesInMemory == Spec => []NoDanglingClause
<1>1. IInv => NoDanglingClause
  <2> SUFFICES ASSUME IInv PROVE NoDanglingClause
    OBVIOUS
  <2>1. /\ watches \in [Literal -> SUBSET DOMAIN db]
        /\ \A x \in Literal : \A a \in watches[x] : -x \in {db[a].first, db[a].second}
    BY DEF IInv, Memory
  <2>2. todo \subseteq DOMAIN db
    BY VisitFacts
  <2>3. {confl} \ {0} \subseteq DOMAIN db
    BY DEF IInv, Queue
  <2>4. QED
    BY <2>1, <2>2, <2>3 DEF NoDanglingClause
<1>2. QED
  BY <1>1, SpecIInv, PTL

(***************************************************************************)
(* The reason of a literal is in memory, has it in the first place and     *)
(* implies it, as analyze, analyzeFinal and locked take for granted.       *)
(***************************************************************************)
THEOREM ReasonsImply == Spec => []ReasonsHold
<1>1. IInv => ReasonsHold
  <2> SUFFICES ASSUME IInv, NEW v \in Variable, reason[v] # 0
               PROVE  reason[v] \in DOMAIN db /\ \E n \in DOMAIN trail :
                        /\ Var(trail[n]) = v
                        /\ db[reason[v]].first = trail[n]
                        /\ \A x \in Antecedents(reason[v]) : \E m \in 1 .. n - 1 : trail[m] = -x
    BY DEF ReasonsHold
  <2>1. Reasoned(trail, trail_lim, level, reason, db, root_level, assumps)
    BY DEF IInv, Assigned, Consistent
  <2>2. PICK n \in DOMAIN trail : Var(trail[n]) = v
    BY <2>1 DEF Reasoned
  <2>3. Implies(trail, db, reason[v], n)
    BY <2>1, <2>2 DEF Reasoned
  <2>4. QED
    BY <2>2, <2>3 DEF Implies, Others, Antecedents
<1>2. QED
  BY <1>1, SpecIInv, PTL

(***************************************************************************)
(* What is learnt, and what is taken for a fact, follows from the clauses  *)
(* given and from no assumption, whatever was learnt under assumptions.    *)
(***************************************************************************)
THEOREM LearntFollows == Spec => []ClausesFollow
<1>1. IInv => ClausesFollow
  BY DEF IInv
<1>2. QED
  BY <1>1, SpecIInv, PTL

(***************************************************************************)
(* The final conflict that analyzeFinal computes is about assumptions of   *)
(* the query, and follows from the clauses.                                *)
(***************************************************************************)
THEOREM ConflictIsFinal == Spec => []ConflictExplains
<1>1. IInv => ConflictExplains
  BY DEF IInv
<1>2. QED
  BY <1>1, SpecIInv, PTL
=============================================================================
