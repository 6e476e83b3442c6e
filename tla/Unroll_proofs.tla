---------------------------- MODULE Unroll_proofs ----------------------------
(***************************************************************************)
(* What the clauses of the gates say, for vectors of any length: those of  *)
(* each operator compute what Verilog says, and say nothing else; that the *)
(* clauses of a query keep to the variables handed out; and that they mean *)
(* the query, for every encoder and every window: their models are the     *)
(* pairs of runs that are asked for, with the target true in the hits.     *)
(***************************************************************************)
EXTENDS UnrollMeaning, Operators, VerilogOperators, FiniteSetTheorems, SequenceTheorems,
        WellFoundedInduction, TLAPS

(***************************************************************************)
(* encode_Red_AND: the result is true exactly if all the bits are.         *)
(***************************************************************************)
THEOREM RedAndMeaning ==
  ASSUME NEW n \in Nat, NEW v \in [1 .. n -> BOOLEAN],
         NEW res \in 1 .. n, NEW bits \in Seq(1 .. n)
  PROVE  SatisfiesAll(v, encode_Red_AND(res, bits)) <=> (v[res] <=> \A i \in DOMAIN bits : v[bits[i]])
<1> DEFINE all == Negated(bits) \cup {res}
           one(i) == {bits[i], -res}
<1>1. SatisfiesAll(v, encode_Red_AND(res, bits))
        <=> Satisfies(v, all) /\ \A i \in DOMAIN bits : Satisfies(v, one(i))
  <2>1. encode_Red_AND(res, bits) = {all} \cup {one(i) : i \in DOMAIN bits}
    BY DEF encode_Red_AND, Literals
  <2> HIDE DEF all, one
  <2> QED BY <2>1 DEF SatisfiesAll
<1>2. \A i \in DOMAIN bits : bits[i] \in 1 .. n
  OBVIOUS
<1>3. Satisfies(v, all) <=> v[res] \/ \E i \in DOMAIN bits : ~v[bits[i]]
  <2>1. True(v, res) <=> v[res]
    BY DEF True
  <2>2. \A i \in DOMAIN bits : True(v, -bits[i]) <=> ~v[bits[i]]
    BY <1>2 DEF True
  <2> QED BY <2>1, <2>2 DEF Satisfies, Negated
<1>4. \A i \in DOMAIN bits : Satisfies(v, one(i)) <=> v[bits[i]] \/ ~v[res]
  BY <1>2 DEF Satisfies, True
<1> QED BY <1>1, <1>3, <1>4

(***************************************************************************)
(* encode_EQU_res: the result is true exactly if the two bits are equal.   *)
(***************************************************************************)
LEMMA EquResMeaning ==
  ASSUME NEW n \in Nat, NEW v \in [1 .. n -> BOOLEAN],
         NEW res \in 1 .. n, NEW a \in 1 .. n, NEW b \in 1 .. n
  PROVE  SatisfiesAll(v, encode_EQU_res(res, a, b)) <=> (v[res] <=> (v[a] <=> v[b]))
<1>1. \A x \in {res, a, b} : (True(v, x) <=> v[x]) /\ (True(v, -x) <=> ~v[x])
  BY DEF True
<1>2. /\ Satisfies(v, {a, b, res}) <=> v[a] \/ v[b] \/ v[res]
      /\ Satisfies(v, {-a, -b, res}) <=> ~v[a] \/ ~v[b] \/ v[res]
      /\ Satisfies(v, {a, -b, -res}) <=> v[a] \/ ~v[b] \/ ~v[res]
      /\ Satisfies(v, {-a, b, -res}) <=> ~v[a] \/ v[b] \/ ~v[res]
  BY <1>1 DEF Satisfies
<1>3. SatisfiesAll(v, encode_EQU_res(res, a, b))
        <=> /\ Satisfies(v, {a, b, res}) /\ Satisfies(v, {-a, -b, res})
            /\ Satisfies(v, {a, -b, -res}) /\ Satisfies(v, {-a, b, -res})
  BY DEF SatisfiesAll, encode_EQU_res
<1> QED BY <1>2, <1>3

(***************************************************************************)
(* encode_EQUV_res: its target is true exactly if the vectors are equal,   *)
(* bit by bit, so the query for equal outputs asks for what it should.     *)
(***************************************************************************)
THEOREM EquvResMeaning ==
  ASSUME NEW n \in Nat, NEW v \in [1 .. n -> BOOLEAN],
         NEW a \in Seq(1 .. n), NEW b \in Seq(1 .. n), Len(a) = Len(b),
         NEW index \in Nat \ {0}, index + Len(a) <= n,
         SatisfiesAll(v, encode_EQUV_res(index, a, b))
  PROVE  v[index + Len(a)] <=> \A i \in DOMAIN a : v[a[i]] <=> v[b[i]]
<1> DEFINE bits == Fresh(index, Len(a))
<1>1. /\ bits \in Seq(1 .. n)
      /\ DOMAIN bits = DOMAIN a
      /\ \A i \in DOMAIN a : bits[i] = index + i - 1
  BY SMTT(30) DEF Fresh
<1>2. v[index + Len(a)] <=> \A i \in DOMAIN a : v[bits[i]]
  <2>1. SatisfiesAll(v, encode_Red_AND(index + Len(a), bits))
    BY DEF encode_EQUV_res, SatisfiesAll
  <2>2. index + Len(a) \in 1 .. n
    OBVIOUS
  <2> QED BY <1>1, <2>1, <2>2, RedAndMeaning
<1>3. ASSUME NEW i \in DOMAIN a
      PROVE  v[bits[i]] <=> (v[a[i]] <=> v[b[i]])
  <2> DEFINE x == bits[i]
             y == a[i]
             z == b[i]
  <2>1. SatisfiesAll(v, encode_EQU_res(x, y, z))
    BY <1>1 DEF encode_EQUV_res, SatisfiesAll
  <2>2. x \in 1 .. n /\ y \in 1 .. n /\ z \in 1 .. n
    <3>1. i \in DOMAIN bits /\ i \in DOMAIN b
      BY <1>1, SMTT(30)
    <3>2. x \in 1 .. n
      BY <1>1, <3>1, SMTT(30)
    <3>3. y \in 1 .. n /\ z \in 1 .. n
      BY <3>1, SMTT(30)
    <3> QED BY <3>2, <3>3
  <2> HIDE DEF x, y, z
  <2>3. v[x] <=> (v[y] <=> v[z])
    BY <2>1, <2>2, EquResMeaning
  <2> QED BY <2>3 DEF x, y, z
<1> QED BY <1>2, <1>3

-----------------------------------------------------------------------------
(***************************************************************************)
(* Induction, and the number that a vector stands for.                     *)
(***************************************************************************)
LEMMA LeastMember ==
  ASSUME NEW T \in SUBSET Nat, T # {}
  PROVE  \E m \in T : \A n \in T : m <= n
<1> DEFINE I == {0 .. n : n \in T}
<1>1. I \subseteq FiniteSubsetsOf(Nat) /\ I # {}
  <2>1. ASSUME NEW n \in T PROVE IsFiniteSet(0 .. n) /\ 0 .. n \subseteq Nat
    BY FS_Interval
  <2>2. QED
    BY <2>1 DEF FiniteSubsetsOf
<1>2. \E x \in I : \A y \in I : ~(<<y, x>> \in StrictSubsetOrdering(Nat))
  BY <1>1, FS_StrictSubsetOrderingWellFounded, WFMin
<1>3. PICK m \in T : \A n \in T : ~(<<0 .. n, 0 .. m>> \in StrictSubsetOrdering(Nat))
  BY <1>2
<1>4. ASSUME NEW n \in T PROVE m <= n
  <2>1. SUFFICES ASSUME n < m PROVE FALSE
    OBVIOUS
  <2>2. 0 .. n \subseteq 0 .. m /\ m \in 0 .. m /\ m \notin 0 .. n
    BY <2>1
  <2>3. <<0 .. n, 0 .. m>> \in (SUBSET Nat) \X (SUBSET Nat)
    OBVIOUS
  <2>4. QED
    BY <1>3, <2>2, <2>3 DEF StrictSubsetOrdering
<1>5. QED
  BY <1>4

LEMMA Induction ==
  ASSUME NEW S, 0 \in S, \A k \in Nat : k \in S => k + 1 \in S
  PROVE  \A k \in Nat : k \in S
<1> DEFINE T == {k \in Nat : k \notin S}
<1> SUFFICES ASSUME T # {} PROVE FALSE
  OBVIOUS
<1>1. PICK m \in T : \A k \in T : m <= k
  BY LeastMember
<1>2. m # 0
  OBVIOUS
<1>3. m - 1 \in Nat /\ ~(m <= m - 1) /\ (m - 1) + 1 = m
  BY <1>2
<1>4. m - 1 \in S
  BY <1>1, <1>3
<1> QED BY <1>3, <1>4

Bit(x) == IF x THEN 1 ELSE 0

LEMMA BitFacts ==
  ASSUME NEW x \in BOOLEAN
  PROVE  Bit(x) \in {0, 1} /\ (Bit(x) = 1 <=> x) /\ (Bit(x) = 0 <=> ~x)
BY DEF Bit

LEMMA Doubled ==
  ASSUME NEW m \in Nat, NEW n \in Nat, NEW x \in {0, 1}, NEW y \in {0, 1},
         2 * m + x = 2 * n + y
  PROVE  m = n /\ x = y
OBVIOUS

LEMMA NumberIs ==
  ASSUME NEW w \in Nat, NEW bits \in Seq(BOOLEAN), Len(bits) = w
  PROVE  \E u \in [0 .. w -> Nat] :
           /\ u[0] = 0
           /\ \A k \in 1 .. w : u[k] = 2 * u[k - 1] + Bit(bits[k])
           /\ Number(bits) = u[w]
<1> DEFINE Upto(u, m) == u \in [0 .. m -> Nat] /\ u[0] = 0
                           /\ \A k \in 1 .. m : u[k] = 2 * u[k - 1] + Bit(bits[k])
           S == {m \in Nat : \E u : Upto(u, m)}
<1>1. \A m \in Nat : m \in S
  <2>1. 0 \in S
    <3>1. Upto([k \in 0 .. 0 |-> 0], 0)
      OBVIOUS
    <3> QED BY <3>1
  <2>2. ASSUME NEW m \in Nat, m \in S PROVE m + 1 \in S
    <3>1. PICK u : Upto(u, m)
      BY <2>2
    <3> DEFINE t == [k \in 0 .. m + 1 |-> IF k = m + 1 THEN 2 * u[m] + Bit(bits[m + 1]) ELSE u[k]]
    <3>2. t \in [0 .. m + 1 -> Nat]
      BY <3>1 DEF Bit
    <3>3. t[0] = 0
      BY <3>1
    <3>4. ASSUME NEW k \in 1 .. m + 1 PROVE t[k] = 2 * t[k - 1] + Bit(bits[k])
      <4>1. CASE k = m + 1
        <5>1. t[k] = 2 * u[m] + Bit(bits[m + 1]) /\ t[k - 1] = u[m]
          BY <4>1
        <5> QED BY <4>1, <5>1
      <4>2. CASE k # m + 1
        <5>1. k \in 1 .. m /\ t[k] = u[k] /\ t[k - 1] = u[k - 1]
          BY <4>2
        <5> QED BY <3>1, <5>1
      <4> QED BY <4>1, <4>2
    <3>5. Upto(t, m + 1)
      BY <3>2, <3>3, <3>4
    <3> HIDE DEF t, Upto
    <3> QED BY <3>5
  <2> HIDE DEF S
  <2> QED BY <2>1, <2>2, Induction
<1>2. PICK u : Upto(u, w)
  BY <1>1
<1> DEFINE G(f) == [k \in 0 .. Len(bits) |->
                      IF k = 0 THEN 0 ELSE 2 * f[k - 1] + (IF bits[k] THEN 1 ELSE 0)]
           upto == CHOOSE f : f = G(f)
<1>3. u = G(u)
  <2>1. ASSUME NEW k \in 0 .. w PROVE u[k] = G(u)[k]
    BY <1>2, <2>1 DEF Bit
  <2> QED BY <1>2, <2>1
<1>4. upto = G(upto)
  BY <1>3
<1>5. Number(bits) = upto[w]
  BY DEF Number
<1> HIDE DEF upto
<1>6. upto[0] = 0 /\ \A k \in 1 .. w : upto[k] = 2 * upto[k - 1] + Bit(bits[k])
  BY <1>4 DEF Bit
<1> DEFINE E == {k \in Nat : k <= w => upto[k] = u[k]}
<1>7. \A k \in Nat : k \in E
  <2>1. 0 \in E
    BY <1>2, <1>6
  <2>2. ASSUME NEW k \in Nat, k \in E PROVE k + 1 \in E
    <3>1. SUFFICES ASSUME k + 1 <= w PROVE upto[k + 1] = u[k + 1]
      OBVIOUS
    <3>2. k + 1 \in 1 .. w /\ (k + 1) - 1 = k /\ upto[k] = u[k]
      BY <2>2, <3>1
    <3> QED BY <1>2, <1>6, <3>2
  <2> HIDE DEF E
  <2> QED BY <2>1, <2>2, Induction
<1>8. upto[w] = u[w]
  BY <1>7
<1>9. Number(bits) = u[w]
  BY <1>5, <1>8
<1> QED BY <1>2, <1>9

LEMMA SameNumber ==
  ASSUME NEW w \in Nat, NEW a \in Seq(BOOLEAN), NEW b \in Seq(BOOLEAN), Len(a) = w, Len(b) = w
  PROVE  Number(a) = Number(b) <=> \A k \in 1 .. w : a[k] = b[k]
<1>1. PICK x \in [0 .. w -> Nat] :
        /\ x[0] = 0
        /\ \A k \in 1 .. w : x[k] = 2 * x[k - 1] + Bit(a[k])
        /\ Number(a) = x[w]
  BY NumberIs
<1>2. PICK y \in [0 .. w -> Nat] :
        /\ y[0] = 0
        /\ \A k \in 1 .. w : y[k] = 2 * y[k - 1] + Bit(b[k])
        /\ Number(b) = y[w]
  BY NumberIs
<1>3. \A k \in 1 .. w : a[k] \in BOOLEAN /\ b[k] \in BOOLEAN
  OBVIOUS
<1>4. ASSUME Number(a) = Number(b), NEW k \in 1 .. w PROVE a[k] = b[k]
  <2> DEFINE S == {m \in Nat : m <= w => x[w - m] = y[w - m]}
  <2>1. \A m \in Nat : m \in S
    <3>1. 0 \in S
      <4>1. x[w] = y[w] /\ w - 0 = w
        BY <1>1, <1>2, <1>4
      <4> QED BY <4>1
    <3>2. ASSUME NEW m \in Nat, m \in S PROVE m + 1 \in S
      <4>1. SUFFICES ASSUME m + 1 <= w PROVE x[w - (m + 1)] = y[w - (m + 1)]
        OBVIOUS
      <4> DEFINE j == w - m
      <4>2. j \in 1 .. w /\ j - 1 \in 0 .. w /\ w - (m + 1) = j - 1 /\ x[j] = y[j]
        BY <3>2, <4>1
      <4> HIDE DEF j
      <4>3. x[j] = 2 * x[j - 1] + Bit(a[j]) /\ y[j] = 2 * y[j - 1] + Bit(b[j])
        BY <1>1, <1>2, <4>2
      <4>4. x[j - 1] \in Nat /\ y[j - 1] \in Nat
        BY <4>2
      <4>5. Bit(a[j]) \in {0, 1} /\ Bit(b[j]) \in {0, 1}
        BY <1>3, <4>2, BitFacts
      <4>6. x[j - 1] = y[j - 1]
        <5>1. 2 * x[j - 1] + Bit(a[j]) = 2 * y[j - 1] + Bit(b[j])
          BY <4>2, <4>3
        <5> DEFINE m0 == x[j - 1]
                   n0 == y[j - 1]
                   x0 == Bit(a[j])
                   y0 == Bit(b[j])
        <5> HIDE DEF m0, n0, x0, y0
        <5>2. m0 = n0
          <6>1. m0 \in Nat /\ n0 \in Nat /\ x0 \in {0, 1} /\ y0 \in {0, 1} /\ 2 * m0 + x0 = 2 * n0 + y0
            BY <4>4, <4>5, <5>1 DEF m0, n0, x0, y0
          <6> QED BY <6>1, Doubled
        <5> QED BY <5>2 DEF m0, n0
      <4> QED BY <4>2, <4>6
    <3> HIDE DEF S
    <3> QED BY <3>1, <3>2, Induction
  <2>2. x[k] = y[k] /\ x[k - 1] = y[k - 1]
    <3>1. w - k \in S /\ w - (k - 1) \in S
      <4>1. w - k \in Nat /\ w - (k - 1) \in Nat
        OBVIOUS
      <4> HIDE DEF S
      <4> QED BY <2>1, <4>1
    <3>2. w - k <= w /\ w - (w - k) = k /\ w - (k - 1) <= w /\ w - (w - (k - 1)) = k - 1
      OBVIOUS
    <3> QED BY <3>1, <3>2
  <2>3. x[k - 1] \in Nat
    OBVIOUS
  <2>4. Bit(a[k]) = Bit(b[k])
    <3>1. x[k] = 2 * x[k - 1] + Bit(a[k]) /\ y[k] = 2 * y[k - 1] + Bit(b[k])
      BY <1>1, <1>2
    <3>2. Bit(a[k]) \in {0, 1} /\ Bit(b[k]) \in {0, 1}
      BY <1>3, BitFacts
    <3>3. 2 * x[k - 1] + Bit(a[k]) = 2 * y[k - 1] + Bit(b[k])
      BY <2>2, <3>1
    <3>4. x[k - 1] \in Nat /\ y[k - 1] \in Nat
      BY <2>2, <2>3
    <3> QED BY <3>2, <3>3, <3>4, Doubled, SMTT(60)
  <2> QED BY <1>3, <2>4, BitFacts
<1>5. ASSUME \A k \in 1 .. w : a[k] = b[k] PROVE Number(a) = Number(b)
  <2>1. a = b
    BY <1>5
  <2> QED BY <2>1
<1> QED BY <1>4, <1>5

\* A digit in front of a vector.
LEMMA NumberBehind ==
  ASSUME NEW w \in Nat, NEW bits \in Seq(BOOLEAN), Len(bits) = w, NEW c \in BOOLEAN
  PROVE  \E u \in [0 .. w -> Nat] :
           /\ u[0] = Bit(c)
           /\ \A k \in 1 .. w : u[k] = 2 * u[k - 1] + Bit(bits[k])
           /\ Number(<<c>> \o bits) = u[w]
<1> DEFINE s == <<c>> \o bits
<1>1. s \in Seq(BOOLEAN) /\ Len(s) = w + 1 /\ s[1] = c /\ \A k \in 1 .. w : s[k + 1] = bits[k]
  OBVIOUS
<1> DEFINE n == w + 1
<1> HIDE DEF s
<1>2. PICK x \in [0 .. w + 1 -> Nat] :
        /\ x[0] = 0
        /\ \A k \in 1 .. w + 1 : x[k] = 2 * x[k - 1] + Bit(s[k])
        /\ Number(s) = x[w + 1]
  <2>1. n \in Nat /\ Len(s) = n
    BY <1>1
  <2> HIDE DEF n
  <2>2. \E x \in [0 .. n -> Nat] :
          /\ x[0] = 0
          /\ \A k \in 1 .. n : x[k] = 2 * x[k - 1] + Bit(s[k])
          /\ Number(s) = x[n]
    BY <1>1, <2>1, NumberIs
  <2> QED BY <2>2 DEF n
<1> DEFINE u == [k \in 0 .. w |-> x[k + 1]]
<1>3. u \in [0 .. w -> Nat]
  OBVIOUS
<1>4. u[0] = Bit(c)
  <2>1. 1 \in 1 .. w + 1 /\ u[0] = x[1]
    OBVIOUS
  <2>2. x[1] = 2 * x[0] + Bit(s[1])
    BY <1>2, <2>1
  <2>3. Bit(c) \in {0, 1}
    BY BitFacts
  <2> QED BY <1>1, <1>2, <2>1, <2>2, <2>3
<1>5. ASSUME NEW k \in 1 .. w PROVE u[k] = 2 * u[k - 1] + Bit(bits[k])
  <2>1. k + 1 \in 1 .. w + 1 /\ (k + 1) - 1 = k /\ u[k] = x[k + 1] /\ u[k - 1] = x[k]
    OBVIOUS
  <2> QED BY <1>1, <1>2, <2>1
<1>6. Number(s) = u[w]
  BY <1>2
<1> HIDE DEF u
<1>7. \E t \in [0 .. w -> Nat] :
        /\ t[0] = Bit(c)
        /\ \A k \in 1 .. w : t[k] = 2 * t[k - 1] + Bit(bits[k])
        /\ Number(s) = t[w]
  BY <1>3, <1>4, <1>5, <1>6
<1> QED BY <1>7 DEF s

LEMMA DoubledLess ==
  ASSUME NEW m \in Nat, NEW n \in Nat, NEW x \in {0, 1}, NEW y \in {0, 1}
  PROVE  /\ 2 * m + x < 2 * n + y <=> m < n \/ (m = n /\ x < y)
         /\ 2 * m + x = 2 * n + y <=> m = n /\ x = y
OBVIOUS

(***************************************************************************)
(* A chain of comparisons from the right end, as T_lt has it, compares the *)
(* numbers: what the bits from the left decide, or else the rest.          *)
(***************************************************************************)
LEMMA LessChain ==
  ASSUME NEW w \in Nat, NEW a \in Seq(BOOLEAN), NEW b \in Seq(BOOLEAN), Len(a) = w, Len(b) = w,
         NEW less \in [1 .. w + 1 -> BOOLEAN], ~less[w + 1],
         \A k \in 1 .. w : less[k] <=> (~a[k] /\ b[k]) \/ ((a[k] <=> b[k]) /\ less[k + 1])
  PROVE  less[1] <=> Number(a) < Number(b)
<1>1. PICK x \in [0 .. w -> Nat] :
        /\ x[0] = 0
        /\ \A k \in 1 .. w : x[k] = 2 * x[k - 1] + Bit(a[k])
        /\ Number(a) = x[w]
  BY NumberIs
<1>2. PICK y \in [0 .. w -> Nat] :
        /\ y[0] = 0
        /\ \A k \in 1 .. w : y[k] = 2 * y[k - 1] + Bit(b[k])
        /\ Number(b) = y[w]
  BY NumberIs
<1> DEFINE Decided(k) == less[1] <=> x[k] < y[k] \/ (x[k] = y[k] /\ less[k + 1])
           S == {k \in Nat : k <= w => Decided(k)}
<1>3. \A k \in Nat : k \in S
  <2>1. 0 \in S
    BY <1>1, <1>2
  <2>2. ASSUME NEW k \in Nat, k \in S PROVE k + 1 \in S
    <3>1. SUFFICES ASSUME k + 1 <= w PROVE Decided(k + 1)
      OBVIOUS
    <3> DEFINE j == k + 1
    <3>2. j \in 1 .. w /\ k = j - 1 /\ k \in 0 .. w /\ j \in 0 .. w /\ j + 1 \in 1 .. w + 1
      BY <3>1
    <3>3. Decided(k)
      BY <2>2, <3>1
    <3> HIDE DEF j
    <3>4. x[j] = 2 * x[k] + Bit(a[j]) /\ y[j] = 2 * y[k] + Bit(b[j])
      BY <1>1, <1>2, <3>2
    <3>5. a[j] \in BOOLEAN /\ b[j] \in BOOLEAN
      BY <3>2
    <3>6. x[k] \in Nat /\ y[k] \in Nat
      BY <3>2
    <3>7. less[j] <=> (~a[j] /\ b[j]) \/ ((a[j] <=> b[j]) /\ less[j + 1])
      BY <3>2
    <3>8. /\ x[j] < y[j] <=> x[k] < y[k] \/ (x[k] = y[k] /\ Bit(a[j]) < Bit(b[j]))
          /\ x[j] = y[j] <=> x[k] = y[k] /\ Bit(a[j]) = Bit(b[j])
      <4>1. Bit(a[j]) \in {0, 1} /\ Bit(b[j]) \in {0, 1}
        BY <3>5, BitFacts
      <4> DEFINE m == x[k]
                 n == y[k]
                 d == Bit(a[j])
                 f == Bit(b[j])
      <4>2. m \in Nat /\ n \in Nat /\ d \in {0, 1} /\ f \in {0, 1}
            /\ x[j] = 2 * m + d /\ y[j] = 2 * n + f
        BY <3>4, <3>6, <4>1
      <4> HIDE DEF m, n, d, f
      <4>3. /\ x[j] < y[j] <=> m < n \/ (m = n /\ d < f)
            /\ x[j] = y[j] <=> m = n /\ d = f
        BY <4>2, DoubledLess
      <4> QED BY <4>3 DEF m, n, d, f
    <3>9. /\ Bit(a[j]) < Bit(b[j]) <=> ~a[j] /\ b[j]
          /\ Bit(a[j]) = Bit(b[j]) <=> (a[j] <=> b[j])
      BY <3>5, BitFacts
    <3>10. less[1] <=> x[k] < y[k] \/ (x[k] = y[k] /\ less[j])
      BY <3>2, <3>3
    <3>11. Decided(j)
      BY <3>7, <3>8, <3>9, <3>10
    <3> QED BY <3>11 DEF j
  <2> HIDE DEF S
  <2> QED BY <2>1, <2>2, Induction
<1>4. Decided(w)
  BY <1>3
<1> QED BY <1>1, <1>2, <1>4

\* A full adder: the bits a, b and c have the sum res and the carry cry.
FullAdder(a, b, c, cry, res) == 2 * Bit(cry) + Bit(res) = Bit(a) + Bit(b) + Bit(c)

\* A chain of w full adders from the right end, with the sum s.
Adders(w, a, b, carry, s) ==
  /\ w \in Nat
  /\ a \in Seq(BOOLEAN) /\ b \in Seq(BOOLEAN) /\ s \in Seq(BOOLEAN)
  /\ Len(a) = w /\ Len(b) = w /\ Len(s) = w
  /\ carry \in [1 .. w + 1 -> BOOLEAN] /\ ~carry[w + 1]
  /\ \A k \in 1 .. w : FullAdder(a[k], b[k], carry[k + 1], carry[k], s[k])

(***************************************************************************)
(* A chain of full adders from the right end adds the numbers.             *)
(***************************************************************************)
LEMMA SumChain ==
  ASSUME NEW w, NEW a, NEW b, NEW s, NEW carry, Adders(w, a, b, carry, s)
  PROVE  Number(<<carry[1]>> \o s) = Number(a) + Number(b)
<1> USE DEF Adders
<1>1. PICK x \in [0 .. w -> Nat] :
        /\ x[0] = 0
        /\ \A k \in 1 .. w : x[k] = 2 * x[k - 1] + Bit(a[k])
        /\ Number(a) = x[w]
  BY NumberIs
<1>2. PICK y \in [0 .. w -> Nat] :
        /\ y[0] = 0
        /\ \A k \in 1 .. w : y[k] = 2 * y[k - 1] + Bit(b[k])
        /\ Number(b) = y[w]
  BY NumberIs
<1> DEFINE c == carry[1]
<1>3. c \in BOOLEAN
  OBVIOUS
<1> HIDE DEF c
<1>4. PICK z \in [0 .. w -> Nat] :
        /\ z[0] = Bit(c)
        /\ \A k \in 1 .. w : z[k] = 2 * z[k - 1] + Bit(s[k])
        /\ Number(<<c>> \o s) = z[w]
  BY <1>3, NumberBehind
<1> DEFINE Added(k) == z[k] = x[k] + y[k] + Bit(carry[k + 1])
           S == {k \in Nat : k <= w => Added(k)}
<1>5. \A k \in Nat : k \in S
  <2>1. 0 \in S
    <3>1. Bit(carry[1]) \in {0, 1}
      BY BitFacts
    <3>2. z[0] = Bit(carry[1]) /\ x[0] = 0 /\ y[0] = 0
      BY <1>1, <1>2, <1>4 DEF c
    <3> QED BY <3>1, <3>2
  <2>2. ASSUME NEW k \in Nat, k \in S PROVE k + 1 \in S
    <3>1. SUFFICES ASSUME k + 1 <= w PROVE Added(k + 1)
      OBVIOUS
    <3> DEFINE j == k + 1
    <3>2. j \in 1 .. w /\ k = j - 1 /\ k \in 0 .. w /\ j \in 1 .. w + 1 /\ j + 1 \in 1 .. w + 1
      BY <3>1
    <3>3. z[k] = x[k] + y[k] + Bit(carry[j])
      BY <2>2, <3>1
    <3> HIDE DEF j
    <3>4. x[j] = 2 * x[k] + Bit(a[j]) /\ y[j] = 2 * y[k] + Bit(b[j]) /\ z[j] = 2 * z[k] + Bit(s[j])
      BY <1>1, <1>2, <1>4, <3>2
    <3>5. a[j] \in BOOLEAN /\ b[j] \in BOOLEAN /\ s[j] \in BOOLEAN
          /\ carry[j] \in BOOLEAN /\ carry[j + 1] \in BOOLEAN
      BY <3>2
    <3>6. Bit(a[j]) \in Int /\ Bit(b[j]) \in Int /\ Bit(s[j]) \in Int
          /\ Bit(carry[j]) \in Int /\ Bit(carry[j + 1]) \in Int
      BY <3>5, BitFacts, SMTT(60)
    <3>7. x[k] \in Nat /\ y[k] \in Nat /\ z[k] \in Nat
      BY <3>2
    <3>8. 2 * Bit(carry[j]) + Bit(s[j]) = Bit(a[j]) + Bit(b[j]) + Bit(carry[j + 1])
      BY <3>2 DEF FullAdder, Adders
    <3>9. Added(j)
      <4> DEFINE x0 == x[k]
                 y0 == y[k]
                 z0 == z[k]
                 i0 == Bit(a[j])
                 j0 == Bit(b[j])
                 k0 == Bit(s[j])
                 c0 == Bit(carry[j])
                 d0 == Bit(carry[j + 1])
      <4>1. x0 \in Int /\ y0 \in Int /\ z0 \in Int
        BY <3>7
      <4>2. i0 \in Int /\ j0 \in Int /\ k0 \in Int /\ c0 \in Int /\ d0 \in Int
        BY <3>6
      <4>3. z0 = x0 + y0 + c0 /\ 2 * c0 + k0 = i0 + j0 + d0
        BY <3>3, <3>8
      <4> HIDE DEF x0, y0, z0, i0, j0, k0, c0, d0
      <4>4. 2 * z0 + k0 = (2 * x0 + i0) + (2 * y0 + j0) + d0
        BY <4>1, <4>2, <4>3
      <4> QED BY <3>4, <4>4 DEF x0, y0, z0, i0, j0, k0, d0
    <3> QED BY <3>9 DEF j
  <2> HIDE DEF S
  <2> QED BY <2>1, <2>2, Induction
<1>6. Added(w)
  BY <1>5
<1>7. Bit(carry[w + 1]) = 0
  BY DEF Bit
<1> QED BY <1>1, <1>2, <1>4, <1>6, <1>7 DEF c

\* Two vectors of as many bits and with a digit in front: the bits are the same if the numbers are.
LEMMA SumIs ==
  ASSUME NEW w \in Nat, NEW a \in Seq(BOOLEAN), NEW b \in Seq(BOOLEAN), NEW s \in Seq(BOOLEAN),
         Len(a) = w, Len(b) = w, Len(s) = w, NEW c \in BOOLEAN,
         Number(<<c>> \o s) = Number(a) + Number(b)
  PROVE  s = Sum(a, b)
<1> DEFINE Adds(t) == \E d \in BOOLEAN : Number(<<d>> \o t) = Number(a) + Number(b)
<1>1. s \in [1 .. w -> BOOLEAN] /\ Adds(s)
  OBVIOUS
<1>2. ASSUME NEW t \in [1 .. w -> BOOLEAN], Adds(t) PROVE t = s
  <2>1. PICK d \in BOOLEAN : Number(<<d>> \o t) = Number(a) + Number(b)
    BY <1>2
  <2>2. t \in Seq(BOOLEAN) /\ Len(t) = w
    OBVIOUS
  <2> DEFINE x == <<c>> \o s
             y == <<d>> \o t
  <2>3. x \in Seq(BOOLEAN) /\ Len(x) = w + 1 /\ \A k \in 1 .. w : x[k + 1] = s[k]
    OBVIOUS
  <2>4. y \in Seq(BOOLEAN) /\ Len(y) = w + 1 /\ \A k \in 1 .. w : y[k + 1] = t[k]
    BY <2>2
  <2>5. Number(x) = Number(y)
    BY <2>1
  <2> HIDE DEF x, y
  <2> DEFINE n == w + 1
  <2>6. \A k \in 1 .. n : x[k] = y[k]
    <3>1. n \in Nat /\ Len(x) = n /\ Len(y) = n
      BY <2>3, <2>4
    <3> HIDE DEF n
    <3> QED BY <2>3, <2>4, <2>5, <3>1, SameNumber
  <2>7. \A k \in 1 .. w : t[k] = s[k]
    BY <2>3, <2>4, <2>6
  <2> QED BY <1>1, <2>7
<1>3. Sum(a, b) = CHOOSE t \in [1 .. w -> BOOLEAN] : Adds(t)
  BY DEF Sum
<1> HIDE DEF Adds
<1> QED BY <1>1, <1>2, <1>3

(***************************************************************************)
(* A chain from the right end has one solution.                            *)
(***************************************************************************)
LEMMA ChainExists ==
  ASSUME NEW w \in Nat, NEW g \in [1 .. w -> [BOOLEAN -> BOOLEAN]]
  PROVE  \E u \in [1 .. w + 1 -> BOOLEAN] : ~u[w + 1] /\ \A k \in 1 .. w : u[k] = g[k][u[k + 1]]
<1> DEFINE Upto(u, m) == u \in [m .. w + 1 -> BOOLEAN] /\ ~u[w + 1]
                           /\ \A k \in m .. w : u[k] = g[k][u[k + 1]]
           S == {m \in Nat : m <= w => \E u : Upto(u, w + 1 - m)}
<1>1. \A m \in Nat : m \in S
  <2>1. 0 \in S
    <3> DEFINE u == [k \in w + 1 .. w + 1 |-> FALSE]
    <3>1. u \in [w + 1 .. w + 1 -> BOOLEAN] /\ ~u[w + 1]
      OBVIOUS
    <3>2. \A k \in w + 1 .. w : u[k] = g[k][u[k + 1]]
      OBVIOUS
    <3>3. Upto(u, w + 1)
      <4> HIDE DEF u
      <4> QED BY <3>1, <3>2
    <3>4. w + 1 - 0 = w + 1
      OBVIOUS
    <3> HIDE DEF u, Upto
    <3> QED BY <3>3, <3>4
  <2>2. ASSUME NEW m \in Nat, m \in S PROVE m + 1 \in S
    <3>1. SUFFICES ASSUME m + 1 <= w PROVE \E u : Upto(u, w + 1 - (m + 1))
      OBVIOUS
    <3> DEFINE j == w + 1 - (m + 1)
    <3>2. j \in 1 .. w /\ w + 1 - m = j + 1 /\ m <= w
      BY <3>1
    <3>3. PICK u : Upto(u, j + 1)
      BY <2>2, <3>2
    <3> HIDE DEF j
    <3> DEFINE t == [k \in j .. w + 1 |-> IF k = j THEN g[j][u[j + 1]] ELSE u[k]]
    <3>4. u[j + 1] \in BOOLEAN
      BY <3>2, <3>3
    <3>5. g[j][u[j + 1]] \in BOOLEAN
      BY <3>2, <3>4
    <3>6. t \in [j .. w + 1 -> BOOLEAN]
      BY <3>2, <3>3, <3>5
    <3>7. \A k \in j + 1 .. w + 1 : t[k] = u[k]
      BY <3>2
    <3>8. t[j] = g[j][u[j + 1]]
      BY <3>2
    <3> HIDE DEF t
    <3>9. ~t[w + 1]
      BY <3>2, <3>3, <3>7
    <3>10. ASSUME NEW k \in j .. w PROVE t[k] = g[k][t[k + 1]]
      <4>1. k + 1 \in j + 1 .. w + 1
        BY <3>2
      <4>2. t[k + 1] = u[k + 1]
        BY <3>7, <4>1
      <4>3. CASE k = j
        BY <3>8, <4>2, <4>3
      <4>4. CASE k # j
        <5>1. k \in j + 1 .. w /\ k \in j + 1 .. w + 1
          BY <3>2, <4>4
        <5> QED BY <3>3, <3>7, <4>2, <5>1
      <4> QED BY <4>3, <4>4
    <3>11. Upto(t, j)
      BY <3>6, <3>9, <3>10
    <3> HIDE DEF Upto
    <3> QED BY <3>11 DEF j
  <2> HIDE DEF S
  <2> QED BY <2>1, <2>2, Induction
<1>2. CASE w = 0
  <2>1. Upto([k \in 1 .. w + 1 |-> FALSE], 1)
    BY <1>2
  <2> QED BY <2>1
<1>3. CASE w # 0
  <2>1. w \in S /\ w + 1 - w = 1
    BY <1>1
  <2>2. PICK u : Upto(u, 1)
    BY <2>1
  <2> QED BY <2>2
<1> QED BY <1>2, <1>3

-----------------------------------------------------------------------------
(***************************************************************************)
(* The gates of one bit: the clauses hold exactly if the result is what    *)
(* the name says.                                                          *)
(***************************************************************************)
LEMMA GateMeaning ==
  ASSUME NEW n \in Nat, NEW v \in [1 .. n -> BOOLEAN],
         NEW res \in 1 .. n, NEW a \in 1 .. n, NEW b \in 1 .. n, NEW pred \in 1 .. n
  PROVE  /\ SatisfiesAll(v, encode_NEQ(res, a)) <=> (v[res] <=> ~v[a])
         /\ SatisfiesAll(v, encode_INE_res(res, a, b)) <=> (v[res] <=> ~(v[a] <=> v[b]))
         /\ SatisfiesAll(v, encode_AND2_res(res, a, b)) <=> (v[res] <=> v[a] /\ v[b])
         /\ SatisfiesAll(v, encode_OR2_res(res, a, b)) <=> (v[res] <=> v[a] \/ v[b])
         /\ SatisfiesAll(v, encode_SEL_res(res, a, b, pred))
              <=> (v[res] <=> IF v[pred] THEN v[a] ELSE v[b])
<1>1. \A x \in {res, a, b, pred} : (True(v, x) <=> v[x]) /\ (True(v, -x) <=> ~v[x])
  BY DEF True
<1>2. SatisfiesAll(v, encode_NEQ(res, a)) <=> (v[res] <=> ~v[a])
  <2>1. /\ Satisfies(v, {res, a}) <=> v[res] \/ v[a]
        /\ Satisfies(v, {-res, -a}) <=> ~v[res] \/ ~v[a]
    BY <1>1 DEF Satisfies
  <2> QED BY <2>1 DEF SatisfiesAll, encode_NEQ
<1>3. SatisfiesAll(v, encode_INE_res(res, a, b)) <=> (v[res] <=> ~(v[a] <=> v[b]))
  <2>1. /\ Satisfies(v, {a, b, -res}) <=> v[a] \/ v[b] \/ ~v[res]
        /\ Satisfies(v, {-a, -b, -res}) <=> ~v[a] \/ ~v[b] \/ ~v[res]
        /\ Satisfies(v, {a, -b, res}) <=> v[a] \/ ~v[b] \/ v[res]
        /\ Satisfies(v, {-a, b, res}) <=> ~v[a] \/ v[b] \/ v[res]
    BY <1>1 DEF Satisfies
  <2>2. SatisfiesAll(v, encode_INE_res(res, a, b))
          <=> /\ Satisfies(v, {a, b, -res}) /\ Satisfies(v, {-a, -b, -res})
              /\ Satisfies(v, {a, -b, res}) /\ Satisfies(v, {-a, b, res})
    BY DEF SatisfiesAll, encode_INE_res
  <2> QED BY <2>1, <2>2
<1>4. SatisfiesAll(v, encode_AND2_res(res, a, b)) <=> (v[res] <=> v[a] /\ v[b])
  <2>1. /\ Satisfies(v, {a, -res}) <=> v[a] \/ ~v[res]
        /\ Satisfies(v, {b, -res}) <=> v[b] \/ ~v[res]
        /\ Satisfies(v, {-a, -b, res}) <=> ~v[a] \/ ~v[b] \/ v[res]
    BY <1>1 DEF Satisfies
  <2>2. SatisfiesAll(v, encode_AND2_res(res, a, b))
          <=> Satisfies(v, {a, -res}) /\ Satisfies(v, {b, -res}) /\ Satisfies(v, {-a, -b, res})
    BY DEF SatisfiesAll, encode_AND2_res
  <2> QED BY <2>1, <2>2
<1>5. SatisfiesAll(v, encode_OR2_res(res, a, b)) <=> (v[res] <=> v[a] \/ v[b])
  <2>1. /\ Satisfies(v, {-a, res}) <=> ~v[a] \/ v[res]
        /\ Satisfies(v, {-b, res}) <=> ~v[b] \/ v[res]
        /\ Satisfies(v, {a, b, -res}) <=> v[a] \/ v[b] \/ ~v[res]
    BY <1>1 DEF Satisfies
  <2>2. SatisfiesAll(v, encode_OR2_res(res, a, b))
          <=> Satisfies(v, {-a, res}) /\ Satisfies(v, {-b, res}) /\ Satisfies(v, {a, b, -res})
    BY DEF SatisfiesAll, encode_OR2_res
  <2> QED BY <2>1, <2>2
<1>6. SatisfiesAll(v, encode_SEL_res(res, a, b, pred))
        <=> (v[res] <=> IF v[pred] THEN v[a] ELSE v[b])
  <2>1. /\ Satisfies(v, {-pred, a, -res}) <=> ~v[pred] \/ v[a] \/ ~v[res]
        /\ Satisfies(v, {-pred, -a, res}) <=> ~v[pred] \/ ~v[a] \/ v[res]
        /\ Satisfies(v, {pred, b, -res}) <=> v[pred] \/ v[b] \/ ~v[res]
        /\ Satisfies(v, {pred, -b, res}) <=> v[pred] \/ ~v[b] \/ v[res]
    BY <1>1 DEF Satisfies
  <2>2. SatisfiesAll(v, encode_SEL_res(res, a, b, pred))
          <=> /\ Satisfies(v, {-pred, a, -res}) /\ Satisfies(v, {-pred, -a, res})
              /\ Satisfies(v, {pred, b, -res}) /\ Satisfies(v, {pred, -b, res})
    BY DEF SatisfiesAll, encode_SEL_res
  <2>3. v[res] \in BOOLEAN /\ v[pred] \in BOOLEAN /\ v[a] \in BOOLEAN /\ v[b] \in BOOLEAN
    OBVIOUS
  <2> QED BY <2>1, <2>2, <2>3
<1> QED BY <1>2, <1>3, <1>4, <1>5, <1>6

LEMMA GatesMeaning ==
  ASSUME NEW m \in Nat, NEW v \in [1 .. m -> BOOLEAN]
  PROVE  /\ \A r0, a0 \in 1 .. m :
              SatisfiesAll(v, encode_NEQ(r0, a0)) <=> (v[r0] <=> ~v[a0])
         /\ \A r0, a0, b0 \in 1 .. m :
              SatisfiesAll(v, encode_INE_res(r0, a0, b0)) <=> (v[r0] <=> ~(v[a0] <=> v[b0]))
         /\ \A r0, a0, b0 \in 1 .. m :
              SatisfiesAll(v, encode_EQU_res(r0, a0, b0)) <=> (v[r0] <=> (v[a0] <=> v[b0]))
         /\ \A r0, a0, b0 \in 1 .. m :
              SatisfiesAll(v, encode_AND2_res(r0, a0, b0)) <=> (v[r0] <=> v[a0] /\ v[b0])
         /\ \A r0, a0, b0 \in 1 .. m :
              SatisfiesAll(v, encode_OR2_res(r0, a0, b0)) <=> (v[r0] <=> v[a0] \/ v[b0])
         /\ \A r0, a0, b0, c0 \in 1 .. m :
              SatisfiesAll(v, encode_SEL_res(r0, a0, b0, c0)) <=> (v[r0] <=> IF v[c0] THEN v[a0] ELSE v[b0])
<1>1. ASSUME NEW r0 \in 1 .. m, NEW a0 \in 1 .. m
      PROVE  SatisfiesAll(v, encode_NEQ(r0, a0)) <=> (v[r0] <=> ~v[a0])
  BY GateMeaning
<1>2. ASSUME NEW r0 \in 1 .. m, NEW a0 \in 1 .. m, NEW b0 \in 1 .. m
      PROVE  SatisfiesAll(v, encode_INE_res(r0, a0, b0)) <=> (v[r0] <=> ~(v[a0] <=> v[b0]))
  BY GateMeaning
<1>3. ASSUME NEW r0 \in 1 .. m, NEW a0 \in 1 .. m, NEW b0 \in 1 .. m
      PROVE  SatisfiesAll(v, encode_EQU_res(r0, a0, b0)) <=> (v[r0] <=> (v[a0] <=> v[b0]))
  BY EquResMeaning
<1>4. ASSUME NEW r0 \in 1 .. m, NEW a0 \in 1 .. m, NEW b0 \in 1 .. m
      PROVE  SatisfiesAll(v, encode_AND2_res(r0, a0, b0)) <=> (v[r0] <=> v[a0] /\ v[b0])
  BY GateMeaning
<1>5. ASSUME NEW r0 \in 1 .. m, NEW a0 \in 1 .. m, NEW b0 \in 1 .. m
      PROVE  SatisfiesAll(v, encode_OR2_res(r0, a0, b0)) <=> (v[r0] <=> v[a0] \/ v[b0])
  BY GateMeaning
<1>6. ASSUME NEW r0 \in 1 .. m, NEW a0 \in 1 .. m, NEW b0 \in 1 .. m, NEW c0 \in 1 .. m
      PROVE  SatisfiesAll(v, encode_SEL_res(r0, a0, b0, c0)) <=> (v[r0] <=> IF v[c0] THEN v[a0] ELSE v[b0])
  BY GateMeaning
<1> QED BY <1>1, <1>2, <1>3, <1>4, <1>5, <1>6

\* The reductions, besides RedAndMeaning.
LEMMA RedMeaning ==
  ASSUME NEW n \in Nat, NEW v \in [1 .. n -> BOOLEAN],
         NEW res \in 1 .. n, NEW bits \in Seq(1 .. n)
  PROVE  /\ SatisfiesAll(v, encode_Red_NAND(res, bits))
              <=> (v[res] <=> \E i \in DOMAIN bits : ~v[bits[i]])
         /\ SatisfiesAll(v, encode_Red_OR(res, bits))
              <=> (v[res] <=> \E i \in DOMAIN bits : v[bits[i]])
         /\ SatisfiesAll(v, encode_Red_NOR(res, bits))
              <=> (v[res] <=> \A i \in DOMAIN bits : ~v[bits[i]])
<1>1. \A i \in DOMAIN bits : bits[i] \in 1 .. n
  OBVIOUS
<1>2. (True(v, res) <=> v[res]) /\ (True(v, -res) <=> ~v[res])
  BY DEF True
<1>3. \A i \in DOMAIN bits : (True(v, bits[i]) <=> v[bits[i]]) /\ (True(v, -bits[i]) <=> ~v[bits[i]])
  BY <1>1 DEF True
<1>4. SatisfiesAll(v, encode_Red_NAND(res, bits))
        <=> (v[res] <=> \E i \in DOMAIN bits : ~v[bits[i]])
  <2> DEFINE all == Negated(bits) \cup {-res}
             one(i) == {bits[i], res}
  <2>1. encode_Red_NAND(res, bits) = {all} \cup {one(i) : i \in DOMAIN bits}
    BY DEF encode_Red_NAND, Literals
  <2>2. Satisfies(v, all) <=> ~v[res] \/ \E i \in DOMAIN bits : ~v[bits[i]]
    BY <1>2, <1>3 DEF Satisfies, Negated
  <2>3. \A i \in DOMAIN bits : Satisfies(v, one(i)) <=> v[bits[i]] \/ v[res]
    BY <1>2, <1>3 DEF Satisfies
  <2> HIDE DEF all, one
  <2> QED BY <2>1, <2>2, <2>3 DEF SatisfiesAll
<1>5. SatisfiesAll(v, encode_Red_OR(res, bits))
        <=> (v[res] <=> \E i \in DOMAIN bits : v[bits[i]])
  <2> DEFINE all == Literals(bits) \cup {-res}
             one(i) == {-bits[i], res}
  <2>1. encode_Red_OR(res, bits) = {all} \cup {one(i) : i \in DOMAIN bits}
    BY DEF encode_Red_OR, Negated
  <2>2. Satisfies(v, all) <=> ~v[res] \/ \E i \in DOMAIN bits : v[bits[i]]
    BY <1>2, <1>3, SMTT(60) DEF Satisfies, Literals
  <2>3. \A i \in DOMAIN bits : Satisfies(v, one(i)) <=> ~v[bits[i]] \/ v[res]
    BY <1>2, <1>3 DEF Satisfies
  <2> HIDE DEF all, one
  <2> QED BY <2>1, <2>2, <2>3 DEF SatisfiesAll
<1>6. SatisfiesAll(v, encode_Red_NOR(res, bits))
        <=> (v[res] <=> \A i \in DOMAIN bits : ~v[bits[i]])
  <2> DEFINE all == Literals(bits) \cup {res}
             one(i) == {-bits[i], -res}
  <2>1. encode_Red_NOR(res, bits) = {all} \cup {one(i) : i \in DOMAIN bits}
    BY DEF encode_Red_NOR, Negated
  <2>2. Satisfies(v, all) <=> v[res] \/ \E i \in DOMAIN bits : v[bits[i]]
    BY <1>2, <1>3, SMTT(60) DEF Satisfies, Literals
  <2>3. \A i \in DOMAIN bits : Satisfies(v, one(i)) <=> ~v[bits[i]] \/ ~v[res]
    BY <1>2, <1>3 DEF Satisfies
  <2> HIDE DEF all, one
  <2> QED BY <2>1, <2>2, <2>3 DEF SatisfiesAll
<1> QED BY <1>4, <1>5, <1>6

(***************************************************************************)
(* One bit of the comparison, and of the adder.                            *)
(***************************************************************************)
LEMMA LessBitMeaning ==
  ASSUME NEW n \in Nat, NEW v \in [1 .. n -> BOOLEAN],
         NEW res \in 1 .. n, NEW a \in 1 .. n, NEW b \in 1 .. n, NEW rest \in 1 .. n
  PROVE  SatisfiesAll(v, LessBit(res, a, b, rest))
           <=> (v[res] <=> (~v[a] /\ v[b]) \/ ((v[a] <=> v[b]) /\ v[rest]))
<1>1. \A x \in {res, a, b, rest} : (True(v, x) <=> v[x]) /\ (True(v, -x) <=> ~v[x])
  BY DEF True
<1>2. /\ Satisfies(v, {a, b, rest, -res}) <=> v[a] \/ v[b] \/ v[rest] \/ ~v[res]
      /\ Satisfies(v, {a, b, -rest, res}) <=> v[a] \/ v[b] \/ ~v[rest] \/ v[res]
      /\ Satisfies(v, {a, -b, res}) <=> v[a] \/ ~v[b] \/ v[res]
      /\ Satisfies(v, {-a, b, -res}) <=> ~v[a] \/ v[b] \/ ~v[res]
      /\ Satisfies(v, {-a, -b, rest, -res}) <=> ~v[a] \/ ~v[b] \/ v[rest] \/ ~v[res]
      /\ Satisfies(v, {-a, -b, -rest, res}) <=> ~v[a] \/ ~v[b] \/ ~v[rest] \/ v[res]
  BY <1>1 DEF Satisfies
<1>3. SatisfiesAll(v, LessBit(res, a, b, rest))
        <=> /\ Satisfies(v, {a, b, rest, -res}) /\ Satisfies(v, {a, b, -rest, res})
            /\ Satisfies(v, {a, -b, res}) /\ Satisfies(v, {-a, b, -res})
            /\ Satisfies(v, {-a, -b, rest, -res}) /\ Satisfies(v, {-a, -b, -rest, res})
  BY DEF SatisfiesAll, LessBit
<1> QED BY <1>2, <1>3

LEMMA GreaterIsLess ==
  ASSUME NEW index, NEW a, NEW b, DOMAIN a = DOMAIN b, Len(a) = Len(b)
  PROVE  Greater(index, a, b) = Less(index, b, a)
<1>1. ASSUME NEW res, NEW x, NEW y, NEW rest
      PROVE  GreaterBit(res, x, y, rest) = LessBit(res, y, x, rest)
  <2>1. /\ {x, y, rest, -res} = {y, x, rest, -res} /\ {x, y, -rest, res} = {y, x, -rest, res}
        /\ {x, -y, -res} = {-y, x, -res} /\ {-x, y, res} = {y, -x, res}
        /\ {-x, -y, rest, -res} = {-y, -x, rest, -res}
        /\ {-x, -y, -rest, res} = {-y, -x, -rest, res}
    OBVIOUS
  <2> QED BY <2>1, Zenon DEF GreaterBit, LessBit
<1> DEFINE G(i) == GreaterBit(index + i - 1, a[i], b[i], After(index, i, Len(a)))
           L(i) == LessBit(index + i - 1, b[i], a[i], After(index, i, Len(b)))
<1>2. \A i \in DOMAIN a : G(i) = L(i)
  BY <1>1
<1>3. Greater(index, a, b) = UNION {G(i) : i \in DOMAIN a} /\ Less(index, b, a) = UNION {L(i) : i \in DOMAIN a}
  BY DEF Greater, Less
<1> HIDE DEF G, L
<1> QED BY <1>2, <1>3

LEMMA AddBitMeaning ==
  ASSUME NEW n \in Nat, NEW v \in [1 .. n -> BOOLEAN],
         NEW a \in 1 .. n, NEW b \in 1 .. n, NEW carry \in 1 .. n,
         NEW cryidx \in 1 .. n, NEW residx \in 1 .. n
  PROVE  SatisfiesAll(v, encode_ADD_1bit(a, b, carry, cryidx, residx))
           <=> FullAdder(v[a], v[b], v[carry], v[cryidx], v[residx])
<1> DEFINE D == {0, 1}
           C(x, y, z) == IF x + y + z >= 2 THEN cryidx ELSE -cryidx
           R(x, y, z) == IF (x + y + z) % 2 = 1 THEN residx ELSE -residx
           Is(x, y, z) == Bit(v[a]) = x /\ Bit(v[b]) = y /\ Bit(v[carry]) = z
<1>1. \A t \in {a, b, carry, cryidx, residx} :
        (True(v, t) <=> v[t]) /\ (True(v, -t) <=> ~v[t]) /\ v[t] \in BOOLEAN
  BY DEF True
<1>2. \A t \in {a, b, carry, cryidx, residx} : Bit(v[t]) \in D /\ (Bit(v[t]) = 1 <=> v[t])
  BY <1>1, BitFacts
<1>3. \A t \in {a, b, carry} : \A x \in D : True(v, IF x = 1 THEN -t ELSE t) <=> Bit(v[t]) # x
  BY <1>1, <1>2
<1>4. ASSUME NEW x \in D, NEW y \in D, NEW z \in D, NEW t
      PROVE  Satisfies(v, Row(a, b, carry, x, y, z, t)) <=> (Is(x, y, z) => True(v, t))
  BY <1>3 DEF Satisfies, Row
<1>5. SatisfiesAll(v, encode_ADD_1bit(a, b, carry, cryidx, residx))
        <=> \A x \in D, y \in D, z \in D :
              /\ Satisfies(v, Row(a, b, carry, x, y, z, C(x, y, z)))
              /\ Satisfies(v, Row(a, b, carry, x, y, z, R(x, y, z)))
  <2> DEFINE cry(x, y, z) == Row(a, b, carry, x, y, z, C(x, y, z))
             sum(x, y, z) == Row(a, b, carry, x, y, z, R(x, y, z))
  <2>1. encode_ADD_1bit(a, b, carry, cryidx, residx)
          = UNION {{cry(x, y, z), sum(x, y, z)} : x \in D, y \in D, z \in D}
    BY DEF encode_ADD_1bit
  <2> HIDE DEF cry, sum, D
  <2>2. SatisfiesAll(v, encode_ADD_1bit(a, b, carry, cryidx, residx))
          <=> \A x \in D, y \in D, z \in D :
                Satisfies(v, cry(x, y, z)) /\ Satisfies(v, sum(x, y, z))
    <3>1. ASSUME SatisfiesAll(v, encode_ADD_1bit(a, b, carry, cryidx, residx)),
                 NEW x \in D, NEW y \in D, NEW z \in D
          PROVE  Satisfies(v, cry(x, y, z)) /\ Satisfies(v, sum(x, y, z))
      <4>1. cry(x, y, z) \in encode_ADD_1bit(a, b, carry, cryidx, residx)
            /\ sum(x, y, z) \in encode_ADD_1bit(a, b, carry, cryidx, residx)
        <5> DEFINE both(i, j, k) == {cry(i, j, k), sum(i, j, k)}
                   all == {both(i, j, k) : i \in D, j \in D, k \in D}
        <5>1. encode_ADD_1bit(a, b, carry, cryidx, residx) = UNION all
          BY <2>1
        <5>2. cry(x, y, z) \in both(x, y, z) /\ sum(x, y, z) \in both(x, y, z)
          OBVIOUS
        <5> HIDE DEF both
        <5>3. both(x, y, z) \in all
          OBVIOUS
        <5> HIDE DEF all
        <5> QED BY <5>1, <5>2, <5>3
      <4> QED BY <3>1, <4>1 DEF SatisfiesAll
    <3>2. ASSUME \A x \in D, y \in D, z \in D :
                   Satisfies(v, cry(x, y, z)) /\ Satisfies(v, sum(x, y, z)),
                 NEW c \in encode_ADD_1bit(a, b, carry, cryidx, residx)
          PROVE  Satisfies(v, c)
      <4>1. \E x \in D, y \in D, z \in D : c = cry(x, y, z) \/ c = sum(x, y, z)
        BY <2>1
      <4> QED BY <3>2, <4>1
    <3> QED BY <3>1, <3>2 DEF SatisfiesAll
  <2> QED BY <2>2 DEF cry, sum
<1>6. SatisfiesAll(v, encode_ADD_1bit(a, b, carry, cryidx, residx))
        <=> \A x \in D, y \in D, z \in D :
              Is(x, y, z) => True(v, C(x, y, z)) /\ True(v, R(x, y, z))
  <2> HIDE DEF D, C, R, Is
  <2> QED BY <1>4, <1>5
<1> DEFINE x0 == Bit(v[a])
           y0 == Bit(v[b])
           z0 == Bit(v[carry])
<1>7. x0 \in D /\ y0 \in D /\ z0 \in D
  BY <1>2
<1>8. SatisfiesAll(v, encode_ADD_1bit(a, b, carry, cryidx, residx))
        <=> True(v, C(x0, y0, z0)) /\ True(v, R(x0, y0, z0))
  BY <1>6, <1>7
<1> HIDE DEF x0, y0, z0
<1>9. /\ True(v, C(x0, y0, z0)) <=> (Bit(v[cryidx]) = 1 <=> x0 + y0 + z0 >= 2)
      /\ True(v, R(x0, y0, z0)) <=> (Bit(v[residx]) = 1 <=> (x0 + y0 + z0) % 2 = 1)
  BY <1>1, <1>2, <1>7
<1> DEFINE c0 == Bit(v[cryidx])
           r0 == Bit(v[residx])
<1>10. c0 \in D /\ r0 \in D
  BY <1>2
<1> HIDE DEF c0, r0
<1>11. (c0 = 1 <=> x0 + y0 + z0 >= 2) /\ (r0 = 1 <=> (x0 + y0 + z0) % 2 = 1)
         <=> 2 * c0 + r0 = x0 + y0 + z0
  <2>1. 0 % 2 = 0 /\ 1 % 2 = 1 /\ 2 % 2 = 0 /\ 3 % 2 = 1
    OBVIOUS
  <2>2. x0 + y0 + z0 \in {0, 1, 2, 3}
    BY <1>7
  <2> QED BY <1>10, <2>1, <2>2
<1> QED BY <1>8, <1>9, <1>11 DEF x0, y0, z0, c0, r0, FullAdder

-----------------------------------------------------------------------------
\* What a valuation says of a vector of variables.
Valued(v, s) == [i \in DOMAIN s |-> v[s[i]]]

LEMMA ValuedFacts ==
  ASSUME NEW n \in Nat, NEW v \in [1 .. n -> BOOLEAN], NEW s \in Seq(1 .. n),
         NEW w \in Nat, Len(s) = w
  PROVE  /\ Valued(v, s) \in Seq(BOOLEAN)
         /\ Len(Valued(v, s)) = w
         /\ Valued(v, s) \in [1 .. w -> BOOLEAN]
         /\ \A i \in 1 .. w : s[i] \in 1 .. n /\ Valued(v, s)[i] = v[s[i]]
<1>1. DOMAIN s = 1 .. Len(s) /\ Len(s) \in Nat /\ \A i \in 1 .. Len(s) : s[i] \in 1 .. n
  OBVIOUS
<1>2. Valued(v, s) \in [1 .. Len(s) -> BOOLEAN]
  BY <1>1 DEF Valued
<1>3. Valued(v, s) = [i \in 1 .. Len(s) |-> v[s[i]]]
  BY <1>1 DEF Valued
<1> DEFINE t == Valued(v, s)
<1>4. w \in Nat /\ t \in [1 .. w -> BOOLEAN]
  BY <1>1, <1>2
<1> HIDE DEF t
<1>5. t \in Seq(BOOLEAN) /\ Len(t) = w
  BY <1>4
<1>6. \A i \in 1 .. w : s[i] \in 1 .. n /\ Valued(v, s)[i] = v[s[i]]
  BY <1>1, <1>3
<1> QED BY <1>4, <1>5, <1>6 DEF t

LEMMA ValuedVectors ==
  ASSUME NEW n \in Nat, NEW v \in [1 .. n -> BOOLEAN]
  PROVE  \A s \in Seq(1 .. n) : \A w \in Nat : Len(s) = w =>
           /\ Valued(v, s) \in Seq(BOOLEAN) /\ Len(Valued(v, s)) = w
           /\ Valued(v, s) \in [1 .. w -> BOOLEAN]
           /\ \A i \in 1 .. w : s[i] \in 1 .. n /\ Valued(v, s)[i] = v[s[i]]
<1> SUFFICES ASSUME NEW s \in Seq(1 .. n), NEW w \in Nat, Len(s) = w
             PROVE  /\ Valued(v, s) \in Seq(BOOLEAN) /\ Len(Valued(v, s)) = w
                    /\ Valued(v, s) \in [1 .. w -> BOOLEAN]
                    /\ \A i \in 1 .. w : s[i] \in 1 .. n /\ Valued(v, s)[i] = v[s[i]]
  OBVIOUS
<1> QED BY ValuedFacts

LEMMA FreshFacts ==
  ASSUME NEW n \in Nat, NEW index \in Nat \ {0}, NEW w \in Nat, index + w - 1 <= n
  PROVE  /\ Fresh(index, w) \in Seq(1 .. n)
         /\ Len(Fresh(index, w)) = w
         /\ DOMAIN Fresh(index, w) = 1 .. w
         /\ \A i \in 1 .. w : /\ Fresh(index, w)[i] = index + i - 1
                              /\ index + i - 1 \in 1 .. n
                              /\ index + (i - 1) = index + i - 1
BY DEF Fresh

\* The clauses of a family of gates.
LEMMA AllGates ==
  ASSUME NEW v, NEW w, NEW gates
  PROVE  SatisfiesAll(v, UNION {gates[i] : i \in 1 .. w}) <=> \A i \in 1 .. w : SatisfiesAll(v, gates[i])
BY DEF SatisfiesAll

LEMMA AfterFacts ==
  ASSUME NEW n \in Nat, falsepred <= n, NEW index \in Nat \ {0}, NEW w \in Nat,
         index + w - 1 <= n, NEW i \in 1 .. w
  PROVE  /\ After(index, i, w) \in 1 .. n
         /\ i = w => After(index, i, w) = falsepred
         /\ i # w => After(index, i, w) = index + (i + 1) - 1 /\ i + 1 \in 1 .. w
BY DEF After, falsepred

(***************************************************************************)
(* The chains of comparisons and of full adders, bit by bit.               *)
(***************************************************************************)
LessBits(v, w, a, b, index) ==
  \A i \in 1 .. w :
    v[index + i - 1] <=> (~v[a[i]] /\ v[b[i]])
                           \/ ((v[a[i]] <=> v[b[i]]) /\ v[After(index, i, w)])

LEMMA LessMeaning ==
  ASSUME NEW n \in Nat, falsepred <= n, NEW v \in [1 .. n -> BOOLEAN], NEW w \in Nat,
         NEW a \in Seq(1 .. n), NEW b \in Seq(1 .. n), Len(a) = w, Len(b) = w,
         NEW index \in Nat \ {0}, index + w - 1 <= n
  PROVE  SatisfiesAll(v, Less(index, a, b)) <=> LessBits(v, w, a, b, index)
<1>1. DOMAIN a = 1 .. w /\ DOMAIN b = 1 .. w
  OBVIOUS
<1>2. \A i \in 1 .. w : a[i] \in 1 .. n /\ b[i] \in 1 .. n
  BY <1>1
<1>3. \A i \in 1 .. w : index + i - 1 \in 1 .. n /\ After(index, i, w) \in 1 .. n
  BY FreshFacts, AfterFacts
<1> DEFINE x(i) == index + i - 1
           y(i) == a[i]
           z(i) == b[i]
           t(i) == After(index, i, w)
           gates == [i \in 1 .. w |-> LessBit(x(i), y(i), z(i), t(i))]
<1>4. \A i \in 1 .. w : x(i) \in 1 .. n /\ y(i) \in 1 .. n /\ z(i) \in 1 .. n /\ t(i) \in 1 .. n
  BY <1>2, <1>3
<1>5. Less(index, a, b) = UNION {LessBit(x(i), y(i), z(i), t(i)) : i \in 1 .. w}
  BY <1>1 DEF Less
<1> HIDE DEF x, y, z, t
<1>6. \A i \in 1 .. w :
        SatisfiesAll(v, LessBit(x(i), y(i), z(i), t(i)))
          <=> (v[x(i)] <=> (~v[y(i)] /\ v[z(i)]) \/ ((v[y(i)] <=> v[z(i)]) /\ v[t(i)]))
  <2>1. \A x0, y0, z0, t0 \in 1 .. n :
          SatisfiesAll(v, LessBit(x0, y0, z0, t0))
            <=> (v[x0] <=> (~v[y0] /\ v[z0]) \/ ((v[y0] <=> v[z0]) /\ v[t0]))
    BY LessBitMeaning
  <2> QED BY <1>4, <2>1
<1>7. SatisfiesAll(v, Less(index, a, b))
         <=> \A i \in 1 .. w : SatisfiesAll(v, LessBit(x(i), y(i), z(i), t(i)))
  <2>1. Less(index, a, b) = UNION {gates[i] : i \in 1 .. w}
    BY <1>5
  <2>2. \A i \in 1 .. w : gates[i] = LessBit(x(i), y(i), z(i), t(i))
    OBVIOUS
  <2> HIDE DEF gates
  <2>3. SatisfiesAll(v, UNION {gates[i] : i \in 1 .. w}) <=> \A i \in 1 .. w : SatisfiesAll(v, gates[i])
    BY AllGates
  <2> QED BY <2>1, <2>2, <2>3
<1> QED BY <1>6, <1>7 DEF x, y, z, t, LessBits

LEMMA AddMeaning ==
  ASSUME NEW n \in Nat, falsepred <= n, NEW v \in [1 .. n -> BOOLEAN], NEW w \in Nat,
         NEW a \in Seq(1 .. n), NEW b \in Seq(1 .. n), Len(a) = w, Len(b) = w,
         NEW index \in Nat \ {0}, index + w + w - 1 <= n
  PROVE  SatisfiesAll(v, encode_ADD(index, a, b))
           <=> \A i \in 1 .. w :
                 FullAdder(v[a[i]], v[b[i]], v[After(index + w, i, w)],
                           v[index + w + i - 1], v[index + i - 1])
<1>1. DOMAIN a = 1 .. w /\ DOMAIN b = 1 .. w
  OBVIOUS
<1>2. \A i \in 1 .. w : a[i] \in 1 .. n /\ b[i] \in 1 .. n
  BY <1>1
<1>3. \A i \in 1 .. w : index + i - 1 \in 1 .. n /\ index + w + i - 1 \in 1 .. n
  OBVIOUS
<1>4. \A i \in 1 .. w : After(index + w, i, w) \in 1 .. n
  BY DEF After, falsepred
<1> DEFINE x(i) == index + i - 1
           c(i) == index + w + i - 1
           y(i) == a[i]
           z(i) == b[i]
           t(i) == After(index + w, i, w)
           gates == [i \in 1 .. w |-> encode_ADD_1bit(y(i), z(i), t(i), c(i), x(i))]
<1>5. \A i \in 1 .. w : /\ x(i) \in 1 .. n /\ c(i) \in 1 .. n
                        /\ y(i) \in 1 .. n /\ z(i) \in 1 .. n /\ t(i) \in 1 .. n
  BY <1>2, <1>3, <1>4
<1>6. encode_ADD(index, a, b) = UNION {encode_ADD_1bit(y(i), z(i), t(i), c(i), x(i)) : i \in 1 .. w}
  BY <1>1 DEF encode_ADD
<1> HIDE DEF x, c, y, z, t
<1>7. \A i \in 1 .. w : SatisfiesAll(v, encode_ADD_1bit(y(i), z(i), t(i), c(i), x(i)))
        <=> FullAdder(v[y(i)], v[z(i)], v[t(i)], v[c(i)], v[x(i)])
  <2>1. \A y0, z0, t0, c0, x0 \in 1 .. n :
          SatisfiesAll(v, encode_ADD_1bit(y0, z0, t0, c0, x0))
            <=> FullAdder(v[y0], v[z0], v[t0], v[c0], v[x0])
    BY AddBitMeaning
  <2> QED BY <1>5, <2>1
<1>8. SatisfiesAll(v, encode_ADD(index, a, b))
        <=> \A i \in 1 .. w : SatisfiesAll(v, encode_ADD_1bit(y(i), z(i), t(i), c(i), x(i)))
  <2>1. encode_ADD(index, a, b) = UNION {gates[i] : i \in 1 .. w}
    BY <1>6
  <2>2. \A i \in 1 .. w : gates[i] = encode_ADD_1bit(y(i), z(i), t(i), c(i), x(i))
    OBVIOUS
  <2> HIDE DEF gates
  <2>3. SatisfiesAll(v, UNION {gates[i] : i \in 1 .. w}) <=> \A i \in 1 .. w : SatisfiesAll(v, gates[i])
    BY AllGates
  <2> QED BY <2>1, <2>2, <2>3
<1> QED BY <1>7, <1>8 DEF x, c, y, z, t

\* A valuation of the variables 1..n and two vectors of w of them.
Pair(n, v, w, a, b) ==
  /\ n \in Nat /\ v \in [1 .. n -> BOOLEAN]
  /\ w \in Nat /\ a \in Seq(1 .. n) /\ b \in Seq(1 .. n) /\ Len(a) = w /\ Len(b) = w

\* The same, of operands: not empty, and falsepred is false.
Vectors(n, v, w, a, b) ==
  /\ n \in Nat /\ falsepred <= n /\ v \in [1 .. n -> BOOLEAN] /\ ~v[falsepred]
  /\ w \in Nat \ {0} /\ a \in Seq(1 .. n) /\ b \in Seq(1 .. n) /\ Len(a) = w /\ Len(b) = w

(***************************************************************************)
(* The comparisons of vectors, bit by bit.                                 *)
(***************************************************************************)
AllEqual(v, w, a, b, index) ==
  /\ \A i \in 1 .. w : v[index + i - 1] <=> (v[a[i]] <=> v[b[i]])
  /\ v[index + w] <=> \A i \in 1 .. w : v[index + i - 1]

SomeDiffer(v, w, a, b, index) ==
  /\ \A i \in 1 .. w : v[index + i - 1] <=> ~(v[a[i]] <=> v[b[i]])
  /\ v[index + w] <=> \E i \in 1 .. w : v[index + i - 1]

LEMMA EquvInevMeaning ==
  ASSUME NEW n, NEW v, NEW w, NEW a, NEW b, Pair(n, v, w, a, b),
         NEW index \in Nat \ {0}, index + w <= n
  PROVE  /\ SatisfiesAll(v, encode_EQUV_res(index, a, b)) <=> AllEqual(v, w, a, b, index)
         /\ SatisfiesAll(v, encode_INEV_res(index, a, b)) <=> SomeDiffer(v, w, a, b, index)
<1> USE DEF Pair
<1>1. DOMAIN a = 1 .. w /\ DOMAIN b = 1 .. w
  OBVIOUS
<1>2. \A i \in 1 .. w : a[i] \in 1 .. n /\ b[i] \in 1 .. n
  BY <1>1
<1> DEFINE bits == Fresh(index, w)
           res == index + w
<1>3. /\ bits \in Seq(1 .. n) /\ DOMAIN bits = 1 .. w
      /\ \A i \in 1 .. w : bits[i] = index + i - 1 /\ index + i - 1 \in 1 .. n
  BY DEF Fresh
<1>4. res \in 1 .. n
  OBVIOUS
<1> DEFINE x(i) == index + i - 1
           y(i) == a[i]
           z(i) == b[i]
           same == [i \in 1 .. w |-> encode_EQU_res(x(i), y(i), z(i))]
           other == [i \in 1 .. w |-> encode_INE_res(x(i), y(i), z(i))]
<1>5. \A i \in 1 .. w : x(i) \in 1 .. n /\ y(i) \in 1 .. n /\ z(i) \in 1 .. n
  BY <1>2, <1>3
<1>6. /\ encode_EQUV_res(index, a, b)
           = encode_Red_AND(res, bits) \cup UNION {encode_EQU_res(x(i), y(i), z(i)) : i \in 1 .. w}
      /\ encode_INEV_res(index, a, b)
           = encode_Red_OR(res, bits) \cup UNION {encode_INE_res(x(i), y(i), z(i)) : i \in 1 .. w}
  BY <1>1 DEF encode_EQUV_res, encode_INEV_res
<1>7. \A i \in 1 .. w : bits[i] = x(i)
  BY <1>3
<1> HIDE DEF x, y, z, bits, res
<1>8. \A i \in 1 .. w :
        /\ SatisfiesAll(v, encode_EQU_res(x(i), y(i), z(i))) <=> (v[x(i)] <=> (v[y(i)] <=> v[z(i)]))
        /\ SatisfiesAll(v, encode_INE_res(x(i), y(i), z(i))) <=> (v[x(i)] <=> ~(v[y(i)] <=> v[z(i)]))
  <2>1. \A x0, y0, z0 \in 1 .. n :
          /\ SatisfiesAll(v, encode_EQU_res(x0, y0, z0)) <=> (v[x0] <=> (v[y0] <=> v[z0]))
          /\ SatisfiesAll(v, encode_INE_res(x0, y0, z0)) <=> (v[x0] <=> ~(v[y0] <=> v[z0]))
    <3> SUFFICES ASSUME NEW x0 \in 1 .. n, NEW y0 \in 1 .. n, NEW z0 \in 1 .. n
                 PROVE  /\ SatisfiesAll(v, encode_EQU_res(x0, y0, z0)) <=> (v[x0] <=> (v[y0] <=> v[z0]))
                        /\ SatisfiesAll(v, encode_INE_res(x0, y0, z0)) <=> (v[x0] <=> ~(v[y0] <=> v[z0]))
      OBVIOUS
    <3>1. SatisfiesAll(v, encode_EQU_res(x0, y0, z0)) <=> (v[x0] <=> (v[y0] <=> v[z0]))
      BY EquResMeaning
    <3>2. SatisfiesAll(v, encode_INE_res(x0, y0, z0)) <=> (v[x0] <=> ~(v[y0] <=> v[z0]))
      BY GateMeaning
    <3> QED BY <3>1, <3>2
  <2> QED BY <1>5, <2>1
<1>9. /\ encode_EQUV_res(index, a, b) = encode_Red_AND(res, bits) \cup UNION {same[i] : i \in 1 .. w}
      /\ encode_INEV_res(index, a, b) = encode_Red_OR(res, bits) \cup UNION {other[i] : i \in 1 .. w}
      /\ \A i \in 1 .. w : /\ same[i] = encode_EQU_res(x(i), y(i), z(i))
                           /\ other[i] = encode_INE_res(x(i), y(i), z(i))
  BY <1>6
<1> HIDE DEF same, other
<1>10. /\ SatisfiesAll(v, UNION {same[i] : i \in 1 .. w}) <=> \A i \in 1 .. w : SatisfiesAll(v, same[i])
       /\ SatisfiesAll(v, UNION {other[i] : i \in 1 .. w}) <=> \A i \in 1 .. w : SatisfiesAll(v, other[i])
  BY AllGates
<1>11. /\ SatisfiesAll(v, encode_EQUV_res(index, a, b))
            <=> SatisfiesAll(v, encode_Red_AND(res, bits)) /\ \A i \in 1 .. w : SatisfiesAll(v, same[i])
       /\ SatisfiesAll(v, encode_INEV_res(index, a, b))
            <=> SatisfiesAll(v, encode_Red_OR(res, bits)) /\ \A i \in 1 .. w : SatisfiesAll(v, other[i])
  BY <1>9, <1>10 DEF SatisfiesAll
<1>12. /\ SatisfiesAll(v, encode_Red_AND(res, bits)) <=> (v[res] <=> \A i \in 1 .. w : v[x(i)])
       /\ SatisfiesAll(v, encode_Red_OR(res, bits)) <=> (v[res] <=> \E i \in 1 .. w : v[x(i)])
  <2>1. /\ SatisfiesAll(v, encode_Red_AND(res, bits)) <=> (v[res] <=> \A i \in DOMAIN bits : v[bits[i]])
        /\ SatisfiesAll(v, encode_Red_OR(res, bits)) <=> (v[res] <=> \E i \in DOMAIN bits : v[bits[i]])
    <3>1. SatisfiesAll(v, encode_Red_AND(res, bits)) <=> (v[res] <=> \A i \in DOMAIN bits : v[bits[i]])
      BY <1>3, <1>4, RedAndMeaning
    <3>2. SatisfiesAll(v, encode_Red_OR(res, bits)) <=> (v[res] <=> \E i \in DOMAIN bits : v[bits[i]])
      BY <1>3, <1>4, RedMeaning
    <3> QED BY <3>1, <3>2
  <2>2. \A i \in DOMAIN bits : v[bits[i]] = v[x(i)] /\ i \in 1 .. w
    BY <1>3, <1>7
  <2>3. DOMAIN bits = 1 .. w
    BY <1>3
  <2> QED BY <2>1, <2>2, <2>3
<1>13. /\ SatisfiesAll(v, encode_EQUV_res(index, a, b))
            <=> /\ \A i \in 1 .. w : v[x(i)] <=> (v[y(i)] <=> v[z(i)])
                /\ v[res] <=> \A i \in 1 .. w : v[x(i)]
       /\ SatisfiesAll(v, encode_INEV_res(index, a, b))
            <=> /\ \A i \in 1 .. w : v[x(i)] <=> ~(v[y(i)] <=> v[z(i)])
                /\ v[res] <=> \E i \in 1 .. w : v[x(i)]
  BY <1>8, <1>9, <1>11, <1>12, ZenonT(60)
<1> QED BY <1>13 DEF x, y, z, res, AllEqual, SomeDiffer

\* What a comparison and an adder say of the numbers.
LEMMA LessNumber ==
  ASSUME NEW n, NEW v, NEW w, NEW a, NEW b, Vectors(n, v, w, a, b),
         NEW index \in Nat \ {0}, index + w - 1 <= n,
         SatisfiesAll(v, Less(index, a, b))
  PROVE  v[index] <=> Number(Valued(v, a)) < Number(Valued(v, b))
<1>0. \A i \in 1 .. w :
        v[index + i - 1] <=> (~v[a[i]] /\ v[b[i]])
                               \/ ((v[a[i]] <=> v[b[i]]) /\ v[After(index, i, w)])
  <2>1. /\ n \in Nat /\ falsepred <= n /\ v \in [1 .. n -> BOOLEAN] /\ w \in Nat
        /\ a \in Seq(1 .. n) /\ b \in Seq(1 .. n) /\ Len(a) = w /\ Len(b) = w
        /\ index \in Nat \ {0} /\ index + w - 1 <= n
    BY DEF Vectors
  <2>2. SatisfiesAll(v, Less(index, a, b)) <=> LessBits(v, w, a, b, index)
    BY <2>1, LessMeaning
  <2> QED BY <2>2 DEF LessBits
<1> USE DEF Vectors
<1> DEFINE x == Valued(v, a)
           y == Valued(v, b)
           less == [i \in 1 .. w + 1 |-> IF i = w + 1 THEN FALSE ELSE v[index + i - 1]]
<1>1. /\ x \in Seq(BOOLEAN) /\ Len(x) = w /\ \A i \in 1 .. w : x[i] = v[a[i]]
      /\ y \in Seq(BOOLEAN) /\ Len(y) = w /\ \A i \in 1 .. w : y[i] = v[b[i]]
  <2>1. x \in Seq(BOOLEAN) /\ Len(x) = w /\ \A i \in 1 .. w : x[i] = v[a[i]]
    BY ValuedFacts, SMTT(30)
  <2>2. y \in Seq(BOOLEAN) /\ Len(y) = w /\ \A i \in 1 .. w : y[i] = v[b[i]]
    BY ValuedFacts, SMTT(30)
  <2> QED BY <2>1, <2>2
<1>2. \A i \in 1 .. w : index + i - 1 \in 1 .. n
  OBVIOUS
<1>3. /\ less \in [1 .. w + 1 -> BOOLEAN] /\ ~less[w + 1]
      /\ \A i \in 1 .. w : less[i] = v[index + i - 1]
  <2>1. \A i \in 1 .. w : v[index + i - 1] \in BOOLEAN /\ i \in 1 .. w + 1 /\ i # w + 1
    BY <1>2
  <2>2. w + 1 \in 1 .. w + 1 /\ \A i \in 1 .. w + 1 : i = w + 1 \/ i \in 1 .. w
    OBVIOUS
  <2>3. \A i \in 1 .. w + 1 : (IF i = w + 1 THEN FALSE ELSE v[index + i - 1]) \in BOOLEAN
    BY <2>1, <2>2
  <2> QED BY <2>1, <2>2, <2>3
<1> HIDE DEF x, y, less
<1>4. ASSUME NEW i \in 1 .. w PROVE v[After(index, i, w)] = less[i + 1]
  <2>1. CASE i = w
    <3>1. v[falsepred] \in BOOLEAN
      BY DEF falsepred
    <3>2. less[i + 1] = FALSE
      BY <1>3, <2>1
    <3>3. After(index, i, w) = falsepred
      BY <2>1, AfterFacts
    <3> QED BY <3>1, <3>2, <3>3
  <2>2. CASE i # w
    <3>1. After(index, i, w) = index + (i + 1) - 1 /\ i + 1 \in 1 .. w
      BY <2>2, AfterFacts
    <3> QED BY <1>3, <3>1
  <2> QED BY <2>1, <2>2
<1>5. ASSUME NEW i \in 1 .. w
      PROVE  less[i] <=> (~x[i] /\ y[i]) \/ ((x[i] <=> y[i]) /\ less[i + 1])
  <2>1. v[index + i - 1] <=> (~v[a[i]] /\ v[b[i]])
                               \/ ((v[a[i]] <=> v[b[i]]) /\ v[After(index, i, w)])
    BY <1>0
  <2>2. less[i] = v[index + i - 1] /\ x[i] = v[a[i]] /\ y[i] = v[b[i]]
    BY <1>1, <1>3
  <2> QED BY <1>4, <2>1, <2>2
<1>6. less[1] <=> Number(x) < Number(y)
  BY <1>1, <1>3, <1>5, LessChain
<1>7. less[1] = v[index]
  BY <1>3
<1> QED BY <1>6, <1>7 DEF x, y

LEMMA AddNumber ==
  ASSUME NEW n, NEW v, NEW w, NEW a, NEW b, Vectors(n, v, w, a, b),
         NEW index \in Nat \ {0}, index + w + w - 1 <= n,
         SatisfiesAll(v, encode_ADD(index, a, b))
  PROVE  Valued(v, Fresh(index, w)) = Sum(Valued(v, a), Valued(v, b))
<1> USE DEF Vectors
<1> DEFINE x == Valued(v, a)
           y == Valued(v, b)
           z == Valued(v, Fresh(index, w))
           cry == index + w
           carry == [i \in 1 .. w + 1 |-> IF i = w + 1 THEN FALSE ELSE v[cry + i - 1]]
<1>0. \A s \in Seq(1 .. n) : Len(s) = w =>
        Valued(v, s) \in Seq(BOOLEAN) /\ Len(Valued(v, s)) = w
          /\ \A i \in 1 .. w : Valued(v, s)[i] = v[s[i]]
  BY ValuedVectors, SMTT(30)
<1>1. /\ x \in Seq(BOOLEAN) /\ Len(x) = w /\ \A i \in 1 .. w : x[i] = v[a[i]]
      /\ y \in Seq(BOOLEAN) /\ Len(y) = w /\ \A i \in 1 .. w : y[i] = v[b[i]]
  BY <1>0, Zenon
<1>2. z \in Seq(BOOLEAN) /\ Len(z) = w /\ \A i \in 1 .. w : z[i] = v[index + i - 1]
  <2> DEFINE s == Fresh(index, w)
  <2>1. s \in Seq(1 .. n) /\ Len(s) = w /\ \A i \in 1 .. w : s[i] = index + i - 1
    BY FreshFacts
  <2> HIDE DEF s
  <2>2. /\ Valued(v, s) \in Seq(BOOLEAN) /\ Len(Valued(v, s)) = w
        /\ \A i \in 1 .. w : Valued(v, s)[i] = v[s[i]]
    BY <1>0, <2>1
  <2> QED BY <2>1, <2>2 DEF s
<1>3. cry \in Nat \ {0} /\ cry + w - 1 <= n /\ \A i \in 1 .. w : cry + i - 1 \in 1 .. n
  OBVIOUS
<1> HIDE DEF x, y, z, cry
<1>4. /\ carry \in [1 .. w + 1 -> BOOLEAN] /\ ~carry[w + 1]
      /\ \A i \in 1 .. w : carry[i] = v[cry + i - 1]
  <2>1. \A i \in 1 .. w : v[cry + i - 1] \in BOOLEAN /\ i \in 1 .. w + 1 /\ i # w + 1
    BY <1>3
  <2>2. w + 1 \in 1 .. w + 1 /\ \A i \in 1 .. w + 1 : i = w + 1 \/ i \in 1 .. w
    OBVIOUS
  <2>3. \A i \in 1 .. w + 1 : (IF i = w + 1 THEN FALSE ELSE v[cry + i - 1]) \in BOOLEAN
    BY <2>1, <2>2
  <2> QED BY <2>1, <2>2, <2>3
<1> HIDE DEF carry
<1>5. ASSUME NEW i \in 1 .. w PROVE v[After(cry, i, w)] = carry[i + 1]
  <2>1. CASE i = w
    <3>1. v[falsepred] \in BOOLEAN
      BY DEF falsepred
    <3>2. carry[i + 1] = FALSE
      BY <1>4, <2>1
    <3>3. After(cry, i, w) = falsepred
      BY <1>3, <2>1, AfterFacts
    <3> QED BY <3>1, <3>2, <3>3
  <2>2. CASE i # w
    <3>1. After(cry, i, w) = cry + (i + 1) - 1 /\ i + 1 \in 1 .. w
      BY <1>3, <2>2, AfterFacts
    <3> QED BY <1>4, <3>1
  <2> QED BY <2>1, <2>2
<1>6. ASSUME NEW i \in 1 .. w PROVE FullAdder(x[i], y[i], carry[i + 1], carry[i], z[i])
  <2>1. FullAdder(v[a[i]], v[b[i]], v[After(cry, i, w)], v[cry + i - 1], v[index + i - 1])
    BY AddMeaning DEF cry
  <2>2. /\ carry[i] = v[cry + i - 1] /\ z[i] = v[index + i - 1]
        /\ x[i] = v[a[i]] /\ y[i] = v[b[i]]
    BY <1>1, <1>2, <1>4
  <2> QED BY <1>5, <2>1, <2>2
<1>7. Number(<<carry[1]>> \o z) = Number(x) + Number(y)
  <2>1. Adders(w, x, y, carry, z)
    BY <1>1, <1>2, <1>4, <1>6 DEF Adders
  <2> QED BY <2>1, SumChain
<1> DEFINE c == carry[1]
<1>8. c \in BOOLEAN /\ Number(<<c>> \o z) = Number(x) + Number(y)
  BY <1>4, <1>7
<1> HIDE DEF c
<1>9. z = Sum(x, y)
  BY <1>1, <1>2, <1>8, SumIs
<1> QED BY <1>9 DEF x, y, z

-----------------------------------------------------------------------------
(***************************************************************************)
(* The operators.  What encode_exp asserts of their operands, and what the *)
(* definitions are for each of them.                                       *)
(***************************************************************************)
Bitwise == {"bitneg", "bit_and2", "bit_or2", "bit_xor2", "bit_equ", "selection"}
OneBit == {"logicneg", "logic_and2", "logic_or2"}
Chained == {"add2", "lt", "gt", "logic_equ", "logic_ine"}

Arity(op) == IF op = "selection" THEN 3 ELSE IF op \in {"logicneg", "bitneg"} THEN 1 ELSE 2

\* Operands over the variables 1..n, as many as the operator has, of widths that it takes.
Fits(op, args, n) ==
  /\ args \in Seq(Seq(1 .. n))
  /\ Len(args) = Arity(op)
  /\ \A k \in DOMAIN args : Len(args[k]) # 0
  /\ ResultWidth(op, [k \in DOMAIN args |-> Len(args[k])]) # 0

LEMMA FitsFacts ==
  ASSUME NEW op \in Bitwise \cup OneBit \cup Chained, NEW n \in Nat, NEW args, Fits(op, args, n)
  PROVE  /\ args[1] \in Seq(1 .. n) /\ Len(args[1]) \in Nat \ {0}
         /\ op \notin {"logicneg", "bitneg"} =>
              args[2] \in Seq(1 .. n) /\ Len(args[2]) = Len(args[1]) /\ Len(args) > 1
         /\ op = "selection" => args[3] \in Seq(1 .. n) /\ Len(args[3]) = 1 /\ Len(args) > 2
         /\ op \in OneBit => Len(args[1]) = 1
         /\ DOMAIN args = 1 .. Len(args) /\ Len(args) \in Nat \ {0}
<1> DEFINE S == Seq(1 .. n)
           w == [k \in DOMAIN args |-> Len(args[k])]
<1>1. args \in Seq(S) /\ Len(args) = Arity(op) /\ ResultWidth(op, w) # 0
      /\ \A k \in DOMAIN args : Len(args[k]) # 0
  BY DEF Fits
<1>2. Arity(op) \in 1 .. 3
  BY DEF Arity
<1>3. \A s \in S : Len(s) \in Nat
  OBVIOUS
<1>4. DOMAIN args = 1 .. Len(args) /\ Len(args) \in Nat \ {0}
      /\ \A k \in 1 .. Len(args) : args[k] \in S /\ w[k] = Len(args[k])
  <2> HIDE DEF S
  <2> QED BY <1>1, <1>2
<1>5. args[1] \in S /\ w[1] = Len(args[1]) /\ Len(args[1]) \in Nat \ {0}
  <2>1. 1 \in 1 .. Len(args)
    BY <1>4
  <2> HIDE DEF S, w
  <2> QED BY <1>1, <1>3, <1>4, <2>1
<1>6. Len(args) > 1 => args[2] \in S /\ w[2] = Len(args[2])
  <2>1. Len(args) > 1 => 2 \in 1 .. Len(args)
    BY <1>4
  <2> HIDE DEF S, w
  <2> QED BY <1>4, <2>1
<1>7. Len(args) > 2 => args[3] \in S /\ w[3] = Len(args[3])
  <2>1. Len(args) > 2 => 3 \in 1 .. Len(args)
    BY <1>4
  <2> HIDE DEF S, w
  <2> QED BY <1>4, <2>1
<1> HIDE DEF w
<1>8. op \in OneBit => w[1] = 1
  BY <1>1 DEF ResultWidth, OneBit, Reductions, Comparisons, BitOperators
<1>9. op \in {"logic_and2", "logic_or2"} => w[2] = 1
  BY <1>1 DEF ResultWidth, Reductions, Comparisons, BitOperators
<1>10. op \in (Bitwise \cup Chained) \ {"bitneg"} => w[2] = w[1]
  BY <1>1 DEF ResultWidth, Bitwise, Chained, Reductions, Comparisons, BitOperators
<1>11. op = "selection" => w[3] = 1
  BY <1>1 DEF ResultWidth, Reductions, Comparisons, BitOperators
<1>12. /\ op \notin {"logicneg", "bitneg"} => Len(args) > 1
       /\ op = "selection" => Len(args) > 2
  BY <1>1 DEF Arity
<1>13. op \notin {"logicneg", "bitneg"} => w[2] = w[1]
  BY <1>8, <1>9, <1>10 DEF OneBit
<1> HIDE DEF S
<1>14. op \notin {"logicneg", "bitneg"} =>
         args[2] \in S /\ Len(args[2]) = Len(args[1]) /\ Len(args) > 1
  BY <1>5, <1>6, <1>12, <1>13
<1>15. op = "selection" => args[3] \in S /\ Len(args[3]) = 1 /\ Len(args) > 2
  BY <1>7, <1>11, <1>12
<1>16. op \in OneBit => Len(args[1]) = 1
  BY <1>5, <1>8
<1> QED BY <1>4, <1>5, <1>14, <1>15, <1>16 DEF S

LEMMA OperatorCode ==
  ASSUME NEW v, NEW n
  PROVE  /\ Operator("logicneg", v, n) = Code(<<n>>, encode_NEQ(n, v[1][1]), n + 1)
         /\ Operator("logic_and2", v, n) = Code(<<n>>, encode_Red_AND(n, <<v[1][1], v[2][1]>>), n + 1)
         /\ Operator("logic_or2", v, n) = Code(<<n>>, encode_Red_OR(n, <<v[1][1], v[2][1]>>), n + 1)
         /\ Operator("add2", v, n)
              = Code(Fresh(n, Len(v[1])), encode_ADD(n, v[1], v[2]), n + Len(v[1]) + Len(v[1]))
         /\ Operator("lt", v, n) = Code(<<n>>, Less(n, v[1], v[2]), n + Len(v[1]))
         /\ Operator("gt", v, n) = Code(<<n>>, Greater(n, v[1], v[2]), n + Len(v[1]))
         /\ Operator("logic_equ", v, n)
              = Code(<<n + Len(v[1])>>, encode_EQUV_res(n, v[1], v[2]), n + Len(v[1]) + 1)
         /\ Operator("logic_ine", v, n)
              = Code(<<n + Len(v[1])>>, encode_INEV_res(n, v[1], v[2]), n + Len(v[1]) + 1)
<1>1. Operator("logicneg", v, n) = Code(<<n>>, encode_NEQ(n, v[1][1]), n + 1)
  BY DEF Operator
<1>2. Operator("logic_and2", v, n) = Code(<<n>>, encode_Red_AND(n, <<v[1][1], v[2][1]>>), n + 1)
  BY DEF Operator
<1>3. Operator("logic_or2", v, n) = Code(<<n>>, encode_Red_OR(n, <<v[1][1], v[2][1]>>), n + 1)
  BY DEF Operator
<1>4. Operator("add2", v, n)
        = Code(Fresh(n, Len(v[1])), encode_ADD(n, v[1], v[2]), n + Len(v[1]) + Len(v[1]))
  BY DEF Operator
<1>5. Operator("lt", v, n) = Code(<<n>>, Less(n, v[1], v[2]), n + Len(v[1]))
  BY DEF Operator
<1>6. Operator("gt", v, n) = Code(<<n>>, Greater(n, v[1], v[2]), n + Len(v[1]))
  BY DEF Operator
<1>7. Operator("logic_equ", v, n)
        = Code(<<n + Len(v[1])>>, encode_EQUV_res(n, v[1], v[2]), n + Len(v[1]) + 1)
  BY DEF Operator
<1>8. Operator("logic_ine", v, n)
        = Code(<<n + Len(v[1])>>, encode_INEV_res(n, v[1], v[2]), n + Len(v[1]) + 1)
  BY DEF Operator
<1> QED BY <1>1, <1>2, <1>3, <1>4, <1>5, <1>6, <1>7, <1>8

LEMMA BitwiseCode ==
  ASSUME NEW v, NEW n
  PROVE  /\ Operator("bitneg", v, n)
              = Code(Fresh(n, Len(v[1])),
                     UNION {encode_NEQ(n + i - 1, v[1][i]) : i \in 1 .. Len(v[1])}, n + Len(v[1]))
         /\ Operator("bit_and2", v, n)
              = Code(Fresh(n, Len(v[1])),
                     UNION {encode_AND2_res(n + i - 1, v[1][i], v[2][i]) : i \in 1 .. Len(v[1])},
                     n + Len(v[1]))
         /\ Operator("bit_or2", v, n)
              = Code(Fresh(n, Len(v[1])),
                     UNION {encode_OR2_res(n + i - 1, v[1][i], v[2][i]) : i \in 1 .. Len(v[1])},
                     n + Len(v[1]))
         /\ Operator("bit_xor2", v, n)
              = Code(Fresh(n, Len(v[1])),
                     UNION {encode_INE_res(n + i - 1, v[1][i], v[2][i]) : i \in 1 .. Len(v[1])},
                     n + Len(v[1]))
         /\ Operator("bit_equ", v, n)
              = Code(Fresh(n, Len(v[1])),
                     UNION {encode_EQU_res(n + i - 1, v[1][i], v[2][i]) : i \in 1 .. Len(v[1])},
                     n + Len(v[1]))
         /\ Operator("selection", v, n)
              = Code(Fresh(n, Len(v[1])),
                     UNION {encode_SEL_res(n + i - 1, v[1][i], v[2][i], v[3][1]) : i \in 1 .. Len(v[1])},
                     n + Len(v[1]))
<1>1. Operator("bitneg", v, n)
        = Code(Fresh(n, Len(v[1])),
               UNION {encode_NEQ(n + i - 1, v[1][i]) : i \in 1 .. Len(v[1])}, n + Len(v[1]))
  BY DEF Operator, BitByBit
<1>2. Operator("bit_and2", v, n)
        = Code(Fresh(n, Len(v[1])),
               UNION {encode_AND2_res(n + i - 1, v[1][i], v[2][i]) : i \in 1 .. Len(v[1])},
               n + Len(v[1]))
  BY DEF Operator, BitByBit
<1>3. Operator("bit_or2", v, n)
        = Code(Fresh(n, Len(v[1])),
               UNION {encode_OR2_res(n + i - 1, v[1][i], v[2][i]) : i \in 1 .. Len(v[1])},
               n + Len(v[1]))
  BY DEF Operator, BitByBit
<1>4. Operator("bit_xor2", v, n)
        = Code(Fresh(n, Len(v[1])),
               UNION {encode_INE_res(n + i - 1, v[1][i], v[2][i]) : i \in 1 .. Len(v[1])},
               n + Len(v[1]))
  BY DEF Operator, BitByBit
<1>5. Operator("bit_equ", v, n)
        = Code(Fresh(n, Len(v[1])),
               UNION {encode_EQU_res(n + i - 1, v[1][i], v[2][i]) : i \in 1 .. Len(v[1])},
               n + Len(v[1]))
  BY DEF Operator, BitByBit
<1>6. Operator("selection", v, n)
        = Code(Fresh(n, Len(v[1])),
               UNION {encode_SEL_res(n + i - 1, v[1][i], v[2][i], v[3][1]) : i \in 1 .. Len(v[1])},
               n + Len(v[1]))
  BY DEF Operator, BitByBit
<1> QED BY <1>1, <1>2, <1>3, <1>4, <1>5, <1>6

-----------------------------------------------------------------------------
(***************************************************************************)
(* What the operators mean.                                                *)
(***************************************************************************)
Values(v, args) == [k \in DOMAIN args |-> Valued(v, args[k])]

\* An operand of w variables among 1..n, and its value.
Operand(v, c, x, n, w) ==
  /\ w \in Nat \ {0}
  /\ c \in Seq(1 .. n) /\ Len(c) = w /\ x = Valued(v, c)
  /\ x \in Seq(BOOLEAN) /\ Len(x) = w
  /\ \A i \in 1 .. w : c[i] \in 1 .. n /\ x[i] = v[c[i]]

LEMMA OperandFacts ==
  ASSUME NEW op \in Bitwise \cup OneBit \cup Chained, NEW n \in Nat, NEW args, Fits(op, args, n),
         NEW v \in [1 .. n -> BOOLEAN], NEW w, w = Len(args[1])
  PROVE  /\ Operand(v, args[1], Values(v, args)[1], n, w)
         /\ op \notin {"logicneg", "bitneg"} => Operand(v, args[2], Values(v, args)[2], n, w)
         /\ op = "selection" => args[3][1] \in 1 .. n /\ Values(v, args)[3][1] = v[args[3][1]]
<1>1. /\ args[1] \in Seq(1 .. n) /\ w \in Nat \ {0} /\ Len(args[1]) = w
      /\ op \notin {"logicneg", "bitneg"} => args[2] \in Seq(1 .. n) /\ Len(args[2]) = w /\ Len(args) > 1
      /\ op = "selection" => args[3] \in Seq(1 .. n) /\ Len(args[3]) = 1 /\ Len(args) > 2
      /\ op \in OneBit => w = 1
      /\ DOMAIN args = 1 .. Len(args) /\ Len(args) \in Nat \ {0}
  BY FitsFacts
<1>2. \A k \in 1 .. Len(args) : Values(v, args)[k] = Valued(v, args[k])
  BY <1>1 DEF Values
<1>3. Values(v, args)[1] = Valued(v, args[1])
  BY <1>1, <1>2
<1>4. op \notin {"logicneg", "bitneg"} => Values(v, args)[2] = Valued(v, args[2])
  BY <1>1, <1>2
<1>5. op = "selection" => Values(v, args)[3] = Valued(v, args[3])
  BY <1>1, <1>2
<1>6. \A s \in Seq(1 .. n) : \A m \in Nat : Len(s) = m =>
        /\ Valued(v, s) \in Seq(BOOLEAN) /\ Len(Valued(v, s)) = m
        /\ \A i \in 1 .. m : s[i] \in 1 .. n /\ Valued(v, s)[i] = v[s[i]]
  BY ValuedVectors
<1>7. w \in Nat /\ 1 \in Nat /\ 1 \in 1 .. 1
  BY <1>1
<1> DEFINE a == args[1]
           b == args[2]
           c == args[3]
<1>8. Valued(v, a) \in Seq(BOOLEAN) /\ Len(Valued(v, a)) = w
      /\ \A i \in 1 .. w : a[i] \in 1 .. n /\ Valued(v, a)[i] = v[a[i]]
  <2>1. a \in Seq(1 .. n) /\ Len(a) = w
    BY <1>1
  <2> HIDE DEF a
  <2> QED BY <1>6, <1>7, <2>1
<1>9. ASSUME op \notin {"logicneg", "bitneg"}
      PROVE  Valued(v, b) \in Seq(BOOLEAN) /\ Len(Valued(v, b)) = w
             /\ \A i \in 1 .. w : b[i] \in 1 .. n /\ Valued(v, b)[i] = v[b[i]]
  <2>1. b \in Seq(1 .. n) /\ Len(b) = w
    BY <1>1, <1>9
  <2> HIDE DEF b
  <2> QED BY <1>6, <1>7, <2>1
<1>10. ASSUME op = "selection" PROVE c[1] \in 1 .. n /\ Valued(v, c)[1] = v[c[1]]
  <2>1. c \in Seq(1 .. n) /\ Len(c) = 1
    BY <1>1, <1>10
  <2> HIDE DEF c
  <2> QED BY <1>6, <1>7, <2>1
<1>11. op = "selection" => args[3][1] \in 1 .. n /\ Values(v, args)[3][1] = v[args[3][1]]
  BY <1>5, <1>10
<1>12. op \notin {"logicneg", "bitneg"} =>
              /\ args[2] \in Seq(1 .. n) /\ Len(args[2]) = w
              /\ Values(v, args)[2] = Valued(v, args[2])
              /\ Values(v, args)[2] \in Seq(BOOLEAN) /\ Len(Values(v, args)[2]) = w
              /\ \A i \in 1 .. w : args[2][i] \in 1 .. n /\ Values(v, args)[2][i] = v[args[2][i]]
  BY <1>1, <1>4, <1>9
<1> QED BY <1>1, <1>3, <1>8, <1>11, <1>12 DEF Operand

LEMMA FreshValued ==
  ASSUME NEW m \in Nat, NEW v \in [1 .. m -> BOOLEAN], NEW w \in Nat, NEW n \in Nat \ {0},
         n + w - 1 <= m
  PROVE  /\ Valued(v, Fresh(n, w)) \in [1 .. w -> BOOLEAN]
         /\ \A i \in 1 .. w : Valued(v, Fresh(n, w))[i] = v[n + i - 1]
<1> DEFINE s == Fresh(n, w)
<1>1. s \in Seq(1 .. m) /\ Len(s) = w /\ \A i \in 1 .. w : s[i] = n + i - 1
  BY FreshFacts
<1> HIDE DEF s
<1>2. \A s0 \in Seq(1 .. m) : \A w0 \in Nat : Len(s0) = w0 =>
        /\ Valued(v, s0) \in [1 .. w0 -> BOOLEAN]
        /\ \A i \in 1 .. w0 : Valued(v, s0)[i] = v[s0[i]]
  BY ValuedVectors
<1>3. Valued(v, s) \in [1 .. w -> BOOLEAN] /\ \A i \in 1 .. w : Valued(v, s)[i] = v[s[i]]
  BY <1>1, <1>2
<1> QED BY <1>1, <1>3 DEF s

\* A family of gates for w bits from n on: gates[i] says that the i-th one is val[i].
Family(m, v, w, n, gates, val) ==
  /\ m \in Nat /\ v \in [1 .. m -> BOOLEAN]
  /\ w \in Nat /\ n \in Nat \ {0} /\ n + w - 1 <= m
  /\ val \in [1 .. w -> BOOLEAN]
  /\ \A i \in 1 .. w : SatisfiesAll(v, gates[i]) <=> (v[n + i - 1] <=> val[i])

LEMMA FamilyMeaning ==
  ASSUME NEW m, NEW v, NEW w, NEW n, NEW gates, NEW val, Family(m, v, w, n, gates, val)
  PROVE  SatisfiesAll(v, UNION {gates[i] : i \in 1 .. w}) <=> Valued(v, Fresh(n, w)) = val
<1> DEFINE t == Valued(v, Fresh(n, w))
<1>1. t \in [1 .. w -> BOOLEAN] /\ \A i \in 1 .. w : t[i] = v[n + i - 1]
  BY FreshValued DEF Family
<1> HIDE DEF t
<1>2. SatisfiesAll(v, UNION {gates[i] : i \in 1 .. w}) <=> \A i \in 1 .. w : SatisfiesAll(v, gates[i])
  BY AllGates
<1>3. (\A i \in 1 .. w : t[i] <=> val[i]) <=> t = val
  BY <1>1 DEF Family
<1> QED BY <1>1, <1>2, <1>3 DEF t, Family

LEMMA AppliedBits ==
  ASSUME NEW x
  PROVE  /\ Applied("bitneg", x) = [k \in 1 .. Len(x[1]) |-> ~x[1][k]]
         /\ Applied("bit_and2", x) = [k \in 1 .. Len(x[1]) |-> x[1][k] /\ x[2][k]]
         /\ Applied("bit_or2", x) = [k \in 1 .. Len(x[1]) |-> x[1][k] \/ x[2][k]]
         /\ Applied("bit_xor2", x) = [k \in 1 .. Len(x[1]) |-> x[1][k] # x[2][k]]
         /\ Applied("bit_equ", x) = [k \in 1 .. Len(x[1]) |-> x[1][k] = x[2][k]]
         /\ Applied("selection", x) = IF x[3][1] THEN x[1] ELSE x[2]
<1>1. Applied("bitneg", x) = [k \in 1 .. Len(x[1]) |-> ~x[1][k]]
  BY DEF Applied, Each
<1>2. Applied("bit_and2", x) = [k \in 1 .. Len(x[1]) |-> x[1][k] /\ x[2][k]]
  BY DEF Applied, Each
<1>3. Applied("bit_or2", x) = [k \in 1 .. Len(x[1]) |-> x[1][k] \/ x[2][k]]
  BY DEF Applied, Each
<1>4. Applied("bit_xor2", x) = [k \in 1 .. Len(x[1]) |-> x[1][k] # x[2][k]]
  BY DEF Applied, Each
<1>5. Applied("bit_equ", x) = [k \in 1 .. Len(x[1]) |-> x[1][k] = x[2][k]]
  BY DEF Applied, Each
<1>6. Applied("selection", x) = IF x[3][1] THEN x[1] ELSE x[2]
  BY DEF Applied
<1> QED BY <1>1, <1>2, <1>3, <1>4, <1>5, <1>6

LEMMA AppliedBit ==
  ASSUME NEW x
  PROVE  /\ Applied("logicneg", x) = <<~x[1][1]>>
         /\ Applied("logic_and2", x) = <<x[1][1] /\ x[2][1]>>
         /\ Applied("logic_or2", x) = <<x[1][1] \/ x[2][1]>>
         /\ Applied("add2", x) = Sum(x[1], x[2])
         /\ Applied("lt", x) = <<Number(x[1]) < Number(x[2])>>
         /\ Applied("gt", x) = <<Number(x[1]) > Number(x[2])>>
         /\ Applied("logic_equ", x) = <<Number(x[1]) = Number(x[2])>>
         /\ Applied("logic_ine", x) = <<Number(x[1]) # Number(x[2])>>
<1>1. Applied("logicneg", x) = <<~x[1][1]>>
  BY DEF Applied
<1>2. Applied("logic_and2", x) = <<x[1][1] /\ x[2][1]>>
  BY DEF Applied
<1>3. Applied("logic_or2", x) = <<x[1][1] \/ x[2][1]>>
  BY DEF Applied
<1>4. Applied("add2", x) = Sum(x[1], x[2])
  BY DEF Applied
<1>5. Applied("lt", x) = <<Number(x[1]) < Number(x[2])>>
  BY DEF Applied
<1>6. Applied("gt", x) = <<Number(x[1]) > Number(x[2])>>
  BY DEF Applied
<1>7. Applied("logic_equ", x) = <<Number(x[1]) = Number(x[2])>>
  BY DEF Applied
<1>8. Applied("logic_ine", x) = <<Number(x[1]) # Number(x[2])>>
  BY DEF Applied
<1> QED BY <1>1, <1>2, <1>3, <1>4, <1>5, <1>6, <1>7, <1>8

\* The operators whose result has one gate for each bit.
LEMMA BitwiseMeaning ==
  ASSUME NEW m \in Nat, NEW v \in [1 .. m -> BOOLEAN], NEW op \in Bitwise, NEW args,
         Fits(op, args, m), NEW n \in Nat \ {0}, Operator(op, args, n).last - 1 <= m
  PROVE  SatisfiesAll(v, Operator(op, args, n).clauses)
           <=> Valued(v, Operator(op, args, n).bits) = Applied(op, Values(v, args))
<1> DEFINE w == Len(args[1])
           x == Values(v, args)
<1>1. /\ w \in Nat \ {0}
      /\ x[1] \in Seq(BOOLEAN) /\ Len(x[1]) = w
      /\ \A i \in 1 .. w : args[1][i] \in 1 .. m /\ x[1][i] = v[args[1][i]]
      /\ op # "bitneg" =>
           /\ x[2] \in Seq(BOOLEAN) /\ Len(x[2]) = w
           /\ \A i \in 1 .. w : args[2][i] \in 1 .. m /\ x[2][i] = v[args[2][i]]
      /\ op = "selection" => args[3][1] \in 1 .. m /\ x[3][1] = v[args[3][1]]
  <2>1. op \in Bitwise \cup OneBit \cup Chained /\ op # "logicneg"
    BY DEF Bitwise
  <2>2. w = Len(args[1])
    OBVIOUS
  <2> HIDE DEF w
  <2>3. /\ Operand(v, args[1], x[1], m, w)
        /\ op # "bitneg" => Operand(v, args[2], x[2], m, w)
        /\ op = "selection" => args[3][1] \in 1 .. m /\ x[3][1] = v[args[3][1]]
    BY <2>1, <2>2, OperandFacts
  <2> HIDE DEF x
  <2> QED BY <2>3 DEF Operand
<1>2. Operator(op, args, n).bits = Fresh(n, w) /\ Operator(op, args, n).last = n + w
  BY BitwiseCode DEF Code, Bitwise
<1> HIDE DEF w, x
<1>3. n + w - 1 <= m /\ w \in Nat
  BY <1>1, <1>2
<1>4. \A i \in 1 .. w : n + i - 1 \in 1 .. m
  BY <1>3
<1>5. ASSUME NEW gates, Operator(op, args, n).clauses = UNION {gates[i] : i \in 1 .. w},
             Applied(op, x) \in [1 .. w -> BOOLEAN],
             \A i \in 1 .. w : SatisfiesAll(v, gates[i]) <=> (v[n + i - 1] <=> Applied(op, x)[i])
      PROVE  SatisfiesAll(v, Operator(op, args, n).clauses)
               <=> Valued(v, Operator(op, args, n).bits) = Applied(op, Values(v, args))
  <2>1. Family(m, v, w, n, gates, Applied(op, x))
    BY <1>3, <1>5 DEF Family
  <2> QED BY <1>2, <1>5, <2>1, FamilyMeaning DEF x
<1>6. /\ \A r0, a0 \in 1 .. m :
           SatisfiesAll(v, encode_NEQ(r0, a0)) <=> (v[r0] <=> ~v[a0])
      /\ \A r0, a0, b0 \in 1 .. m :
           SatisfiesAll(v, encode_INE_res(r0, a0, b0)) <=> (v[r0] <=> ~(v[a0] <=> v[b0]))
      /\ \A r0, a0, b0 \in 1 .. m :
           SatisfiesAll(v, encode_EQU_res(r0, a0, b0)) <=> (v[r0] <=> (v[a0] <=> v[b0]))
      /\ \A r0, a0, b0 \in 1 .. m :
           SatisfiesAll(v, encode_AND2_res(r0, a0, b0)) <=> (v[r0] <=> v[a0] /\ v[b0])
      /\ \A r0, a0, b0 \in 1 .. m :
           SatisfiesAll(v, encode_OR2_res(r0, a0, b0)) <=> (v[r0] <=> v[a0] \/ v[b0])
      /\ \A r0, a0, b0, c0 \in 1 .. m :
           SatisfiesAll(v, encode_SEL_res(r0, a0, b0, c0)) <=> (v[r0] <=> IF v[c0] THEN v[a0] ELSE v[b0])
  BY GatesMeaning
<1>7. CASE op = "bitneg"
  <2> DEFINE gates == [i \in 1 .. w |-> encode_NEQ(n + i - 1, args[1][i])]
  <2>1. Operator(op, args, n).clauses = UNION {gates[i] : i \in 1 .. w}
    <3>1. Operator(op, args, n).clauses = UNION {encode_NEQ(n + i - 1, args[1][i]) : i \in 1 .. w}
      BY <1>7, BitwiseCode DEF Code, w
    <3>2. UNION {encode_NEQ(n + i - 1, args[1][i]) : i \in 1 .. w} = UNION {gates[i] : i \in 1 .. w}
      OBVIOUS
    <3> QED BY <3>1, <3>2
  <2>2. Applied(op, x) \in [1 .. w -> BOOLEAN]
        /\ \A i \in 1 .. w : Applied(op, x)[i] <=> (~v[args[1][i]])
    <3>1. Applied(op, x) = [k \in 1 .. w |-> ~x[1][k]]
      BY <1>1, <1>7, AppliedBits
    <3>2. \A i \in 1 .. w : x[1][i] \in BOOLEAN
      BY <1>1
    <3> QED BY <1>1, <1>7, <3>1, <3>2, ZenonT(60)
  <2>3. ASSUME NEW i \in 1 .. w
        PROVE  SatisfiesAll(v, gates[i]) <=> (v[n + i - 1] <=> (~v[args[1][i]]))
    <3> DEFINE j == n + i - 1
    <3>1. args[1][i] \in 1 .. m /\ j \in 1 .. m
      BY <1>1, <1>4, <1>7
    <3>2. gates[i] = encode_NEQ(j, args[1][i])
      OBVIOUS
    <3> HIDE DEF j, gates
    <3>3. SatisfiesAll(v, encode_NEQ(j, args[1][i])) <=> (v[j] <=> (~v[args[1][i]]))
      BY <1>6, <3>1
    <3> QED BY <3>2, <3>3 DEF j
  <2> HIDE DEF gates
  <2> QED BY <1>5, <2>1, <2>2, <2>3
<1>8. CASE op = "bit_and2"
  <2> DEFINE gates == [i \in 1 .. w |-> encode_AND2_res(n + i - 1, args[1][i], args[2][i])]
  <2>1. Operator(op, args, n).clauses = UNION {gates[i] : i \in 1 .. w}
    <3>1. Operator(op, args, n).clauses = UNION {encode_AND2_res(n + i - 1, args[1][i], args[2][i]) : i \in 1 .. w}
      BY <1>8, BitwiseCode DEF Code, w
    <3>2. UNION {encode_AND2_res(n + i - 1, args[1][i], args[2][i]) : i \in 1 .. w} = UNION {gates[i] : i \in 1 .. w}
      OBVIOUS
    <3> QED BY <3>1, <3>2
  <2>2. Applied(op, x) \in [1 .. w -> BOOLEAN]
        /\ \A i \in 1 .. w : Applied(op, x)[i] <=> (v[args[1][i]] /\ v[args[2][i]])
    <3>1. Applied(op, x) = [k \in 1 .. w |-> x[1][k] /\ x[2][k]]
      BY <1>1, <1>8, AppliedBits
    <3>2. \A i \in 1 .. w : x[2][i] \in BOOLEAN /\ x[1][i] \in BOOLEAN
      BY <1>1, <1>8
    <3> QED BY <1>1, <1>8, <3>1, <3>2
  <2>3. ASSUME NEW i \in 1 .. w
        PROVE  SatisfiesAll(v, gates[i]) <=> (v[n + i - 1] <=> (v[args[1][i]] /\ v[args[2][i]]))
    <3> DEFINE j == n + i - 1
    <3>1. args[1][i] \in 1 .. m /\ args[2][i] \in 1 .. m /\ j \in 1 .. m
      BY <1>1, <1>4, <1>8
    <3>2. gates[i] = encode_AND2_res(j, args[1][i], args[2][i])
      OBVIOUS
    <3> HIDE DEF j, gates
    <3>3. SatisfiesAll(v, encode_AND2_res(j, args[1][i], args[2][i])) <=> (v[j] <=> (v[args[1][i]] /\ v[args[2][i]]))
      BY <1>6, <3>1
    <3> QED BY <3>2, <3>3 DEF j
  <2> HIDE DEF gates
  <2> QED BY <1>5, <2>1, <2>2, <2>3
<1>9. CASE op = "bit_or2"
  <2> DEFINE gates == [i \in 1 .. w |-> encode_OR2_res(n + i - 1, args[1][i], args[2][i])]
  <2>1. Operator(op, args, n).clauses = UNION {gates[i] : i \in 1 .. w}
    <3>1. Operator(op, args, n).clauses = UNION {encode_OR2_res(n + i - 1, args[1][i], args[2][i]) : i \in 1 .. w}
      BY <1>9, BitwiseCode DEF Code, w
    <3>2. UNION {encode_OR2_res(n + i - 1, args[1][i], args[2][i]) : i \in 1 .. w} = UNION {gates[i] : i \in 1 .. w}
      OBVIOUS
    <3> QED BY <3>1, <3>2
  <2>2. Applied(op, x) \in [1 .. w -> BOOLEAN]
        /\ \A i \in 1 .. w : Applied(op, x)[i] <=> (v[args[1][i]] \/ v[args[2][i]])
    <3>1. Applied(op, x) = [k \in 1 .. w |-> x[1][k] \/ x[2][k]]
      BY <1>1, <1>9, AppliedBits
    <3>2. \A i \in 1 .. w : x[2][i] \in BOOLEAN /\ x[1][i] \in BOOLEAN
      BY <1>1, <1>9
    <3> QED BY <1>1, <1>9, <3>1, <3>2, ZenonT(60)
  <2>3. ASSUME NEW i \in 1 .. w
        PROVE  SatisfiesAll(v, gates[i]) <=> (v[n + i - 1] <=> (v[args[1][i]] \/ v[args[2][i]]))
    <3> DEFINE j == n + i - 1
    <3>1. args[1][i] \in 1 .. m /\ args[2][i] \in 1 .. m /\ j \in 1 .. m
      BY <1>1, <1>4, <1>9
    <3>2. gates[i] = encode_OR2_res(j, args[1][i], args[2][i])
      OBVIOUS
    <3> HIDE DEF j, gates
    <3>3. SatisfiesAll(v, encode_OR2_res(j, args[1][i], args[2][i])) <=> (v[j] <=> (v[args[1][i]] \/ v[args[2][i]]))
      BY <1>6, <3>1, SMTT(60)
    <3> QED BY <3>2, <3>3 DEF j
  <2> HIDE DEF gates
  <2> QED BY <1>5, <2>1, <2>2, <2>3
<1>10. CASE op = "bit_xor2"
  <2> DEFINE gates == [i \in 1 .. w |-> encode_INE_res(n + i - 1, args[1][i], args[2][i])]
  <2>1. Operator(op, args, n).clauses = UNION {gates[i] : i \in 1 .. w}
    <3>1. Operator(op, args, n).clauses = UNION {encode_INE_res(n + i - 1, args[1][i], args[2][i]) : i \in 1 .. w}
      BY <1>10, BitwiseCode DEF Code, w
    <3>2. UNION {encode_INE_res(n + i - 1, args[1][i], args[2][i]) : i \in 1 .. w} = UNION {gates[i] : i \in 1 .. w}
      OBVIOUS
    <3> QED BY <3>1, <3>2
  <2>2. Applied(op, x) \in [1 .. w -> BOOLEAN]
        /\ \A i \in 1 .. w : Applied(op, x)[i] <=> (~(v[args[1][i]] <=> v[args[2][i]]))
    <3>1. Applied(op, x) = [k \in 1 .. w |-> x[1][k] # x[2][k]]
      BY <1>1, <1>10, AppliedBits
    <3>2. \A i \in 1 .. w : x[1][i] \in BOOLEAN /\ x[2][i] \in BOOLEAN
      BY <1>1, <1>10
    <3>3. \A i \in 1 .. w : (x[1][i] # x[2][i]) <=> (~(x[1][i] <=> x[2][i]))
      BY <3>2
    <3>4. \A i \in 1 .. w : (x[1][i] # x[2][i]) \in BOOLEAN
      BY <3>2
    <3>5. \A i \in 1 .. w : Applied(op, x)[i] <=> (~(x[1][i] <=> x[2][i]))
      BY <3>1, <3>3
    <3>6. \A i \in 1 .. w : v[args[1][i]] = x[1][i] /\ v[args[2][i]] = x[2][i]
      BY <1>1, <1>10
    <3> QED BY <3>1, <3>4, <3>5, <3>6
  <2>3. ASSUME NEW i \in 1 .. w
        PROVE  SatisfiesAll(v, gates[i]) <=> (v[n + i - 1] <=> (~(v[args[1][i]] <=> v[args[2][i]])))
    <3> DEFINE j == n + i - 1
    <3>1. args[1][i] \in 1 .. m /\ args[2][i] \in 1 .. m /\ j \in 1 .. m
      BY <1>1, <1>4, <1>10
    <3>2. gates[i] = encode_INE_res(j, args[1][i], args[2][i])
      OBVIOUS
    <3> HIDE DEF j, gates
    <3>3. SatisfiesAll(v, encode_INE_res(j, args[1][i], args[2][i])) <=> (v[j] <=> (~(v[args[1][i]] <=> v[args[2][i]])))
      BY <1>6, <3>1
    <3> QED BY <3>2, <3>3 DEF j
  <2> HIDE DEF gates
  <2> QED BY <1>5, <2>1, <2>2, <2>3
<1>11. CASE op = "bit_equ"
  <2> DEFINE gates == [i \in 1 .. w |-> encode_EQU_res(n + i - 1, args[1][i], args[2][i])]
  <2>1. Operator(op, args, n).clauses = UNION {gates[i] : i \in 1 .. w}
    <3>1. Operator(op, args, n).clauses = UNION {encode_EQU_res(n + i - 1, args[1][i], args[2][i]) : i \in 1 .. w}
      BY <1>11, BitwiseCode DEF Code, w
    <3>2. UNION {encode_EQU_res(n + i - 1, args[1][i], args[2][i]) : i \in 1 .. w} = UNION {gates[i] : i \in 1 .. w}
      OBVIOUS
    <3> QED BY <3>1, <3>2
  <2>2. Applied(op, x) \in [1 .. w -> BOOLEAN]
        /\ \A i \in 1 .. w : Applied(op, x)[i] <=> ((v[args[1][i]] <=> v[args[2][i]]))
    <3>1. Applied(op, x) = [k \in 1 .. w |-> x[1][k] = x[2][k]]
      BY <1>1, <1>11, AppliedBits
    <3>2. \A i \in 1 .. w : x[1][i] \in BOOLEAN /\ x[2][i] \in BOOLEAN
      BY <1>1, <1>11
    <3>3. \A i \in 1 .. w : (x[1][i] = x[2][i]) <=> ((x[1][i] <=> x[2][i]))
      BY <3>2
    <3>4. \A i \in 1 .. w : (x[1][i] = x[2][i]) \in BOOLEAN
      BY <3>2
    <3>5. \A i \in 1 .. w : Applied(op, x)[i] <=> ((x[1][i] <=> x[2][i]))
      BY <3>1, <3>3
    <3>6. \A i \in 1 .. w : v[args[1][i]] = x[1][i] /\ v[args[2][i]] = x[2][i]
      BY <1>1, <1>11
    <3> QED BY <3>1, <3>4, <3>5, <3>6
  <2>3. ASSUME NEW i \in 1 .. w
        PROVE  SatisfiesAll(v, gates[i]) <=> (v[n + i - 1] <=> ((v[args[1][i]] <=> v[args[2][i]])))
    <3> DEFINE j == n + i - 1
    <3>1. args[1][i] \in 1 .. m /\ args[2][i] \in 1 .. m /\ j \in 1 .. m
      BY <1>1, <1>4, <1>11
    <3>2. gates[i] = encode_EQU_res(j, args[1][i], args[2][i])
      OBVIOUS
    <3> HIDE DEF j, gates
    <3>3. SatisfiesAll(v, encode_EQU_res(j, args[1][i], args[2][i])) <=> (v[j] <=> ((v[args[1][i]] <=> v[args[2][i]])))
      BY <1>6, <3>1, SMTT(30)
    <3> QED BY <3>2, <3>3 DEF j
  <2> HIDE DEF gates
  <2> QED BY <1>5, <2>1, <2>2, <2>3
<1>12. CASE op = "selection"
  <2> DEFINE gates == [i \in 1 .. w |-> encode_SEL_res(n + i - 1, args[1][i], args[2][i], args[3][1])]
  <2>1. Operator(op, args, n).clauses = UNION {gates[i] : i \in 1 .. w}
    <3>1. Operator(op, args, n).clauses = UNION {encode_SEL_res(n + i - 1, args[1][i], args[2][i], args[3][1]) : i \in 1 .. w}
      BY <1>12, BitwiseCode DEF Code, w
    <3>2. UNION {encode_SEL_res(n + i - 1, args[1][i], args[2][i], args[3][1]) : i \in 1 .. w} = UNION {gates[i] : i \in 1 .. w}
      OBVIOUS
    <3> QED BY <3>1, <3>2
  <2>2. Applied(op, x) \in [1 .. w -> BOOLEAN]
        /\ \A i \in 1 .. w : Applied(op, x)[i] <=> (IF v[args[3][1]] THEN v[args[1][i]] ELSE v[args[2][i]])
    <3>1. Applied(op, x) = IF x[3][1] THEN x[1] ELSE x[2]
      BY <1>12, AppliedBits
    <3>2. x[1] \in [1 .. w -> BOOLEAN] /\ x[2] \in [1 .. w -> BOOLEAN]
      BY <1>1, <1>12
    <3>3. \A i \in 1 .. w : Applied(op, x)[i] = IF v[args[3][1]] THEN v[args[1][i]] ELSE v[args[2][i]]
      BY <1>1, <1>12, <3>1
    <3> QED BY <3>1, <3>2, <3>3
  <2>3. ASSUME NEW i \in 1 .. w
        PROVE  SatisfiesAll(v, gates[i]) <=> (v[n + i - 1] <=> (IF v[args[3][1]] THEN v[args[1][i]] ELSE v[args[2][i]]))
    <3> DEFINE j == n + i - 1
    <3>1. args[1][i] \in 1 .. m /\ args[2][i] \in 1 .. m /\ args[3][1] \in 1 .. m /\ j \in 1 .. m
      BY <1>1, <1>4, <1>12
    <3>2. gates[i] = encode_SEL_res(j, args[1][i], args[2][i], args[3][1])
      OBVIOUS
    <3> HIDE DEF j, gates
    <3>3. SatisfiesAll(v, encode_SEL_res(j, args[1][i], args[2][i], args[3][1])) <=> (v[j] <=> (IF v[args[3][1]] THEN v[args[1][i]] ELSE v[args[2][i]]))
      <4> DEFINE a0 == args[1][i]
                 b0 == args[2][i]
                 c0 == args[3][1]
      <4>1. a0 \in 1 .. m /\ b0 \in 1 .. m /\ c0 \in 1 .. m
        BY <3>1
      <4> HIDE DEF a0, b0, c0
      <4>2. SatisfiesAll(v, encode_SEL_res(j, a0, b0, c0)) <=> (v[j] <=> (IF v[c0] THEN v[a0] ELSE v[b0]))
        BY <1>6, <3>1, <4>1
      <4> QED BY <4>2 DEF a0, b0, c0
    <3> QED BY <3>2, <3>3 DEF j
  <2> HIDE DEF gates
  <2> QED BY <1>5, <2>1, <2>2, <2>3
<1> QED BY <1>7, <1>8, <1>9, <1>10, <1>11, <1>12 DEF Bitwise

LEMMA OneValued ==
  ASSUME NEW m \in Nat, NEW v \in [1 .. m -> BOOLEAN], NEW res \in 1 .. m, NEW val \in BOOLEAN
  PROVE  Valued(v, <<res>>) = <<val>> <=> (v[res] <=> val)
<1>1. Valued(v, <<res>>) = <<v[res]>>
  BY DEF Valued
<1>2. v[res] \in BOOLEAN
  OBVIOUS
<1> QED BY <1>1, <1>2

\* The operators on single bits.
LEMMA OneBitMeaning ==
  ASSUME NEW m \in Nat, NEW v \in [1 .. m -> BOOLEAN], NEW op \in OneBit, NEW args,
         Fits(op, args, m), NEW n \in Nat \ {0}, Operator(op, args, n).last - 1 <= m
  PROVE  SatisfiesAll(v, Operator(op, args, n).clauses)
           <=> Valued(v, Operator(op, args, n).bits) = Applied(op, Values(v, args))
<1> DEFINE x == Values(v, args)
           w == Len(args[1])
           a == args[1][1]
           b == args[2][1]
<1>1. /\ w = 1
      /\ x[1] \in Seq(BOOLEAN) /\ Len(x[1]) = w
      /\ \A i \in 1 .. w : args[1][i] \in 1 .. m /\ x[1][i] = v[args[1][i]]
      /\ op # "logicneg" =>
           /\ x[2] \in Seq(BOOLEAN) /\ Len(x[2]) = w
           /\ \A i \in 1 .. w : args[2][i] \in 1 .. m /\ x[2][i] = v[args[2][i]]
  <2>1. op \in Bitwise \cup OneBit \cup Chained /\ op # "bitneg"
    BY DEF OneBit
  <2>2. w = Len(args[1])
    OBVIOUS
  <2>3. w = 1
    BY <2>1, FitsFacts
  <2> HIDE DEF w
  <2>4. /\ Operand(v, args[1], x[1], m, w)
        /\ op # "logicneg" => Operand(v, args[2], x[2], m, w)
    BY <2>1, <2>2, OperandFacts
  <2> HIDE DEF x
  <2> QED BY <2>3, <2>4 DEF Operand
<1> HIDE DEF x, w
<1>2. /\ a \in 1 .. m /\ x[1][1] = v[a]
      /\ op # "logicneg" => b \in 1 .. m /\ x[2][1] = v[b]
  <2>1. 1 \in 1 .. w
    BY <1>1
  <2> QED BY <1>1, <2>1
<1>3. Operator(op, args, n).bits = <<n>> /\ Operator(op, args, n).last = n + 1
  <2>1. /\ Operator("logicneg", args, n) = Code(<<n>>, encode_NEQ(n, args[1][1]), n + 1)
        /\ Operator("logic_and2", args, n)
             = Code(<<n>>, encode_Red_AND(n, <<args[1][1], args[2][1]>>), n + 1)
        /\ Operator("logic_or2", args, n)
             = Code(<<n>>, encode_Red_OR(n, <<args[1][1], args[2][1]>>), n + 1)
    BY OperatorCode, ZenonT(60)
  <2>2. \E c : Operator(op, args, n) = Code(<<n>>, c, n + 1)
    BY <2>1, Zenon DEF OneBit
  <2> QED BY <2>2 DEF Code
<1>4. n \in 1 .. m
  BY <1>3
<1>5. CASE op = "logicneg"
  <2>1. Operator(op, args, n).clauses = encode_NEQ(n, a)
    <3>1. Operator(op, args, n) = Code(<<n>>, encode_NEQ(n, a), n + 1)
      BY <1>5, OperatorCode
    <3> QED BY <3>1 DEF Code
  <2>2. Applied(op, x) = <<~x[1][1]>>
    BY <1>5, AppliedBit
  <2> HIDE DEF a, b
  <2>3. SatisfiesAll(v, encode_NEQ(n, a)) <=> (v[n] <=> ~v[a])
    BY <1>2, <1>4, GateMeaning
  <2>4. Valued(v, <<n>>) = <<~v[a]>> <=> (v[n] <=> ~v[a])
    BY <1>2, <1>4, OneValued
  <2> QED BY <1>2, <1>3, <2>1, <2>2, <2>3, <2>4 DEF x
<1>6. CASE op = "logic_and2"
  <2> DEFINE bits == <<a, b>>
  <2>1. Operator(op, args, n).clauses = encode_Red_AND(n, bits)
    BY <1>6, OperatorCode DEF Code
  <2>2. Applied(op, x) = <<x[1][1] /\ x[2][1]>>
    BY <1>6, AppliedBit
  <2> HIDE DEF a, b
  <2>3. bits \in Seq(1 .. m) /\ DOMAIN bits = 1 .. 2 /\ bits[1] = a /\ bits[2] = b
    BY <1>2, <1>6
  <2> HIDE DEF bits
  <2>4. SatisfiesAll(v, encode_Red_AND(n, bits)) <=> (v[n] <=> \A i \in DOMAIN bits : v[bits[i]])
    BY <1>4, <2>3, RedAndMeaning
  <2>5. (\A i \in DOMAIN bits : v[bits[i]]) <=> v[a] /\ v[b]
    BY <2>3
  <2>6. Valued(v, <<n>>) = <<v[a] /\ v[b]>> <=> (v[n] <=> v[a] /\ v[b])
    <3>1. (v[a] /\ v[b]) \in BOOLEAN
      OBVIOUS
    <3> QED BY <1>4, <3>1, OneValued
  <2> QED BY <1>2, <1>3, <1>6, <2>1, <2>2, <2>4, <2>5, <2>6 DEF x
<1>7. CASE op = "logic_or2"
  <2> DEFINE bits == <<a, b>>
  <2>1. Operator(op, args, n).clauses = encode_Red_OR(n, bits)
    BY <1>7, OperatorCode DEF Code
  <2>2. Applied(op, x) = <<x[1][1] \/ x[2][1]>>
    BY <1>7, AppliedBit
  <2> HIDE DEF a, b
  <2>3. bits \in Seq(1 .. m) /\ DOMAIN bits = 1 .. 2 /\ bits[1] = a /\ bits[2] = b
    BY <1>2, <1>7
  <2> HIDE DEF bits
  <2>4. SatisfiesAll(v, encode_Red_OR(n, bits)) <=> (v[n] <=> \E i \in DOMAIN bits : v[bits[i]])
    BY <1>4, <2>3, RedMeaning
  <2>5. (\E i \in DOMAIN bits : v[bits[i]]) <=> v[a] \/ v[b]
    BY <2>3
  <2>6. Valued(v, <<n>>) = <<v[a] \/ v[b]>> <=> (v[n] <=> v[a] \/ v[b])
    <3>1. (v[a] \/ v[b]) \in BOOLEAN
      OBVIOUS
    <3> QED BY <1>4, <3>1, OneValued
  <2> QED BY <1>2, <1>3, <1>7, <2>1, <2>2, <2>4, <2>5, <2>6 DEF x
<1> QED BY <1>5, <1>6, <1>7 DEF OneBit

\* The operators made of a chain, or of the comparisons of the bits: these also have inner variables.
LEMMA ChainedMeaning ==
  ASSUME NEW m \in Nat, NEW v \in [1 .. m -> BOOLEAN], ~v[falsepred], falsepred <= m,
         NEW op \in Chained, NEW args, Fits(op, args, m),
         NEW n \in Nat \ {0}, Operator(op, args, n).last - 1 <= m,
         SatisfiesAll(v, Operator(op, args, n).clauses)
  PROVE  Valued(v, Operator(op, args, n).bits) = Applied(op, Values(v, args))
<1> DEFINE x == Values(v, args)
           w == Len(args[1])
           a == args[1]
           b == args[2]
<1>1. /\ w \in Nat \ {0}
      /\ a \in Seq(1 .. m) /\ Len(a) = w /\ x[1] = Valued(v, a)
      /\ x[1] \in Seq(BOOLEAN) /\ Len(x[1]) = w
      /\ \A i \in 1 .. w : x[1][i] = v[a[i]]
      /\ b \in Seq(1 .. m) /\ Len(b) = w /\ x[2] = Valued(v, b)
      /\ x[2] \in Seq(BOOLEAN) /\ Len(x[2]) = w
      /\ \A i \in 1 .. w : x[2][i] = v[b[i]]
  <2>1. op \in Bitwise \cup OneBit \cup Chained /\ op \notin {"bitneg", "logicneg"}
    BY DEF Chained
  <2>2. w = Len(args[1])
    OBVIOUS
  <2> HIDE DEF w
  <2>3. Operand(v, a, x[1], m, w) /\ Operand(v, b, x[2], m, w)
    BY <2>1, <2>2, OperandFacts
  <2> HIDE DEF x, a, b
  <2> QED BY <2>3 DEF Operand
<1> HIDE DEF x
<1>2. Vectors(m, v, w, a, b) /\ Vectors(m, v, w, b, a)
  BY <1>1 DEF Vectors
<1>3. Number(x[1]) = Number(x[2]) <=> \A i \in 1 .. w : x[1][i] = x[2][i]
  <2> DEFINE s == x[1]
             t == x[2]
  <2>1. s \in Seq(BOOLEAN) /\ Len(s) = w /\ t \in Seq(BOOLEAN) /\ Len(t) = w /\ w \in Nat
    BY <1>1
  <2> HIDE DEF s, t
  <2>2. Number(s) = Number(t) <=> \A i \in 1 .. w : s[i] = t[i]
    BY <2>1, SameNumber
  <2> QED BY <2>2 DEF s, t
<1>4. CASE op = "lt"
  <2>1. Operator(op, args, n) = Code(<<n>>, Less(n, a, b), n + w)
    BY <1>4, OperatorCode
  <2>2. Applied(op, x) = <<Number(x[1]) < Number(x[2])>>
    BY <1>4, AppliedBit
  <2> HIDE DEF a, b, w
  <2>3. n + w - 1 <= m /\ n \in 1 .. m /\ SatisfiesAll(v, Less(n, a, b))
    BY <1>1, <2>1 DEF Code
  <2>4. v[n] <=> Number(Valued(v, a)) < Number(Valued(v, b))
    BY <1>1, <2>3, <1>2, LessNumber
  <2> DEFINE less == Number(x[1]) < Number(x[2])
  <2>5. less \in BOOLEAN /\ (v[n] <=> less)
    BY <1>1, <2>4
  <2> HIDE DEF less
  <2>6. Valued(v, <<n>>) = <<less>>
    BY <2>3, <2>5, OneValued
  <2> QED BY <2>1, <2>2, <2>6 DEF x, less, Code
<1>5. CASE op = "gt"
  <2>1. Operator(op, args, n) = Code(<<n>>, Greater(n, a, b), n + w)
    BY <1>5, OperatorCode
  <2>2. Applied(op, x) = <<Number(x[1]) > Number(x[2])>>
    BY <1>5, AppliedBit
  <2> HIDE DEF a, b, w
  <2>3. n + w - 1 <= m /\ n \in 1 .. m /\ w \in Nat /\ SatisfiesAll(v, Greater(n, a, b))
    BY <1>1, <2>1 DEF Code
  <2>4. Greater(n, a, b) = Less(n, b, a)
    <3>1. DOMAIN a = DOMAIN b /\ Len(a) = Len(b)
      BY <1>1
    <3> QED BY ONLY <3>1, GreaterIsLess
  <2>5. v[n] <=> Number(Valued(v, b)) < Number(Valued(v, a))
    BY <1>1, <2>3, <2>4, <1>2, LessNumber
  <2> DEFINE more == Number(x[1]) > Number(x[2])
  <2>6. more \in BOOLEAN /\ (v[n] <=> more)
    <3>1. Number(x[1]) \in Nat /\ Number(x[2]) \in Nat
      BY <1>1, NumberIs, SMTT(30)
    <3> QED BY <1>1, <2>5, <3>1
  <2> HIDE DEF more
  <2>7. Valued(v, <<n>>) = <<more>>
    BY <2>3, <2>6, OneValued
  <2> QED BY <2>1, <2>2, <2>7 DEF x, more, Code
<1>6. CASE op = "logic_equ"
  <2>1. Operator(op, args, n) = Code(<<n + w>>, encode_EQUV_res(n, a, b), n + w + 1)
    BY <1>6, OperatorCode
  <2>2. Applied(op, x) = <<Number(x[1]) = Number(x[2])>>
    BY <1>6, AppliedBit
  <2> HIDE DEF a, b, w
  <2> DEFINE res == n + w
  <2>3. res <= m /\ res \in 1 .. m /\ w \in Nat /\ SatisfiesAll(v, encode_EQUV_res(n, a, b))
    BY <1>1, <2>1 DEF Code
  <2>4. /\ \A i \in 1 .. w : v[n + i - 1] <=> (v[a[i]] <=> v[b[i]])
        /\ v[res] <=> \A i \in 1 .. w : v[n + i - 1]
    <3>1. n + w <= m
      BY <2>3
    <3>2. Pair(m, v, w, a, b)
      BY <1>2 DEF Vectors, Pair
    <3>3. AllEqual(v, w, a, b, n)
      BY <2>3, <3>1, <3>2, EquvInevMeaning
    <3> QED BY <3>3 DEF AllEqual
  <2> HIDE DEF res
  <2>5. v[res] <=> \A i \in 1 .. w : x[1][i] = x[2][i]
    <3>1. \A i \in 1 .. w : x[1][i] \in BOOLEAN /\ x[2][i] \in BOOLEAN
      BY <1>1
    <3>2. \A i \in 1 .. w : (v[a[i]] <=> v[b[i]]) <=> x[1][i] = x[2][i]
      BY <1>1, <3>1
    <3> QED BY <2>4, <3>2
  <2> DEFINE same == Number(x[1]) = Number(x[2])
  <2>6. same \in BOOLEAN /\ (v[res] <=> same)
    BY <1>3, <2>5
  <2> HIDE DEF same
  <2>7. Valued(v, <<res>>) = <<same>>
    BY <2>3, <2>6, OneValued
  <2> QED BY <2>1, <2>2, <2>7 DEF x, same, Code, res
<1>7. CASE op = "logic_ine"
  <2>1. Operator(op, args, n) = Code(<<n + w>>, encode_INEV_res(n, a, b), n + w + 1)
    BY <1>7, OperatorCode
  <2>2. Applied(op, x) = <<Number(x[1]) # Number(x[2])>>
    BY <1>7, AppliedBit
  <2> HIDE DEF a, b, w
  <2> DEFINE res == n + w
  <2>3. res <= m /\ res \in 1 .. m /\ w \in Nat /\ SatisfiesAll(v, encode_INEV_res(n, a, b))
    BY <1>1, <2>1 DEF Code
  <2>4. /\ \A i \in 1 .. w : v[n + i - 1] <=> ~(v[a[i]] <=> v[b[i]])
        /\ v[res] <=> \E i \in 1 .. w : v[n + i - 1]
    <3>1. n + w <= m
      BY <2>3
    <3>2. Pair(m, v, w, a, b)
      BY <1>2 DEF Vectors, Pair
    <3>3. SomeDiffer(v, w, a, b, n)
      BY <2>3, <3>1, <3>2, EquvInevMeaning
    <3> QED BY <3>3 DEF SomeDiffer
  <2> HIDE DEF res
  <2>5. v[res] <=> ~\A i \in 1 .. w : x[1][i] = x[2][i]
    <3>1. \A i \in 1 .. w : x[1][i] \in BOOLEAN /\ x[2][i] \in BOOLEAN
      BY <1>1
    <3>2. \A i \in 1 .. w : (v[a[i]] <=> v[b[i]]) <=> x[1][i] = x[2][i]
      BY <1>1, <3>1
    <3> QED BY <2>4, <3>2
  <2> DEFINE other == Number(x[1]) # Number(x[2])
  <2>6. other \in BOOLEAN /\ (v[res] <=> other)
    BY <1>3, <2>5
  <2> HIDE DEF other
  <2>7. Valued(v, <<res>>) = <<other>>
    BY <2>3, <2>6, OneValued
  <2> QED BY <2>1, <2>2, <2>7 DEF x, other, Code, res
<1>8. CASE op = "add2"
  <2>1. Operator(op, args, n) = Code(Fresh(n, w), encode_ADD(n, a, b), n + w + w)
    BY <1>8, OperatorCode
  <2>2. Applied(op, x) = Sum(x[1], x[2])
    BY <1>8, AppliedBit
  <2> HIDE DEF a, b, w
  <2>3. n + w + w - 1 <= m /\ SatisfiesAll(v, encode_ADD(n, a, b))
    BY <1>1, <2>1 DEF Code
  <2>4. Valued(v, Fresh(n, w)) = Sum(Valued(v, a), Valued(v, b))
    BY <1>1, <2>3, <1>2, AddNumber
  <2> QED BY <1>1, <2>1, <2>2, <2>4 DEF x, Code
<1> QED BY <1>4, <1>5, <1>6, <1>7, <1>8 DEF Chained

(***************************************************************************)
(* What encode_exp of elabmod.ml writes for an operator: in every          *)
(* valuation of the clauses in which FALSE is false, the variables of the  *)
(* result have the value of the operator on the values of its operands.    *)
(***************************************************************************)
THEOREM OperatorMeaning ==
  ASSUME NEW m \in Nat, NEW v \in [1 .. m -> BOOLEAN], ~v[falsepred],
         NEW op \in Bitwise \cup OneBit \cup Chained, NEW args, Fits(op, args, m),
         NEW n \in Nat, falsepred < n, Operator(op, args, n).last - 1 <= m,
         SatisfiesAll(v, Operator(op, args, n).clauses)
  PROVE  Valued(v, Operator(op, args, n).bits) = Applied(op, Values(v, args))
<1>1. n \in Nat \ {0}
  BY DEF falsepred
<1>2. CASE op \in Bitwise
  BY <1>1, <1>2, BitwiseMeaning
<1>3. CASE op \in OneBit
  BY <1>1, <1>3, OneBitMeaning
<1>4. CASE op \in Chained
  <2>1. falsepred <= m
    <3> DEFINE w == Len(args[1])
               end == Operator(op, args, n).last
    <3>1. w \in Nat \ {0}
      BY FitsFacts
    <3>2. end \in {n + w, n + w + w, n + w + 1}
      <4>1. /\ Operator("add2", args, n).last = n + w + w
            /\ Operator("lt", args, n).last = n + w
            /\ Operator("gt", args, n).last = n + w
            /\ Operator("logic_equ", args, n).last = n + w + 1
            /\ Operator("logic_ine", args, n).last = n + w + 1
        <5> HIDE DEF w
        <5>1. /\ Operator("add2", args, n) = Code(Fresh(n, w), encode_ADD(n, args[1], args[2]), n + w + w)
              /\ Operator("lt", args, n) = Code(<<n>>, Less(n, args[1], args[2]), n + w)
              /\ Operator("gt", args, n) = Code(<<n>>, Greater(n, args[1], args[2]), n + w)
              /\ Operator("logic_equ", args, n)
                   = Code(<<n + w>>, encode_EQUV_res(n, args[1], args[2]), n + w + 1)
              /\ Operator("logic_ine", args, n)
                   = Code(<<n + w>>, encode_INEV_res(n, args[1], args[2]), n + w + 1)
          BY OperatorCode DEF w
        <5> QED BY <5>1 DEF Code
      <4> QED BY <1>4, <4>1 DEF Chained
    <3> HIDE DEF w, end
    <3>3. end - 1 <= m
      BY DEF end
    <3> QED BY <3>1, <3>2, <3>3 DEF falsepred
  <2> QED BY <1>1, <1>4, <2>1, ChainedMeaning
<1> QED BY <1>2, <1>3, <1>4

(***************************************************************************)
(* The reductions of encode_exp: the clauses hold exactly if the result is *)
(* the reduction of the bits.                                              *)
(***************************************************************************)
THEOREM ReductionMeaning ==
  ASSUME NEW m \in Nat, NEW v \in [1 .. m -> BOOLEAN], NEW op \in Reductions,
         NEW res \in 1 .. m, NEW bits \in Seq(1 .. m)
  PROVE  SatisfiesAll(v, Reduction(op, res, bits))
           <=> <<v[res]>> = Applied(op, <<Valued(v, bits)>>)
<1> DEFINE w == Len(bits)
           a == Valued(v, bits)
           x == <<a>>
<1>1. w \in Nat /\ DOMAIN bits = 1 .. w
  OBVIOUS
<1>2. Len(a) = w /\ \A i \in 1 .. w : a[i] = v[bits[i]]
  <2>1. w = Len(bits)
    OBVIOUS
  <2> HIDE DEF w
  <2> QED BY <1>1, <2>1, ValuedFacts
<1>3. v[res] \in BOOLEAN /\ x[1] = a
  OBVIOUS
<1>10. /\ SatisfiesAll(v, encode_Red_NAND(res, bits))
              <=> (v[res] <=> \E i \in DOMAIN bits : ~v[bits[i]])
       /\ SatisfiesAll(v, encode_Red_OR(res, bits))
              <=> (v[res] <=> \E i \in DOMAIN bits : v[bits[i]])
       /\ SatisfiesAll(v, encode_Red_NOR(res, bits))
              <=> (v[res] <=> \A i \in DOMAIN bits : ~v[bits[i]])
  BY RedMeaning
<1> HIDE DEF a, w
<1>4. \A c \in BOOLEAN : <<v[res]>> = <<c>> <=> (v[res] <=> c)
  BY <1>3
<1>5. CASE op = "reduce_and"
  <2>1. Applied(op, x) = <<\A k \in 1 .. w : a[k]>>
    BY <1>2, <1>5 DEF Applied
  <2>2. (\A k \in 1 .. w : a[k]) <=> \A i \in DOMAIN bits : v[bits[i]]
    BY <1>1, <1>2
  <2>3. Reduction(op, res, bits) = encode_Red_AND(res, bits)
    BY <1>5 DEF Reduction
  <2>4. SatisfiesAll(v, encode_Red_AND(res, bits)) <=> (v[res] <=> \A i \in DOMAIN bits : v[bits[i]])
    BY RedAndMeaning
  <2> DEFINE c == \A k \in 1 .. w : a[k]
  <2>5. c \in BOOLEAN
    OBVIOUS
  <2>6. <<v[res]>> = <<c>> <=> (v[res] <=> c)
    BY <1>4, <2>5
  <2> QED BY <2>1, <2>2, <2>3, <2>4, <2>6 DEF a
<1>6. CASE op = "reduce_nand"
  <2>1. Applied(op, x) = <<\E k \in 1 .. w : ~a[k]>>
    BY <1>2, <1>6 DEF Applied
  <2>2. (\E k \in 1 .. w : ~a[k]) <=> \E i \in DOMAIN bits : ~v[bits[i]]
    BY <1>1, <1>2
  <2>3. Reduction(op, res, bits) = encode_Red_NAND(res, bits)
    BY <1>6 DEF Reduction
  <2>4. SatisfiesAll(v, encode_Red_NAND(res, bits)) <=> (v[res] <=> \E i \in DOMAIN bits : ~v[bits[i]])
    BY <1>10
  <2> DEFINE c == \E k \in 1 .. w : ~a[k]
  <2>5. c \in BOOLEAN
    OBVIOUS
  <2>6. <<v[res]>> = <<c>> <=> (v[res] <=> c)
    BY <1>4, <2>5
  <2> QED BY <2>1, <2>2, <2>3, <2>4, <2>6 DEF a
<1>7. CASE op = "reduce_or"
  <2>1. Applied(op, x) = <<\E k \in 1 .. w : a[k]>>
    BY <1>2, <1>7 DEF Applied
  <2>2. (\E k \in 1 .. w : a[k]) <=> \E i \in DOMAIN bits : v[bits[i]]
    BY <1>1, <1>2
  <2>3. Reduction(op, res, bits) = encode_Red_OR(res, bits)
    BY <1>7 DEF Reduction
  <2>4. SatisfiesAll(v, encode_Red_OR(res, bits)) <=> (v[res] <=> \E i \in DOMAIN bits : v[bits[i]])
    BY <1>10
  <2> DEFINE c == \E k \in 1 .. w : a[k]
  <2>5. c \in BOOLEAN
    OBVIOUS
  <2>6. <<v[res]>> = <<c>> <=> (v[res] <=> c)
    BY <1>4, <2>5
  <2> QED BY <2>1, <2>2, <2>3, <2>4, <2>6 DEF a
<1>8. CASE op = "reduce_nor"
  <2>1. Applied(op, x) = <<\A k \in 1 .. w : ~a[k]>>
    BY <1>2, <1>8 DEF Applied
  <2>2. (\A k \in 1 .. w : ~a[k]) <=> \A i \in DOMAIN bits : ~v[bits[i]]
    BY <1>1, <1>2
  <2>3. Reduction(op, res, bits) = encode_Red_NOR(res, bits)
    BY <1>8 DEF Reduction
  <2>4. SatisfiesAll(v, encode_Red_NOR(res, bits)) <=> (v[res] <=> \A i \in DOMAIN bits : ~v[bits[i]])
    BY <1>10
  <2> DEFINE c == \A k \in 1 .. w : ~a[k]
  <2>5. c \in BOOLEAN
    OBVIOUS
  <2>6. <<v[res]>> = <<c>> <=> (v[res] <=> c)
    BY <1>4, <2>5
  <2> QED BY <2>1, <2>2, <2>3, <2>4, <2>6 DEF a
<1> QED BY <1>5, <1>6, <1>7, <1>8 DEF Reductions

(***************************************************************************)
(* Valuations that differ in the variables of one operator only.           *)
(***************************************************************************)
Agree(u, v, m, index, end) ==
  /\ u \in [1 .. m -> BOOLEAN]
  /\ \A k \in 1 .. m : k < index \/ k >= end => u[k] = v[k]

\* u is v with the w bits s from index on.
Patch(u, v, m, index, w, s) ==
  Agree(u, v, m, index, index + w) /\ \A i \in 1 .. w : u[index + i - 1] = s[i]

\* Vectors of w variables below index.
Below(w, a, b, index) == \A i \in 1 .. w : a[i] < index /\ b[i] < index

\* The variables of two vectors have the same values.
SameOn(u, v, w, a, b) == \A i \in 1 .. w : u[a[i]] = v[a[i]] /\ u[b[i]] = v[b[i]]

LEMMA Patched ==
  ASSUME NEW m \in Nat, NEW v \in [1 .. m -> BOOLEAN], NEW index \in Nat \ {0}, NEW w \in Nat,
         index + w - 1 <= m, NEW s \in [1 .. w -> BOOLEAN]
  PROVE  \E u : Patch(u, v, m, index, w, s)
<1> DEFINE u == [k \in 1 .. m |-> IF k < index \/ k >= index + w THEN v[k] ELSE s[k - index + 1]]
<1>1. ASSUME NEW k \in 1 .. m, ~(k < index \/ k >= index + w)
      PROVE  k - index + 1 \in 1 .. w /\ s[k - index + 1] \in BOOLEAN
  <2>1. k - index + 1 \in 1 .. w
    BY <1>1
  <2> QED BY <2>1
<1>2. u \in [1 .. m -> BOOLEAN]
  BY <1>1
<1>3. \A k \in 1 .. m : k < index \/ k >= index + w => u[k] = v[k]
  OBVIOUS
<1>4. ASSUME NEW i \in 1 .. w PROVE u[index + i - 1] = s[i]
  <2> DEFINE k == index + i - 1
  <2>1. k \in 1 .. m /\ ~(k < index \/ k >= index + w) /\ k - index + 1 = i
    OBVIOUS
  <2> HIDE DEF k
  <2>2. u[k] = s[k - index + 1]
    BY <2>1
  <2> QED BY <2>1, <2>2 DEF k
<1> HIDE DEF u
<1> QED BY <1>2, <1>3, <1>4 DEF Agree, Patch

LEMMA AgreeTwice ==
  ASSUME NEW m \in Nat, NEW x, NEW u, NEW v, NEW index \in Nat, NEW w \in Nat, NEW d \in Nat,
         Agree(u, v, m, index, index + w), Agree(x, u, m, index + w, index + w + d)
  PROVE  /\ Agree(x, v, m, index, index + w + d)
         /\ \A k \in 1 .. m : k < index + w => x[k] = u[k]
BY DEF Agree

LEMMA KeptPair ==
  ASSUME NEW m, NEW v, NEW u, NEW w, NEW a, NEW b, NEW index \in Nat, NEW end \in Nat,
         Pair(m, v, w, a, b), Agree(u, v, m, index, end), Below(w, a, b, index)
  PROVE  Pair(m, u, w, a, b) /\ SameOn(u, v, w, a, b)
<1> USE DEF Pair, Below, SameOn
<1>1. \A i \in 1 .. w : a[i] \in 1 .. m /\ b[i] \in 1 .. m
  OBVIOUS
<1> QED BY <1>1 DEF Agree

\* Operands below the variables of the operator keep their values.
LEMMA KeptVectors ==
  ASSUME NEW m, NEW v, NEW u, NEW w, NEW a, NEW b, NEW index \in Nat, NEW end \in Nat,
         Vectors(m, v, w, a, b), Agree(u, v, m, index, end), falsepred < index,
         Below(w, a, b, index)
  PROVE  Vectors(m, u, w, a, b) /\ SameOn(u, v, w, a, b)
<1> USE DEF Vectors, Below, SameOn
<1>1. \A i \in 1 .. w : a[i] \in 1 .. m /\ b[i] \in 1 .. m
  OBVIOUS
<1>2. falsepred \in 1 .. m
  BY DEF falsepred
<1> QED BY <1>1, <1>2 DEF Agree

LEMMA KeptOperands ==
  ASSUME NEW op, NEW args, NEW n \in Nat, Fits(op, args, n), NEW u, NEW v,
         \A k \in 1 .. n : u[k] = v[k]
  PROVE  Values(u, args) = Values(v, args)
<1> DEFINE S == Seq(1 .. n)
<1>1. args \in Seq(S)
  BY DEF Fits
<1>2. \A s \in S : Valued(u, s) = Valued(v, s)
  <2> SUFFICES ASSUME NEW s \in S PROVE Valued(u, s) = Valued(v, s)
    OBVIOUS
  <2>1. \A i \in DOMAIN s : u[s[i]] = v[s[i]]
    OBVIOUS
  <2> QED BY <2>1 DEF Valued
<1> HIDE DEF S
<1>3. \A k \in DOMAIN args : args[k] \in S
  BY <1>1
<1> QED BY <1>2, <1>3 DEF Values

LEMMA MoreFits ==
  ASSUME NEW op, NEW args, NEW n \in Nat, Fits(op, args, n), NEW m \in Nat, n <= m
  PROVE  Fits(op, args, m)
<1> DEFINE S == Seq(1 .. n)
           T == Seq(1 .. m)
<1>1. args \in Seq(S) /\ S \subseteq T
  BY DEF Fits
<1> HIDE DEF S, T
<1>2. args \in Seq(T)
  BY <1>1
<1> QED BY <1>2 DEF Fits, T

LEMMA LessExtends ==
  ASSUME NEW m, NEW v, NEW w, NEW a, NEW b, Vectors(m, v, w, a, b),
         NEW index \in Nat, falsepred < index, index + w - 1 <= m,
         Below(w, a, b, index)
  PROVE  \E u : Agree(u, v, m, index, index + w) /\ SatisfiesAll(u, Less(index, a, b))
<1>0. /\ m \in Nat /\ v \in [1 .. m -> BOOLEAN] /\ w \in Nat \ {0} /\ index \in Nat \ {0}
      /\ a \in Seq(1 .. m) /\ b \in Seq(1 .. m) /\ Len(a) = w /\ Len(b) = w
      /\ falsepred <= m /\ index + w \in Nat
  BY DEF Vectors, falsepred
<1> DEFINE g == [i \in 1 .. w |-> [c \in BOOLEAN |-> (~v[a[i]] /\ v[b[i]]) \/ ((v[a[i]] <=> v[b[i]]) /\ c)]]
<1>1. g \in [1 .. w -> [BOOLEAN -> BOOLEAN]]
  OBVIOUS
<1>2. \A i \in 1 .. w : \A c \in BOOLEAN :
        g[i][c] = ((~v[a[i]] /\ v[b[i]]) \/ ((v[a[i]] <=> v[b[i]]) /\ c))
  OBVIOUS
<1> HIDE DEF g
<1>3. PICK t \in [1 .. w + 1 -> BOOLEAN] : ~t[w + 1] /\ \A k \in 1 .. w : t[k] = g[k][t[k + 1]]
  BY <1>0, <1>1, ChainExists
<1> DEFINE s == [i \in 1 .. w |-> t[i]]
<1>4. s \in [1 .. w -> BOOLEAN] /\ \A i \in 1 .. w : s[i] = t[i]
  BY <1>0
<1> HIDE DEF s
<1>5. PICK u : Agree(u, v, m, index, index + w) /\ \A i \in 1 .. w : u[index + i - 1] = s[i]
  <2>1. \E u : Patch(u, v, m, index, w, s)
    BY <1>0, <1>4, Patched
  <2> QED BY <2>1 DEF Patch
<1>6. /\ Vectors(m, u, w, a, b)
      /\ \A i \in 1 .. w : u[a[i]] = v[a[i]] /\ u[b[i]] = v[b[i]]
  <2> DEFINE end == index + w
  <2>1. end \in Nat /\ Agree(u, v, m, index, end)
    BY <1>0, <1>5
  <2> HIDE DEF end
  <2> QED BY <2>1, KeptVectors DEF SameOn
<1>7. u \in [1 .. m -> BOOLEAN] /\ ~u[falsepred]
  BY <1>5, <1>6 DEF Agree, Vectors
<1>8. ASSUME NEW i \in 1 .. w PROVE u[After(index, i, w)] = t[i + 1]
  <2>1. CASE i = w
    <3>1. After(index, i, w) = falsepred
      BY <1>0, <2>1, AfterFacts
    <3>2. falsepred \in 1 .. m
      BY <1>0 DEF falsepred
    <3>3. u[falsepred] \in BOOLEAN /\ t[i + 1] \in BOOLEAN
      BY <1>0, <1>7, <3>2
    <3> QED BY <1>3, <1>7, <2>1, <3>1, <3>3
  <2>2. CASE i # w
    <3>1. After(index, i, w) = index + (i + 1) - 1 /\ i + 1 \in 1 .. w
      BY <1>0, <2>2, AfterFacts
    <3> QED BY <1>4, <1>5, <3>1
  <2> QED BY <2>1, <2>2
<1>9. ASSUME NEW i \in 1 .. w
      PROVE  u[index + i - 1] <=> (~u[a[i]] /\ u[b[i]])
                                    \/ ((u[a[i]] <=> u[b[i]]) /\ u[After(index, i, w)])
  <2>1. t[i + 1] \in BOOLEAN
    BY <1>0
  <2>2. t[i] = ((~v[a[i]] /\ v[b[i]]) \/ ((v[a[i]] <=> v[b[i]]) /\ t[i + 1]))
    BY <1>2, <1>3, <2>1
  <2> QED BY <1>4, <1>5, <1>6, <1>8, <2>2
<1>10. SatisfiesAll(u, Less(index, a, b))
  <2>1. LessBits(u, w, a, b, index)
    BY <1>9 DEF LessBits
  <2> QED BY <1>0, <1>7, <2>1, LessMeaning
<1> QED BY <1>5, <1>10

LEMMA FullAdderResult ==
  ASSUME NEW a \in BOOLEAN, NEW b \in BOOLEAN, NEW c \in BOOLEAN
  PROVE  FullAdder(a, b, c, (a /\ b) \/ ((a \/ b) /\ c), a <=> (b <=> c))
<1>1. CASE a
  <2>1. CASE b
    <3>1. CASE c
      BY <1>1, <2>1, <3>1 DEF FullAdder, Bit
    <3>2. CASE ~c
      BY <1>1, <2>1, <3>2 DEF FullAdder, Bit
    <3> QED BY <3>1, <3>2
  <2>2. CASE ~b
    <3>1. CASE c
      BY <1>1, <2>2, <3>1 DEF FullAdder, Bit
    <3>2. CASE ~c
      BY <1>1, <2>2, <3>2 DEF FullAdder, Bit
    <3> QED BY <3>1, <3>2
  <2> QED BY <2>1, <2>2
<1>2. CASE ~a
  <2>1. CASE b
    <3>1. CASE c
      BY <1>2, <2>1, <3>1 DEF FullAdder, Bit
    <3>2. CASE ~c
      BY <1>2, <2>1, <3>2 DEF FullAdder, Bit
    <3> QED BY <3>1, <3>2
  <2>2. CASE ~b
    <3>1. CASE c
      BY <1>2, <2>2, <3>1 DEF FullAdder, Bit
    <3>2. CASE ~c
      BY <1>2, <2>2, <3>2 DEF FullAdder, Bit
    <3> QED BY <3>1, <3>2
  <2> QED BY <2>1, <2>2
<1> QED BY <1>1, <1>2

LEMMA AddExtends ==
  ASSUME NEW m, NEW v, NEW w, NEW a, NEW b, Vectors(m, v, w, a, b),
         NEW index \in Nat, falsepred < index, index + w + w - 1 <= m,
         Below(w, a, b, index)
  PROVE  \E u : Agree(u, v, m, index, index + w + w) /\ SatisfiesAll(u, encode_ADD(index, a, b))
<1> DEFINE cry == index + w
<1>0. /\ m \in Nat /\ v \in [1 .. m -> BOOLEAN] /\ w \in Nat \ {0} /\ index \in Nat \ {0}
      /\ a \in Seq(1 .. m) /\ b \in Seq(1 .. m) /\ Len(a) = w /\ Len(b) = w
      /\ falsepred <= m /\ cry \in Nat \ {0} /\ cry + w \in Nat /\ index < cry
      /\ index + w - 1 <= m /\ cry + w - 1 <= m
      /\ \A i \in 1 .. w : index + i - 1 \in 1 .. m /\ index + i - 1 < cry
  BY DEF Vectors, falsepred
<1> DEFINE x(i) == v[a[i]]
           y(i) == v[b[i]]
           g == [i \in 1 .. w |-> [c \in BOOLEAN |-> (x(i) /\ y(i)) \/ ((x(i) \/ y(i)) /\ c)]]
<1>1. \A i \in 1 .. w : x(i) \in BOOLEAN /\ y(i) \in BOOLEAN
  BY <1>0, SMTT(60)
<1> HIDE DEF x, y, cry
<1>2. g \in [1 .. w -> [BOOLEAN -> BOOLEAN]]
  BY <1>1
<1>3. \A i \in 1 .. w : \A c \in BOOLEAN : g[i][c] = ((x(i) /\ y(i)) \/ ((x(i) \/ y(i)) /\ c))
  OBVIOUS
<1> HIDE DEF g
<1>4. PICK t \in [1 .. w + 1 -> BOOLEAN] : ~t[w + 1] /\ \A k \in 1 .. w : t[k] = g[k][t[k + 1]]
  <2>1. w \in Nat
    BY <1>0
  <2> QED BY <1>2, <2>1, ChainExists
<1> DEFINE c == [i \in 1 .. w |-> t[i]]
           s == [i \in 1 .. w |-> (x(i) <=> (y(i) <=> t[i + 1]))]
<1>5. c \in [1 .. w -> BOOLEAN] /\ \A i \in 1 .. w : c[i] = t[i]
  BY <1>0
<1>6. s \in [1 .. w -> BOOLEAN] /\ \A i \in 1 .. w : s[i] = (x(i) <=> (y(i) <=> t[i + 1]))
  OBVIOUS
<1>7. ASSUME NEW i \in 1 .. w PROVE FullAdder(x(i), y(i), t[i + 1], c[i], s[i])
  <2> DEFINE x0 == x(i)
             y0 == y(i)
             z0 == t[i + 1]
  <2>1. x0 \in BOOLEAN /\ y0 \in BOOLEAN /\ z0 \in BOOLEAN
    BY <1>0, <1>1
  <2>2. c[i] = ((x0 /\ y0) \/ ((x0 \/ y0) /\ z0))
    BY <1>3, <1>4, <1>5, <2>1
  <2>3. s[i] = (x0 <=> (y0 <=> z0))
    BY <1>6
  <2> HIDE DEF x0, y0, z0, c, s
  <2>4. FullAdder(x0, y0, z0, (x0 /\ y0) \/ ((x0 \/ y0) /\ z0), x0 <=> (y0 <=> z0))
    BY <2>1, FullAdderResult
  <2>5. FullAdder(x0, y0, z0, c[i], s[i])
    BY <2>2, <2>3, <2>4
  <2> QED BY <2>5 DEF x0, y0, z0
<1> HIDE DEF c, s
<1>8. PICK u0 : Patch(u0, v, m, index, w, s)
  BY <1>0, <1>6, Patched
<1>9. /\ Agree(u0, v, m, index, cry) /\ \A i \in 1 .. w : u0[index + i - 1] = s[i]
  BY <1>8 DEF Patch, cry
<1>10. u0 \in [1 .. m -> BOOLEAN]
  BY <1>9 DEF Agree
<1>11. PICK u : Patch(u, u0, m, cry, w, c)
  BY <1>0, <1>5, <1>10, Patched
<1>12. /\ Agree(u, u0, m, cry, cry + w) /\ \A i \in 1 .. w : u[cry + i - 1] = c[i]
  BY <1>11 DEF Patch
<1>13. /\ Agree(u, v, m, index, cry + w)
       /\ \A k \in 1 .. m : k < cry => u[k] = u0[k]
  BY <1>0, <1>9, <1>12 DEF Agree
<1>14. \A i \in 1 .. w : u[index + i - 1] = s[i]
  BY <1>0, <1>9, <1>13
<1>15. Vectors(m, u, w, a, b) /\ \A i \in 1 .. w : u[a[i]] = x(i) /\ u[b[i]] = y(i)
  <2> DEFINE end == cry + w
  <2>1. end \in Nat /\ Agree(u, v, m, index, end)
    BY <1>0, <1>13
  <2> HIDE DEF end
  <2>2. Vectors(m, u, w, a, b) /\ SameOn(u, v, w, a, b)
    BY <2>1, KeptVectors
  <2> QED BY <2>2 DEF SameOn, x, y
<1>16. u \in [1 .. m -> BOOLEAN] /\ ~u[falsepred]
  BY <1>15 DEF Vectors
<1>17. ASSUME NEW i \in 1 .. w PROVE u[After(cry, i, w)] = t[i + 1]
  <2>1. CASE i = w
    <3>1. After(cry, i, w) = falsepred
      BY <1>0, <2>1, AfterFacts
    <3>2. falsepred \in 1 .. m
      BY <1>0 DEF falsepred
    <3>3. u[falsepred] \in BOOLEAN /\ t[i + 1] \in BOOLEAN
      BY <1>0, <1>16, <3>2
    <3> QED BY <1>4, <1>16, <2>1, <3>1, <3>3
  <2>2. CASE i # w
    <3>1. After(cry, i, w) = cry + (i + 1) - 1 /\ i + 1 \in 1 .. w
      BY <1>0, <2>2, AfterFacts
    <3> QED BY <1>5, <1>12, <3>1
  <2> QED BY <2>1, <2>2
<1>18. \A i \in 1 .. w :
         FullAdder(u[a[i]], u[b[i]], u[After(cry, i, w)], u[cry + i - 1], u[index + i - 1])
  BY <1>7, <1>12, <1>14, <1>15, <1>17
<1>19. SatisfiesAll(u, encode_ADD(index, a, b))
  <2>1. /\ m \in Nat /\ falsepred <= m /\ u \in [1 .. m -> BOOLEAN] /\ w \in Nat
        /\ a \in Seq(1 .. m) /\ b \in Seq(1 .. m) /\ Len(a) = w /\ Len(b) = w
        /\ index \in Nat \ {0} /\ index + w + w - 1 <= m
    BY <1>0, <1>16 DEF cry
  <2>2. SatisfiesAll(u, encode_ADD(index, a, b))
          <=> \A i \in 1 .. w :
                FullAdder(u[a[i]], u[b[i]], u[After(index + w, i, w)],
                          u[index + w + i - 1], u[index + i - 1])
    BY <2>1, AddMeaning
  <2> QED BY <1>18, <2>2 DEF cry
<1> QED BY <1>13, <1>19 DEF cry

\* The comparisons of all bits: the results of the bits, then the target.
LEMMA EqualExtends ==
  ASSUME NEW m, NEW v, NEW w, NEW a, NEW b, Pair(m, v, w, a, b),
         NEW index \in Nat \ {0}, index + w <= m,
         Below(w, a, b, index)
  PROVE  /\ \E u : Agree(u, v, m, index, index + w + 1) /\ SatisfiesAll(u, encode_EQUV_res(index, a, b))
         /\ \E u : Agree(u, v, m, index, index + w + 1) /\ SatisfiesAll(u, encode_INEV_res(index, a, b))
<1> DEFINE res == index + w
<1>0. /\ m \in Nat /\ v \in [1 .. m -> BOOLEAN] /\ w \in Nat
      /\ res \in 1 .. m /\ res \in Nat \ {0} /\ res + 1 - 1 <= m /\ index + w - 1 <= m /\ res + 1 \in Nat
      /\ \A i \in 1 .. w : index + i - 1 \in 1 .. m /\ index + i - 1 < res
      /\ index <= res
  BY DEF Pair
<1>1. ASSUME NEW s \in [1 .. w -> BOOLEAN], NEW c \in BOOLEAN
      PROVE  \E u : /\ Agree(u, v, m, index, res + 1)
                    /\ \A i \in 1 .. w : u[index + i - 1] = s[i]
                    /\ u[res] = c
                    /\ Pair(m, u, w, a, b) /\ SameOn(u, v, w, a, b)
  <2>1. PICK u0 : Patch(u0, v, m, index, w, s)
    <3> HIDE DEF res
    <3> QED BY <1>0, Patched
  <2>2. Agree(u0, v, m, index, res) /\ \A i \in 1 .. w : u0[index + i - 1] = s[i]
    BY <2>1 DEF Patch
  <2> DEFINE u == [u0 EXCEPT ![res] = c]
  <2> HIDE DEF res
  <2>3. /\ Agree(u, v, m, index, res + 1)
        /\ \A i \in 1 .. w : u[index + i - 1] = s[i]
        /\ u[res] = c
    <3>1. u0 \in [1 .. m -> BOOLEAN] /\ \A k \in 1 .. m : k < index \/ k >= res => u0[k] = v[k]
      BY <2>2 DEF Agree
    <3>2. u \in [1 .. m -> BOOLEAN] /\ u[res] = c /\ \A k \in 1 .. m : k # res => u[k] = u0[k]
      BY <1>0, <3>1
    <3> HIDE DEF u
    <3>3. \A k \in 1 .. m : k < index \/ k >= res + 1 => u[k] = v[k]
      BY <1>0, <3>1, <3>2
    <3>4. \A i \in 1 .. w : u[index + i - 1] = s[i]
      <4>1. ASSUME NEW i \in 1 .. w PROVE u[index + i - 1] = u0[index + i - 1]
        <5> DEFINE k == index + i - 1
        <5>1. k \in 1 .. m /\ k < res
          BY <1>0
        <5> HIDE DEF k
        <5>2. u[k] = u0[k]
          BY <1>0, <3>2, <5>1
        <5> QED BY <5>2 DEF k
      <4> QED BY <2>2, <4>1
    <3> QED BY <3>2, <3>3, <3>4 DEF Agree
  <2>4. Pair(m, u, w, a, b) /\ SameOn(u, v, w, a, b)
    <3> DEFINE end == res + 1
    <3>1. end \in Nat /\ Agree(u, v, m, index, end)
      BY <1>0, <2>3
    <3> HIDE DEF end, u
    <3> QED BY <3>1, KeptPair
  <2> QED BY <2>3, <2>4
<1>2. \E u : Agree(u, v, m, index, res + 1) /\ SatisfiesAll(u, encode_EQUV_res(index, a, b))
  <2> DEFINE s == [i \in 1 .. w |-> (v[a[i]] <=> v[b[i]])]
             c == \A i \in 1 .. w : s[i]
  <2>1. s \in [1 .. w -> BOOLEAN] /\ c \in BOOLEAN
    OBVIOUS
  <2>2. \A i \in 1 .. w : s[i] = (v[a[i]] <=> v[b[i]])
    OBVIOUS
  <2> HIDE DEF s
  <2>3. PICK u : /\ Agree(u, v, m, index, res + 1)
                 /\ \A i \in 1 .. w : u[index + i - 1] = s[i]
                 /\ u[res] = c
                 /\ Pair(m, u, w, a, b) /\ SameOn(u, v, w, a, b)
    <3> HIDE DEF c, res
    <3> QED BY <1>1, <2>1
  <2>4. AllEqual(u, w, a, b, index)
    BY <2>2, <2>3, ZenonT(60) DEF AllEqual, SameOn
  <2>5. SatisfiesAll(u, encode_EQUV_res(index, a, b))
    BY <1>0, <2>3, <2>4, EquvInevMeaning
  <2> QED BY <2>3, <2>5
<1>3. \E u : Agree(u, v, m, index, res + 1) /\ SatisfiesAll(u, encode_INEV_res(index, a, b))
  <2> DEFINE s == [i \in 1 .. w |-> ~(v[a[i]] <=> v[b[i]])]
             c == \E i \in 1 .. w : s[i]
  <2>1. s \in [1 .. w -> BOOLEAN] /\ c \in BOOLEAN
    OBVIOUS
  <2>2. \A i \in 1 .. w : s[i] = ~(v[a[i]] <=> v[b[i]])
    OBVIOUS
  <2> HIDE DEF s
  <2>3. PICK u : /\ Agree(u, v, m, index, res + 1)
                 /\ \A i \in 1 .. w : u[index + i - 1] = s[i]
                 /\ u[res] = c
                 /\ Pair(m, u, w, a, b) /\ SameOn(u, v, w, a, b)
    <3> HIDE DEF c, res
    <3> QED BY <1>1, <2>1
  <2>4. SomeDiffer(u, w, a, b, index)
    BY <2>2, <2>3 DEF SomeDiffer, SameOn
  <2>5. SatisfiesAll(u, encode_INEV_res(index, a, b))
    BY <1>0, <2>3, <2>4, EquvInevMeaning
  <2> QED BY <2>3, <2>5
<1> QED BY <1>2, <1>3

LEMMA AppliedTyped ==
  ASSUME NEW m \in Nat, NEW v \in [1 .. m -> BOOLEAN], NEW op \in Bitwise \cup OneBit, NEW args,
         Fits(op, args, m), NEW w, w = Len(args[1])
  PROVE  Applied(op, Values(v, args)) \in [1 .. w -> BOOLEAN]
<1> DEFINE x == Values(v, args)
<1>1. /\ w \in Nat \ {0}
      /\ x[1] \in Seq(BOOLEAN) /\ Len(x[1]) = w
      /\ op \notin {"logicneg", "bitneg"} => x[2] \in Seq(BOOLEAN) /\ Len(x[2]) = w
  <2>1. op \in Bitwise \cup OneBit \cup Chained
    OBVIOUS
  <2>2. /\ Operand(v, args[1], x[1], m, w)
        /\ op \notin {"logicneg", "bitneg"} => Operand(v, args[2], x[2], m, w)
    BY <2>1, OperandFacts
  <2> HIDE DEF x
  <2> QED BY <2>2 DEF Operand
<1> HIDE DEF x
<1>2. x[1] \in [1 .. w -> BOOLEAN]
  BY <1>1
<1>3. op \notin {"logicneg", "bitneg"} => x[2] \in [1 .. w -> BOOLEAN]
  BY <1>1
<1>4. \A i \in 1 .. w : x[1][i] \in BOOLEAN
  BY <1>2
<1>5. op \notin {"logicneg", "bitneg"} => \A i \in 1 .. w : x[2][i] \in BOOLEAN
  BY <1>3
<1>6. CASE op = "bitneg"
  <2>1. Applied(op, x) = [k \in 1 .. w |-> ~x[1][k]]
    <3>1. Applied("bitneg", x) = [k \in 1 .. Len(x[1]) |-> ~x[1][k]]
      BY AppliedBits
    <3> QED BY <1>1, <1>6, <3>1
  <2> QED BY <2>1 DEF x
<1>7. CASE op = "bit_and2"
  <2>1. Applied(op, x) = [k \in 1 .. w |-> x[1][k] /\ x[2][k]]
    <3>1. Applied("bit_and2", x) = [k \in 1 .. Len(x[1]) |-> x[1][k] /\ x[2][k]]
      BY AppliedBits
    <3> QED BY <1>1, <1>7, <3>1
  <2> QED BY <2>1 DEF x
<1>8. CASE op = "bit_or2"
  <2>1. Applied(op, x) = [k \in 1 .. w |-> x[1][k] \/ x[2][k]]
    <3>1. Applied("bit_or2", x) = [k \in 1 .. Len(x[1]) |-> x[1][k] \/ x[2][k]]
      BY AppliedBits
    <3> QED BY <1>1, <1>8, <3>1
  <2> QED BY <2>1 DEF x
<1>9. CASE op = "bit_xor2"
  <2>1. Applied(op, x) = [k \in 1 .. w |-> x[1][k] # x[2][k]]
    <3>1. Applied("bit_xor2", x) = [k \in 1 .. Len(x[1]) |-> x[1][k] # x[2][k]]
      BY AppliedBits
    <3> QED BY <1>1, <1>9, <3>1
  <2>2. \A k \in 1 .. w : (x[1][k] # x[2][k]) \in BOOLEAN
    OBVIOUS
  <2> QED BY <2>1, <2>2 DEF x
<1>10. CASE op = "bit_equ"
  <2>1. Applied(op, x) = [k \in 1 .. w |-> x[1][k] = x[2][k]]
    <3>1. Applied("bit_equ", x) = [k \in 1 .. Len(x[1]) |-> x[1][k] = x[2][k]]
      BY AppliedBits
    <3> QED BY <1>1, <1>10, <3>1
  <2>2. \A k \in 1 .. w : (x[1][k] = x[2][k]) \in BOOLEAN
    OBVIOUS
  <2> QED BY <2>1, <2>2 DEF x
<1>11. CASE op = "selection"
  <2>1. Applied(op, x) = IF x[3][1] THEN x[1] ELSE x[2]
    BY <1>11, AppliedBits
  <2> QED BY <1>2, <1>3, <1>11, <2>1 DEF x
<1>12. CASE op \in OneBit
  <2>1. w = 1
    <3>1. op \in Bitwise \cup OneBit \cup Chained
      OBVIOUS
    <3> QED BY <1>12, <3>1, FitsFacts
  <2>2. \E c \in BOOLEAN : Applied(op, x) = <<c>>
    <3>1. Applied("logicneg", x) = <<~x[1][1]>>
      BY AppliedBit
    <3>2. Applied("logic_and2", x) = <<x[1][1] /\ x[2][1]>>
      BY AppliedBit
    <3>3. Applied("logic_or2", x) = <<x[1][1] \/ x[2][1]>>
      BY AppliedBit
    <3>4. (~x[1][1]) \in BOOLEAN /\ (x[1][1] /\ x[2][1]) \in BOOLEAN /\ (x[1][1] \/ x[2][1]) \in BOOLEAN
      OBVIOUS
    <3> QED BY <1>12, <3>1, <3>2, <3>3, <3>4 DEF OneBit
  <2>3. PICK c \in BOOLEAN : Applied(op, x) = <<c>>
    BY <2>2
  <2>4. <<c>> \in [1 .. 1 -> BOOLEAN]
    OBVIOUS
  <2> QED BY <2>1, <2>3, <2>4 DEF x
<1> QED BY <1>6, <1>7, <1>8, <1>9, <1>10, <1>11, <1>12 DEF Bitwise

\* The bits of the result, and the next variable, of an operator without inner variables.
LEMMA GatesCode ==
  ASSUME NEW m \in Nat, NEW op \in Bitwise \cup OneBit, NEW args, Fits(op, args, m),
         NEW n \in Nat
  PROVE  /\ Operator(op, args, n).bits = Fresh(n, Len(args[1]))
         /\ Operator(op, args, n).last = n + Len(args[1])
<1>1. CASE op \in Bitwise
  BY <1>1, BitwiseCode DEF Code, Bitwise
<1>2. CASE op \in OneBit
  <2>1. Len(args[1]) = 1
    <3>1. op \in Bitwise \cup OneBit \cup Chained
      OBVIOUS
    <3> QED BY <1>2, <3>1, FitsFacts
  <2>2. Fresh(n, 1) = <<n>>
    <3>1. n + 1 - 1 = n
      OBVIOUS
    <3>2. Fresh(n, 1) = [i \in 1 .. 1 |-> n + i - 1]
      BY DEF Fresh
    <3>3. <<n>> = [i \in 1 .. 1 |-> n]
      OBVIOUS
    <3>4. \A i \in 1 .. 1 : n + i - 1 = n
      BY <3>1
    <3> QED BY <3>2, <3>3, <3>4
  <2>3. /\ Operator("logicneg", args, n) = Code(<<n>>, encode_NEQ(n, args[1][1]), n + 1)
        /\ Operator("logic_and2", args, n)
             = Code(<<n>>, encode_Red_AND(n, <<args[1][1], args[2][1]>>), n + 1)
        /\ Operator("logic_or2", args, n)
             = Code(<<n>>, encode_Red_OR(n, <<args[1][1], args[2][1]>>), n + 1)
    BY OperatorCode, ZenonT(60)
  <2>4. \E c : Operator(op, args, n) = Code(<<n>>, c, n + 1)
    BY <1>2, <2>3, Zenon DEF OneBit
  <2> QED BY <2>1, <2>2, <2>4 DEF Code
<1> QED BY <1>1, <1>2

LEMMA SameBits ==
  ASSUME NEW S, NEW s \in [S -> BOOLEAN], NEW t \in [S -> BOOLEAN], \A i \in S : t[i] <=> s[i]
  PROVE  t = s
<1>1. \A i \in S : t[i] = s[i]
  OBVIOUS
<1> QED BY <1>1

LEMMA GatesExtend ==
  ASSUME NEW m \in Nat, NEW v \in [1 .. m -> BOOLEAN], NEW op \in Bitwise \cup OneBit, NEW args,
         NEW n \in Nat, falsepred < n, Fits(op, args, n - 1), Operator(op, args, n).last - 1 <= m
  PROVE  \E u : Agree(u, v, m, n, Operator(op, args, n).last)
                /\ SatisfiesAll(u, Operator(op, args, n).clauses)
<1> DEFINE w == Len(args[1])
           d == n - 1
<1>1. d \in Nat /\ n \in Nat \ {0} /\ Fits(op, args, d)
  BY DEF falsepred
<1>2. w = Len(args[1])
  OBVIOUS
<1> HIDE DEF w
<1>3. w \in Nat \ {0}
  <2> HIDE DEF d
  <2>1. op \in Bitwise \cup OneBit \cup Chained
    OBVIOUS
  <2> QED BY <1>1, <1>2, <2>1, FitsFacts
<1>4. Operator(op, args, n).bits = Fresh(n, w) /\ Operator(op, args, n).last = n + w
  <2> HIDE DEF d
  <2> QED BY <1>1, GatesCode DEF w
<1>5. n + w - 1 <= m /\ d <= m
  BY <1>3, <1>4
<1>6. Fits(op, args, m)
  <2> HIDE DEF d
  <2> QED BY <1>1, <1>5, MoreFits
<1> DEFINE s == Applied(op, Values(v, args))
<1>7. s \in [1 .. w -> BOOLEAN]
  BY <1>2, <1>6, AppliedTyped
<1> HIDE DEF s
<1>8. PICK u : Patch(u, v, m, n, w, s)
  BY <1>1, <1>3, <1>5, <1>7, Patched
<1>9. Agree(u, v, m, n, n + w) /\ \A i \in 1 .. w : u[n + i - 1] = s[i]
  BY <1>8 DEF Patch
<1>10. u \in [1 .. m -> BOOLEAN] /\ \A k \in 1 .. d : u[k] = v[k]
  BY <1>5, <1>9 DEF Agree
<1>11. Values(u, args) = Values(v, args)
  <2> HIDE DEF d
  <2> QED BY <1>1, <1>10, KeptOperands
<1>12. Valued(u, Fresh(n, w)) = s
  <2> DEFINE t == Valued(u, Fresh(n, w))
  <2>1. n + w - 1 <= m /\ w \in Nat /\ n \in Nat \ {0} /\ u \in [1 .. m -> BOOLEAN]
    BY <1>1, <1>3, <1>5, <1>10
  <2>2. t \in [1 .. w -> BOOLEAN] /\ \A i \in 1 .. w : t[i] = u[n + i - 1]
    BY <2>1, FreshValued
  <2> HIDE DEF t
  <2>3. \A i \in 1 .. w : t[i] <=> s[i]
    BY <1>9, <2>2
  <2>4. t = s
    BY <1>7, <2>2, <2>3, SameBits
  <2> QED BY <2>4 DEF t
<1>13. Valued(u, Operator(op, args, n).bits) = Applied(op, Values(u, args))
  BY <1>4, <1>11, <1>12 DEF s
<1>14. SatisfiesAll(u, Operator(op, args, n).clauses)
  <2>1. CASE op \in Bitwise
    BY <1>1, <1>6, <1>10, <1>13, <2>1, BitwiseMeaning
  <2>2. CASE op \in OneBit
    BY <1>1, <1>6, <1>10, <1>13, <2>2, OneBitMeaning
  <2> QED BY <2>1, <2>2
<1> QED BY <1>4, <1>9, <1>14

LEMMA ChainedExtend ==
  ASSUME NEW m \in Nat, NEW v \in [1 .. m -> BOOLEAN], ~v[falsepred], NEW op \in Chained, NEW args,
         NEW n \in Nat, falsepred < n, Fits(op, args, n - 1), Operator(op, args, n).last - 1 <= m
  PROVE  \E u : Agree(u, v, m, n, Operator(op, args, n).last)
                /\ SatisfiesAll(u, Operator(op, args, n).clauses)
<1> DEFINE w == Len(args[1])
           a == args[1]
           b == args[2]
           d == n - 1
           end == Operator(op, args, n).last
<1>1. d \in Nat /\ n \in Nat \ {0} /\ Fits(op, args, d) /\ d < n
  BY DEF falsepred
<1>2. /\ w \in Nat \ {0}
      /\ a \in Seq(1 .. d) /\ Len(a) = w
      /\ b \in Seq(1 .. d) /\ Len(b) = w
  <2>1. op \in Bitwise \cup OneBit \cup Chained /\ op \notin {"bitneg", "logicneg"}
    BY DEF Chained
  <2> HIDE DEF d
  <2> QED BY <1>1, <2>1, FitsFacts
<1> HIDE DEF a, b, w
<1>3. Below(w, a, b, n)
  BY <1>1, <1>2 DEF Below
<1>4. ASSUME n + w - 1 <= m PROVE Vectors(m, v, w, a, b) /\ Vectors(m, v, w, b, a)
  <2>1. d <= m /\ falsepred <= m
    BY <1>2, <1>4 DEF falsepred
  <2>2. a \in Seq(1 .. m) /\ b \in Seq(1 .. m)
    BY <1>1, <1>2, <2>1
  <2> QED BY <1>2, <2>1, <2>2 DEF Vectors
<1>5. CASE op = "lt"
  <2>1. Operator(op, args, n) = Code(<<n>>, Less(n, a, b), n + w)
    BY <1>5, OperatorCode DEF a, b, w
  <2>2. n + w - 1 <= m
    BY <1>2, <2>1 DEF Code
  <2>3. \E u : Agree(u, v, m, n, n + w) /\ SatisfiesAll(u, Less(n, a, b))
    BY <1>3, <1>4, <2>2, LessExtends
  <2> QED BY <2>1, <2>3 DEF Code
<1>6. CASE op = "gt"
  <2>1. Operator(op, args, n) = Code(<<n>>, Greater(n, a, b), n + w)
    BY <1>6, OperatorCode DEF a, b, w
  <2>2. n + w - 1 <= m
    BY <1>2, <2>1 DEF Code
  <2>3. Below(w, b, a, n)
    BY <1>3 DEF Below
  <2>4. \E u : Agree(u, v, m, n, n + w) /\ SatisfiesAll(u, Less(n, b, a))
    BY <1>4, <2>2, <2>3, LessExtends
  <2>5. Greater(n, a, b) = Less(n, b, a)
    <3>1. DOMAIN a = DOMAIN b /\ Len(a) = Len(b)
      BY <1>2
    <3> QED BY <3>1, GreaterIsLess
  <2> QED BY <2>1, <2>4, <2>5 DEF Code
<1>7. CASE op = "logic_equ"
  <2>1. Operator(op, args, n) = Code(<<n + w>>, encode_EQUV_res(n, a, b), n + w + 1)
    BY <1>7, OperatorCode DEF a, b, w
  <2>2. n + w <= m /\ n + w - 1 <= m
    BY <1>2, <2>1 DEF Code
  <2>3. Pair(m, v, w, a, b)
    BY <1>4, <2>2 DEF Vectors, Pair
  <2>4. \E u : Agree(u, v, m, n, n + w + 1) /\ SatisfiesAll(u, encode_EQUV_res(n, a, b))
    BY <1>1, <1>3, <2>2, <2>3, EqualExtends
  <2> QED BY <2>1, <2>4 DEF Code
<1>8. CASE op = "logic_ine"
  <2>1. Operator(op, args, n) = Code(<<n + w>>, encode_INEV_res(n, a, b), n + w + 1)
    BY <1>8, OperatorCode DEF a, b, w
  <2>2. n + w <= m /\ n + w - 1 <= m
    BY <1>2, <2>1 DEF Code
  <2>3. Pair(m, v, w, a, b)
    BY <1>4, <2>2 DEF Vectors, Pair
  <2>4. \E u : Agree(u, v, m, n, n + w + 1) /\ SatisfiesAll(u, encode_INEV_res(n, a, b))
    BY <1>1, <1>3, <2>2, <2>3, EqualExtends
  <2> QED BY <2>1, <2>4 DEF Code
<1>9. CASE op = "add2"
  <2>1. Operator(op, args, n) = Code(Fresh(n, w), encode_ADD(n, a, b), n + w + w)
    BY <1>9, OperatorCode DEF a, b, w
  <2>2. n + w + w - 1 <= m /\ n + w - 1 <= m
    BY <1>2, <2>1 DEF Code
  <2>3. \E u : Agree(u, v, m, n, n + w + w) /\ SatisfiesAll(u, encode_ADD(n, a, b))
    BY <1>3, <1>4, <2>2, AddExtends
  <2> QED BY <2>1, <2>3 DEF Code
<1> QED BY <1>5, <1>6, <1>7, <1>8, <1>9 DEF Chained

(***************************************************************************)
(* The clauses of an operator say nothing of its operands: every valuation *)
(* of the variables below n, in which FALSE is false, has an extension to  *)
(* the variables that encode_exp took for the operator, with no change to  *)
(* those after them.  (The other half of OperatorMeaning: an unsatisfiable *)
(* query is not unsatisfiable because of how its operators are encoded.)   *)
(***************************************************************************)
THEOREM OperatorExtends ==
  ASSUME NEW m \in Nat, NEW v \in [1 .. m -> BOOLEAN], ~v[falsepred],
         NEW op \in Bitwise \cup OneBit \cup Chained, NEW args,
         NEW n \in Nat, falsepred < n, Fits(op, args, n - 1), Operator(op, args, n).last - 1 <= m
  PROVE  \E u \in [1 .. m -> BOOLEAN] :
           /\ \A k \in 1 .. m : k < n \/ k >= Operator(op, args, n).last => u[k] = v[k]
           /\ SatisfiesAll(u, Operator(op, args, n).clauses)
<1>1. CASE op \in Bitwise \cup OneBit
  BY <1>1, GatesExtend DEF Agree
<1>2. CASE op \in Chained
  BY <1>2, ChainedExtend DEF Agree
<1> QED BY <1>1, <1>2

-----------------------------------------------------------------------------
(***************************************************************************)
(* Where the variables are.                                                *)
(***************************************************************************)
LEMMA Offset ==
  ASSUME NEW f \in Nat, NEW k \in Nat, NEW n \in Nat, k < n, NEW x \in 1 .. f
  PROVE  x + k * f \in 1 .. (n * f)
<1>1. PICK d \in Nat : n = k + 1 + d
  <2>1. n - k - 1 \in Nat /\ n = k + 1 + (n - k - 1)
    OBVIOUS
  <2> QED BY <2>1
<1>2. n * f = k * f + f + d * f
  BY <1>1
<1>3. k * f \in Nat /\ d * f \in Nat
  OBVIOUS
<1> QED BY <1>2, <1>3

LEMMA MoreVariables ==
  ASSUME NEW m \in Int, NEW n \in Int, m <= n, NEW c, IsClause(c, m)
  PROVE  IsClause(c, n)
BY DEF IsClause

LEMMA ShiftedClause ==
  ASSUME NEW f \in Nat, NEW k \in Nat, NEW n \in Nat, k < n, NEW c, IsClause(c, f - 2)
  PROVE  IsClause(ShiftClause(c, k * f), n * f)
<1> DEFINE off == k * f
           max == n * f
<1>1. \A x \in 1 .. f : x + off \in 1 .. max
  BY Offset
<1>2. off \in Int /\ max \in Int
  OBVIOUS
<1> HIDE DEF off, max
<1>3. \A x \in c : x > 0 => x + off \in 1 .. max
  BY <1>1 DEF IsClause
<1>4. \A x \in c : ~(x > 0) => -(x - off) \in 1 .. max
  <2> SUFFICES ASSUME NEW x \in c, ~(x > 0)
               PROVE  -(x - off) \in 1 .. max
    OBVIOUS
  <2>1. -x \in 1 .. f
    BY DEF IsClause
  <2>2. -(x - off) = -x + off
    BY <1>2, <2>1 DEF IsClause
  <2> QED BY <1>1, <2>1, <2>2
<1>5. \A x \in c : x \in Int
  BY DEF IsClause
<1>6. IsClause(ShiftClause(c, off), max)
  BY <1>2, <1>3, <1>4, <1>5 DEF IsClause, ShiftClause
<1> QED BY <1>6 DEF off, max

-----------------------------------------------------------------------------
(***************************************************************************)
(* Which variables the gates are about.                                    *)
(***************************************************************************)
LEMMA GateClauses ==
  ASSUME NEW n \in Nat, NEW res \in 1 .. n, NEW a \in 1 .. n, NEW b \in 1 .. n
  PROVE  /\ \A c \in encode_EQU(a, b) : IsClause(c, n)
         /\ \A c \in encode_EQU_res(res, a, b) : IsClause(c, n)
         /\ \A c \in encode_INE_res(res, a, b) : IsClause(c, n)
<1>1. \A x \in {res, a, b} : x \in Int /\ x # 0 /\ -x # 0 /\ -n <= x /\ x <= n /\ -n <= -x /\ -x <= n
  OBVIOUS
<1>2. \A c \in SUBSET {res, a, b, -res, -a, -b} : IsClause(c, n)
  BY <1>1 DEF IsClause
<1> QED BY <1>2 DEF encode_EQU, encode_EQU_res, encode_INE_res

LEMMA RedClauses ==
  ASSUME NEW n \in Nat, NEW res \in 1 .. n, NEW bits \in Seq(1 .. n)
  PROVE  /\ \A c \in encode_Red_AND(res, bits) : IsClause(c, n)
         /\ \A c \in encode_Red_OR(res, bits) : IsClause(c, n)
<1>1. Literals(bits) \subseteq 1 .. n
  BY DEF Literals
<1>2. \A x \in Negated(bits) : -x \in 1 .. n /\ x \in Int
  BY DEF Negated
<1> DEFINE lits == {x \in Int : x # 0 /\ -n <= x /\ x <= n}
<1>3. /\ Literals(bits) \subseteq lits
      /\ Negated(bits) \subseteq lits
      /\ res \in lits /\ -res \in lits
  BY <1>1, <1>2
<1>4. \A c \in SUBSET lits : IsClause(c, n)
  BY DEF IsClause
<1> HIDE DEF lits
<1>5. encode_Red_AND(res, bits) \cup encode_Red_OR(res, bits) \subseteq SUBSET lits
  BY <1>3 DEF encode_Red_AND, encode_Red_OR
<1> QED BY <1>4, <1>5

LEMMA EquvClauses ==
  ASSUME NEW n \in Nat, NEW a \in Seq(1 .. n), NEW b \in Seq(1 .. n), Len(a) = Len(b)
  PROVE  \A c \in encode_EQUV(a, b) : IsClause(c, n)
<1> SUFFICES ASSUME NEW i \in DOMAIN a, NEW c \in encode_EQU(a[i], b[i])
             PROVE  IsClause(c, n)
  BY DEF encode_EQUV
<1>1. a[i] \in 1 .. n
  OBVIOUS
<1>2. b[i] \in 1 .. n
  BY i \in DOMAIN b
<1> QED BY <1>1, <1>2, GateClauses

LEMMA EquvResClauses ==
  ASSUME NEW m \in Nat, NEW a \in Seq(1 .. m), NEW b \in Seq(1 .. m), Len(a) = Len(b),
         NEW index \in Nat, m < index
  PROVE  /\ \A c \in encode_EQUV_res(index, a, b) : IsClause(c, index + Len(a))
         /\ \A c \in encode_INEV(index, a, b) : IsClause(c, index + Len(a))
<1> DEFINE n == index + Len(a)
           bits == Fresh(index, Len(a))
<1>1. n \in Nat /\ n \in 1 .. n /\ m < n
  OBVIOUS
<1>2. bits \in Seq(1 .. n)
  BY DEF Fresh
<1>3. ASSUME NEW i \in DOMAIN a
      PROVE  index + i - 1 \in 1 .. n /\ a[i] \in 1 .. n /\ b[i] \in 1 .. n
  <2>1. i \in DOMAIN b
    OBVIOUS
  <2>2. a[i] \in 1 .. m /\ b[i] \in 1 .. m
    BY <2>1
  <2>3. i \in 1 .. Len(a)
    OBVIOUS
  <2> QED BY <1>1, <2>2, <2>3
<1>4. /\ \A c \in encode_Red_AND(n, bits) : IsClause(c, n)
      /\ \A c \in encode_Red_OR(n, bits) : IsClause(c, n)
  <2> HIDE DEF n, bits
  <2> QED BY <1>1, <1>2, RedClauses
<1>5. ASSUME NEW i \in DOMAIN a
      PROVE  /\ \A c \in encode_EQU_res(index + i - 1, a[i], b[i]) : IsClause(c, n)
             /\ \A c \in encode_INE_res(index + i - 1, a[i], b[i]) : IsClause(c, n)
  <2> DEFINE x == index + i - 1
             y == a[i]
             z == b[i]
  <2>1. x \in 1 .. n /\ y \in 1 .. n /\ z \in 1 .. n
    BY <1>3
  <2> HIDE DEF n, x, y, z
  <2>2. /\ \A c \in encode_EQU_res(x, y, z) : IsClause(c, n)
        /\ \A c \in encode_INE_res(x, y, z) : IsClause(c, n)
    BY <1>1, <2>1, GateClauses
  <2> QED BY <2>2 DEF x, y, z
<1>6. IsClause({n}, n)
  BY <1>1 DEF IsClause
<1> QED BY <1>4, <1>5, <1>6 DEF encode_EQUV_res, encode_INEV_res, encode_INEV

-----------------------------------------------------------------------------
(***************************************************************************)
(* The vectors and clauses of an unrolling of n frames.                    *)
(***************************************************************************)
LEMMA InstanceFacts ==
  ASSUME NEW e \in Instances
  PROVE  /\ e.final_index_oneinst \in Nat /\ e.final_index_oneinst > 3
         /\ \A c \in e.clause_list : IsClause(c, e.final_index_oneinst - 2)
         /\ e.dffs \in Seq([current : Nat \ {0}, width : Nat \ {0}])
         /\ \A k \in DOMAIN e.dffs :
              e.dffs[k].current + 2 * e.dffs[k].width <= e.final_index_oneinst - 1
         /\ e.instr \in Seq(1 .. (e.final_index_oneinst - 2))
         /\ e.outstr \in Seq(1 .. (e.final_index_oneinst - 2))
         /\ e.assertion \in Seq(1 .. (e.final_index_oneinst - 2))
BY InstanceAssumption DEF IsVector

LEMMA GenClauses ==
  ASSUME NEW e \in Instances, NEW n \in Nat
  PROVE  \A c \in gen_multiple_instance(e, n) : IsClause(c, n * e.final_index_oneinst)
<1> DEFINE f == e.final_index_oneinst
<1>1. f \in Nat /\ \A c \in e.clause_list : IsClause(c, f - 2)
  BY InstanceFacts
<1> SUFFICES ASSUME NEW k \in 0 .. (n - 1), NEW c \in e.clause_list
             PROVE  IsClause(ShiftClause(c, k * f), n * f)
  BY DEF gen_multiple_instance, encode_instance
<1>2. k \in Nat /\ k < n
  OBVIOUS
<1> HIDE DEF f
<1> QED BY <1>1, <1>2, ShiftedClause

LEMMA ConnectClauses ==
  ASSUME NEW e \in Instances, NEW n \in Nat, NEW first \in Nat, NEW end \in Nat, end < n
  PROVE  \A c \in connect_multiple_instance(e, first, end) :
           IsClause(c, n * e.final_index_oneinst)
<1> DEFINE f == e.final_index_oneinst
<1>1. /\ f \in Nat
      /\ e.dffs \in Seq([current : Nat \ {0}, width : Nat \ {0}])
      /\ \A j \in DOMAIN e.dffs : e.dffs[j].current + 2 * e.dffs[j].width <= f - 1
  BY InstanceFacts
<1> SUFFICES ASSUME NEW k \in first .. (end - 1), NEW j \in DOMAIN e.dffs,
                    NEW x \in e.dffs[j].current .. (e.dffs[j].current + e.dffs[j].width - 1),
                    NEW c \in encode_EQU(x + (k + 1) * f, x + k * f + e.dffs[j].width)
             PROVE  IsClause(c, n * f)
  BY DEF connect_multiple_instance, connect_dffpair
<1> DEFINE w == e.dffs[j].width
           current == e.dffs[j].current
<1>2. w \in Nat /\ current \in Nat \ {0} /\ current + 2 * w <= f - 1
  <2> DEFINE Dff == [current : Nat \ {0}, width : Nat \ {0}]
             d == e.dffs
  <2>1. e.dffs[j] \in Dff
    <3>1. d \in Seq(Dff) /\ j \in DOMAIN d
      BY <1>1
    <3> HIDE DEF Dff, d
    <3>2. d[j] \in Dff
      BY <3>1
    <3> QED BY <3>2 DEF d
  <2> QED BY <1>1, <2>1
<1>3. x \in 1 .. f /\ x + w \in 1 .. f
  <2>1. x \in Int /\ current <= x /\ x <= current + w - 1
    BY <1>2
  <2> HIDE DEF f, w, current
  <2> QED BY <1>1, <1>2, <2>1
<1>4. k \in Nat /\ k + 1 \in Nat /\ k < n /\ k + 1 < n
  OBVIOUS
<1> HIDE DEF f, w, current
<1> DEFINE y == x + (k + 1) * f
           z == x + k * f + w
           max == n * f
<1>5. y \in 1 .. max
  BY <1>1, <1>3, <1>4, Offset
<1>6. z \in 1 .. max
  <2>1. (x + w) + k * f \in 1 .. (n * f)
    BY <1>1, <1>3, <1>4, Offset
  <2>2. (x + w) + k * f = x + k * f + w
    BY <1>1, <1>2, <1>3, <1>4
  <2> QED BY <2>1, <2>2
<1>7. max \in Nat
  BY <1>1
<1>8. c \in encode_EQU(y, z)
  BY DEF w, f
<1> HIDE DEF y, z, max
<1>9. IsClause(c, max)
  BY <1>5, <1>6, <1>7, <1>8, GateClauses
<1> QED BY <1>9 DEF max

LEMMA AssertionClauses ==
  ASSUME NEW e \in Instances, NEW n \in Nat
  PROVE  \A c \in try_assertion(e, n) : IsClause(c, n * e.final_index_oneinst)
<1> DEFINE f == e.final_index_oneinst
<1>1. f \in Nat /\ e.assertion \in Seq(1 .. (f - 2))
  BY InstanceFacts
<1> SUFFICES ASSUME NEW k \in 0 .. (n - 1), NEW j \in DOMAIN e.assertion
             PROVE  IsClause({e.assertion[j] + k * f}, n * f)
  BY DEF try_assertion
<1>2. k \in Nat /\ k < n
  OBVIOUS
<1>3. e.assertion[j] \in 1 .. f
  BY <1>1
<1> HIDE DEF f
<1>4. e.assertion[j] + k * f \in 1 .. (n * f)
  BY <1>1, <1>2, <1>3, Offset
<1> DEFINE max == n * f
           y == e.assertion[j] + k * f
<1>5. max \in Nat
  BY <1>1
<1>6. y \in 1 .. max
  BY <1>4
<1> HIDE DEF max, y
<1>7. IsClause({y}, max)
  BY <1>5, <1>6 DEF IsClause
<1> QED BY <1>7 DEF y, max

LEMMA Product ==
  ASSUME NEW f \in Nat, NEW m \in Nat, NEW n \in Nat, m <= n
  PROVE  m * f <= n * f
<1>1. PICK d \in Nat : n = m + d
  <2>1. n - m \in Nat /\ n = m + (n - m)
    OBVIOUS
  <2> QED BY <2>1
<1>2. n * f = m * f + d * f /\ d * f \in Nat /\ m * f \in Nat
  BY <1>1
<1> QED BY <1>2

LEMMA AtFrameVector ==
  ASSUME NEW e \in Instances, NEW m \in Nat, NEW n \in Nat, NEW k \in Nat, m + k <= n,
         NEW s \in Seq(1 .. (m * e.final_index_oneinst))
  PROVE  /\ AtFrame(e, s, k) \in Seq(1 .. (n * e.final_index_oneinst))
         /\ Len(AtFrame(e, s, k)) = Len(s)
<1> DEFINE f == e.final_index_oneinst
           old == m * f
           max == n * f
           off == k * f
<1>1. f \in Nat
  BY InstanceFacts
<1> HIDE DEF f
<1>2. off \in Nat /\ old \in Nat /\ max \in Nat /\ old + off <= max
  <2>1. (m + k) * f <= n * f
    BY <1>1, Product
  <2>2. (m + k) * f = m * f + k * f
    BY <1>1
  <2> QED BY <1>1, <2>1, <2>2
<1>3. AtFrame(e, s, k) = [j \in DOMAIN s |-> s[j] + off]
  BY DEF AtFrame, f
<1>4. s \in Seq(1 .. old)
  BY DEF f
<1> HIDE DEF old, off, max
<1>5. \A j \in DOMAIN s : s[j] + off \in 1 .. max
  BY <1>2, <1>4
<1>6. AtFrame(e, s, k) \in Seq(1 .. max) /\ Len(AtFrame(e, s, k)) = Len(s)
  <2>1. DOMAIN s = 1 .. Len(s) /\ Len(s) \in Nat
    BY <1>4
  <2> DEFINE len == Len(s)
  <2>2. AtFrame(e, s, k) = [j \in 1 .. len |-> s[j] + off]
    BY <1>3, <2>1
  <2>3. \A j \in 1 .. len : s[j] + off \in 1 .. max
    BY <1>5, <2>1
  <2>4. len \in Nat
    BY <2>1
  <2> HIDE DEF len
  <2>5. AtFrame(e, s, k) \in Seq(1 .. max) /\ Len(AtFrame(e, s, k)) = len
    BY <2>2, <2>3, <2>4
  <2> QED BY <2>5 DEF len
<1> QED BY <1>6 DEF max, f

LEMMA Quotient ==
  ASSUME NEW n \in Nat, NEW w \in Nat \ {0}, NEW m \in Nat, n < m * w
  PROVE  n \div w \in Nat /\ n \div w < m /\ n % w \in 0 .. (w - 1)
<1>1. n \div w \in Nat /\ n % w \in 0 .. (w - 1) /\ n = (w * (n \div w)) + (n % w)
  OBVIOUS
<1>2. ASSUME m <= n \div w
      PROVE  FALSE
  <2>1. m * w <= (n \div w) * w
    BY <1>1, <1>2, Product
  <2> QED BY <1>1, <2>1
<1> QED BY <1>1, <1>2

LEMMA AtFramesVector ==
  ASSUME NEW e \in Instances, NEW first \in Nat, NEW end \in Nat, first <= end,
         NEW s \in Seq(1 .. e.final_index_oneinst)
  PROVE  /\ AtFrames(e, s, first, end) \in Seq(1 .. ((end + 1) * e.final_index_oneinst))
         /\ Len(AtFrames(e, s, first, end)) = (end - first + 1) * Len(s)
<1> DEFINE f == e.final_index_oneinst
           w == Len(s)
           m == end - first + 1
           len == m * w
<1>1. f \in Nat /\ w \in Nat /\ m \in Nat /\ s \in [1 .. w -> 1 .. f]
  BY InstanceFacts
<1>2. len \in Nat
  BY <1>1
<1>3. AtFrames(e, s, first, end) =
        [j \in 1 .. len |-> s[((j - 1) % w) + 1] + (first + (j - 1) \div w) * f]
  BY DEF AtFrames
<1>4. ASSUME NEW j \in 1 .. len
      PROVE  s[((j - 1) % w) + 1] + (first + (j - 1) \div w) * f \in 1 .. ((end + 1) * f)
  <2>1. w \in Nat \ {0}
    BY <1>1, <1>4
  <2>2. j - 1 \in Nat /\ j - 1 < m * w
    BY <1>2
  <2> DEFINE i == j - 1
             q == i \div w
             x == i % w
  <2>3. q \in Nat /\ q < m /\ x \in 0 .. (w - 1)
    <3>1. i \in Nat /\ i < m * w
      BY <2>2
    <3> HIDE DEF i, m, w, len
    <3> QED BY <1>1, <2>1, <3>1, Quotient
  <2> HIDE DEF q, x
  <2>4. s[x + 1] \in 1 .. f
    BY <1>1, <2>1, <2>3
  <2>5. first + q \in Nat /\ first + q < end + 1 /\ end + 1 \in Nat
    BY <2>3
  <2> DEFINE v == s[x + 1]
             k == first + q
  <2> HIDE DEF v, k, f
  <2>6. v + k * f \in 1 .. ((end + 1) * f)
    BY <1>1, <2>4, <2>5, Offset DEF v, k
  <2> QED BY <2>6 DEF v, k, q, x
<1> HIDE DEF f, w, m, len
<1>5. /\ AtFrames(e, s, first, end) \in Seq(1 .. ((end + 1) * f))
      /\ Len(AtFrames(e, s, first, end)) = len
  BY <1>2, <1>3, <1>4
<1> QED BY <1>5 DEF f, w, m, len

-----------------------------------------------------------------------------
(***************************************************************************)
(* The inductive invariant: how far the variables have been handed out at  *)
(* each point of a construct_ method, and between which frames it is.      *)
(***************************************************************************)
Built == pc \notin {"start", "instances"}
Compare == pc \notin {"start", "instances", "connect", "outputs"}
Looping == pc \in {"pairs", "region"}

Allocated ==
  /\ pc # "start" => window \in Bounds(inst)
  /\ Built => 2 * size * F < last_index
  /\ ~Compare => target = 0 /\ equ = {} /\ loops = <<>>
  /\ Compare => target \in 1 .. (last_index - 1)
  /\ loops \in Seq(1 .. (last_index - 1))

InRegion ==
  Looping =>
    /\ region \in 1 .. 3
    /\ p > 0 /\ l > 0 /\ r > 1
    /\ li \in Nat /\ ri \in Nat /\ li < ri /\ ri <= Endi(region)

Control ==
  pc \in {"start", "instances", "connect", "outputs", "nonloop", "bitIs", "loop",
          "pairs", "region", "red_and"}

IInv == TypeOK /\ Allocated /\ InRegion /\ Control

LEMMA InitIInv == Init => IInv
<1> SUFFICES ASSUME Init PROVE IInv
  OBVIOUS
<1>1. last_index \in Nat /\ last_index > 0
  BY InstanceFacts DEF Init
<1>2. TypeOK
  <2>1. lock_multiple = TRUE /\ AtRest
    BY DEF Init, AtRest
  <2> QED BY <1>1, <2>1 DEF Init, TypeOK
<1>3. Allocated
  BY DEF Init, Allocated, Built, Compare
<1>4. InRegion /\ Control
  BY DEF Init, InRegion, Control, Looping
<1> QED BY <1>2, <1>3, <1>4 DEF IInv

-----------------------------------------------------------------------------
\* The facts that every step of a query starts from.
LEMMA WindowFacts ==
  ASSUME IInv, pc # "start"
  PROVE  /\ inst \in Instances
         /\ F \in Nat /\ F > 3 /\ F = inst.final_index_oneinst
         /\ p \in Nat /\ l \in Nat /\ r \in Nat
         /\ size = p + l + 1 + r /\ last = p + l + r
BY InstanceFacts DEF IInv, TypeOK, Allocated, F, p, l, r, size, last

LEMMA GrownClauses ==
  ASSUME IInv, NEW m \in Nat, last_index <= m
  PROVE  \A c \in clause_list_multiple : IsClause(c, m - 1)
BY MoreVariables DEF IInv, TypeOK

LEMMA BeginStep ==
  ASSUME IInv, Begin
  PROVE  IInv'
<1>1. inst' = inst /\ inst \in Instances /\ F \in Nat
  BY InstanceFacts DEF IInv, TypeOK, Begin, F
<1>2. window' \in Bounds(inst) /\ window' \in Nat \X Nat \X Nat
  BY <1>1, BoundsAssumption DEF Begin
<1>3. TypeOK'
  <2>1. lock_multiple' = FALSE /\ ~AtRest'
    BY DEF Begin, AtRest
  <2>2. last_index' \in Nat /\ last_index' > 0
    BY <1>1 DEF Begin
  <2>3. clause_list_multiple' = {} /\ target' = 0 /\ equ' = {} /\ loops' = <<>>
    BY DEF Begin
  <2>4. equ' \cup {loops'[n] : n \in DOMAIN loops'} = {}
    BY <2>3
  <2>5. lock_multiple' \in BOOLEAN /\ (lock_multiple' <=> AtRest')
    BY <2>1
  <2>6. target' \in 0 .. (last_index' - 1)
    <3>1. target' = 0 /\ last_index' - 1 = F
      BY <1>1 DEF Begin
    <3>2. 0 \in 0 .. F
      BY <1>1
    <3> QED BY <3>1, <3>2
  <2>7. \A c \in clause_list_multiple' : IsClause(c, last_index' - 1)
    BY <2>3
  <2>8. equ' \cup {loops'[n] : n \in DOMAIN loops'} \subseteq 1 .. (last_index' - 1)
    BY <2>4
  <2> QED BY <1>1, <1>2, <2>2, <2>5, <2>6, <2>7, <2>8 DEF TypeOK
<1>4. Allocated'
  BY <1>1, <1>2 DEF Begin, Allocated, Built, Compare
<1>5. InRegion' /\ Control'
  BY DEF Begin, InRegion, Control, Looping
<1> QED BY <1>3, <1>4, <1>5 DEF IInv

LEMMA InstantiateStep ==
  ASSUME IInv, Instantiate
  PROVE  IInv'
<1>1. pc = "instances" /\ pc' = "connect"
  BY DEF Instantiate
<1>2. inst' = inst /\ window' = window /\ target' = target /\ loops' = loops /\ equ' = equ
  BY DEF Instantiate, loopVars
<1>3. last_index' = 2 * size * F + 1 /\ 2 * size * F \in Nat
  BY <1>1, WindowFacts DEF Instantiate
<1>4. \A c \in clause_list_multiple' : IsClause(c, last_index' - 1)
  <2>1. 2 * size \in Nat
    BY <1>1, WindowFacts
  <2>2. \A c \in gen_multiple_instance(inst, 2 * size) : IsClause(c, 2 * size * F)
    BY <1>1, <2>1, WindowFacts, GenClauses DEF F
  <2>3. last_index' - 1 = 2 * size * F
    BY <1>3
  <2> QED BY <2>2, <2>3 DEF Instantiate
<1>5. TypeOK'
  <2>1. lock_multiple' = FALSE /\ ~AtRest'
    BY DEF Instantiate, AtRest, IInv, TypeOK
  <2>2. target' = 0 /\ equ' = {} /\ loops' = <<>>
    BY <1>1, <1>2 DEF IInv, Allocated, Compare
  <2>3. equ' \cup {loops'[n] : n \in DOMAIN loops'} \subseteq 1 .. (last_index' - 1)
    BY <2>2
  <2>4. inst \in Instances /\ window \in Nat \X Nat \X Nat
    BY DEF IInv, TypeOK
  <2>5. last_index' \in Nat /\ last_index' > 0
    BY <1>3
  <2>6. target' \in 0 .. (last_index' - 1)
    <3>1. target' = 0 /\ last_index' - 1 = 2 * size * F
      BY <1>3, <2>2
    <3>2. 0 \in 0 .. (2 * size * F)
      BY <1>3
    <3> QED BY <3>1, <3>2
  <2> QED BY <1>2, <1>4, <2>1, <2>3, <2>4, <2>5, <2>6 DEF TypeOK
<1>6. Allocated'
  <2>1. 2 * size * F < last_index'
    BY <1>3
  <2>2. (2 * size * F)' = 2 * size * F
    BY <1>2 DEF size, p, l, r, F
  <2> QED BY <1>1, <1>2, <1>3, <2>1, <2>2 DEF IInv, Allocated, Built, Compare
<1>7. InRegion' /\ Control'
  BY <1>1 DEF InRegion, Control, Looping
<1> QED BY <1>5, <1>6, <1>7 DEF IInv

LEMMA ConnectStep ==
  ASSUME IInv, Connect
  PROVE  IInv'
<1>1. pc = "connect" /\ pc' = "outputs"
  BY DEF Connect
<1>2. /\ inst' = inst /\ window' = window /\ last_index' = last_index
      /\ target' = target /\ loops' = loops /\ equ' = equ
  BY DEF Connect, loopVars
<1>3. 2 * size * F \in Nat /\ 2 * size * F < last_index /\ last_index \in Nat
  <2>1. 2 * size * F \in Nat
    BY <1>1, WindowFacts
  <2>2. 2 * size * F < last_index /\ last_index \in Nat
    BY <1>1 DEF IInv, TypeOK, Allocated, Built
  <2> QED BY <2>1, <2>2
<1>4. \A c \in clause_list_multiple' : IsClause(c, last_index' - 1)
  <2>1. 2 * size \in Nat /\ size \in Nat /\ last \in Nat /\ last < 2 * size /\ size + last < 2 * size
        /\ size + last \in Nat
    BY <1>1, WindowFacts
  <2>2. \A c \in try_assertion(inst, 2 * size) : IsClause(c, 2 * size * F)
    BY <1>1, <2>1, WindowFacts, AssertionClauses DEF F
  <2>3. \A c \in connect_multiple_instance(inst, 0, last) : IsClause(c, 2 * size * F)
    BY <1>1, <2>1, WindowFacts, ConnectClauses DEF F
  <2>4. \A c \in connect_multiple_instance(inst, size, size + last) : IsClause(c, 2 * size * F)
    BY <1>1, <2>1, WindowFacts, ConnectClauses DEF F
  <2>5. \A c \in clause_list_multiple : IsClause(c, last_index - 1)
    BY DEF IInv, TypeOK
  <2> DEFINE max == 2 * size * F
  <2>6. max \in Int /\ last_index - 1 \in Int /\ max <= last_index - 1
    BY <1>3
  <2>7. \A c : IsClause(c, max) => IsClause(c, last_index - 1)
    <3> HIDE DEF max
    <3> QED BY <2>6, MoreVariables
  <2> QED BY <1>2, <2>2, <2>3, <2>4, <2>5, <2>7 DEF Connect
<1>5. TypeOK'
  <2>1. lock_multiple' = FALSE /\ ~AtRest'
    BY DEF Connect, AtRest, IInv, TypeOK
  <2> QED BY <1>2, <1>3, <1>4, <2>1 DEF IInv, TypeOK
<1>6. Allocated'
  <2>1. (2 * size * F)' = 2 * size * F
    BY <1>2 DEF size, p, l, r, F
  <2> QED BY <1>1, <1>2, <1>3, <2>1 DEF IInv, Allocated, Built, Compare
<1>7. InRegion' /\ Control'
  BY <1>1 DEF InRegion, Control, Looping
<1> QED BY <1>5, <1>6, <1>7 DEF IInv

-----------------------------------------------------------------------------
(***************************************************************************)
(* The vectors that are compared are those of the unrolling.               *)
(***************************************************************************)
LEMMA BuiltFacts ==
  ASSUME IInv, Built
  PROVE  /\ inst \in Instances
         /\ F \in Nat /\ F > 3 /\ F = inst.final_index_oneinst
         /\ p \in Nat /\ l \in Nat /\ r \in Nat
         /\ size = p + l + 1 + r /\ last = p + l + r
         /\ 2 * size * F \in Nat /\ 2 * size * F < last_index /\ last_index \in Nat
<1>1. pc # "start"
  BY DEF Built
<1>2. 2 * size * F < last_index /\ last_index \in Nat
  BY DEF IInv, TypeOK, Allocated
<1> QED BY <1>1, <1>2, WindowFacts

\* The facts without the product, which the arithmetic about frames has no use for.
LEMMA SizeFacts ==
  ASSUME IInv, Built
  PROVE  /\ inst \in Instances /\ F \in Nat /\ F > 3 /\ F = inst.final_index_oneinst
         /\ p \in Nat /\ l \in Nat /\ r \in Nat /\ size \in Nat
         /\ size = p + l + 1 + r /\ last = p + l + r
BY WindowFacts DEF Built

LEMMA LargerRange ==
  ASSUME NEW S, NEW T, S \subseteq T, NEW s \in Seq(S)
  PROVE  s \in Seq(T) /\ \A k \in DOMAIN s : s[k] \in T
OBVIOUS

LEMMA OutputVectors ==
  ASSUME IInv, Built
  PROVE  /\ Outputs(inst, p, last, 0) \in Seq(1 .. (2 * size * F))
         /\ Outputs(inst, p, last, size) \in Seq(1 .. (2 * size * F))
         /\ Len(Outputs(inst, p, last, 0)) = Len(Outputs(inst, p, last, size))
<1> DEFINE s == AtFrames(inst, inst.outstr, p, last)
<1>1. inst.outstr \in Seq(1 .. inst.final_index_oneinst)
  <2>1. F \in Nat /\ 1 .. (F - 2) \subseteq 1 .. F
    BY SizeFacts
  <2>2. inst.outstr \in Seq(1 .. (F - 2)) /\ F = inst.final_index_oneinst
    BY SizeFacts, InstanceFacts
  <2>3. inst.outstr \in Seq(1 .. F)
    BY <2>1, <2>2, LargerRange
  <2> QED BY <2>2, <2>3
<1>2. p <= last /\ last \in Nat /\ last + 1 = size /\ size \in Nat /\ 2 * size \in Nat
      /\ size <= 2 * size /\ size + 0 <= 2 * size /\ size + size <= 2 * size
  BY SizeFacts
<1>3. s \in Seq(1 .. (size * F))
  BY <1>1, <1>2, BuiltFacts, AtFramesVector DEF F
<1> HIDE DEF s
<1> DEFINE f == inst.final_index_oneinst
           m == size
           n == 2 * size
<1>4. inst \in Instances /\ s \in Seq(1 .. (m * f)) /\ f = F
  BY <1>3, BuiltFacts
<1>5. m \in Nat /\ n \in Nat /\ 0 \in Nat /\ m + 0 <= n /\ m + m <= n
  BY <1>2
<1>6. /\ AtFrame(inst, s, 0) \in Seq(1 .. (n * f)) /\ Len(AtFrame(inst, s, 0)) = Len(s)
      /\ AtFrame(inst, s, m) \in Seq(1 .. (n * f)) /\ Len(AtFrame(inst, s, m)) = Len(s)
  <2> HIDE DEF m, n
  <2>1. AtFrame(inst, s, 0) \in Seq(1 .. (n * f)) /\ Len(AtFrame(inst, s, 0)) = Len(s)
    BY <1>4, <1>5, AtFrameVector, ZenonT(60)
  <2>2. AtFrame(inst, s, m) \in Seq(1 .. (n * f)) /\ Len(AtFrame(inst, s, m)) = Len(s)
    BY <1>4, <1>5, AtFrameVector, ZenonT(60)
  <2> QED BY <2>1, <2>2
<1> QED BY <1>4, <1>6 DEF Outputs, s

LEMMA InputVector ==
  ASSUME IInv, Built, NEW s \in Seq(1 .. (F - 2)), NEW k \in Nat, k < 2 * size
  PROVE  AtFrame(inst, s, k) \in Seq(1 .. (2 * size * F)) /\ Len(AtFrame(inst, s, k)) = Len(s)
<1> DEFINE f == inst.final_index_oneinst
           n == 2 * size
<1>1. inst \in Instances /\ f = F /\ n \in Nat /\ 1 \in Nat /\ 1 + k <= n /\ 1 * f = f
  <2>1. inst \in Instances /\ f = F /\ F \in Nat /\ size \in Nat
    BY SizeFacts
  <2>2. n \in Nat /\ 1 + k <= n
    BY <2>1
  <2>3. \A x \in Nat : 1 * x = x
    OBVIOUS
  <2> QED BY <2>1, <2>2, <2>3
<1>2. s \in Seq(1 .. (1 * f))
  <2>1. 1 .. (F - 2) \subseteq 1 .. F
    BY SizeFacts
  <2>2. s \in Seq(1 .. F)
    BY <2>1, LargerRange
  <2> QED BY <1>1, <2>2
<1>3. AtFrame(inst, s, k) \in Seq(1 .. (n * f)) /\ Len(AtFrame(inst, s, k)) = Len(s)
  <2> HIDE DEF n
  <2> QED BY <1>1, <1>2, AtFrameVector
<1> QED BY <1>1, <1>3

LEMMA StateVectors ==
  ASSUME IInv, Built, NEW i \in 0 .. last, NEW j \in 0 .. last
  PROVE  /\ Compared(inst, i, j, size)[1] \in Seq(1 .. (2 * size * F))
         /\ Compared(inst, i, j, size)[2] \in Seq(1 .. (2 * size * F))
         /\ Len(Compared(inst, i, j, size)[1]) = Len(Compared(inst, i, j, size)[2])
<1> DEFINE s == dff_curlst(inst)
           at(k) == AtFrame(inst, s, k)
           max == 2 * size * F
<1>1. s \in Seq(1 .. (F - 2))
  <2> DEFINE Dff == [current : Nat \ {0}, width : Nat \ {0}]
             d == inst.dffs
             len == Len(d)
  <2>1. d \in Seq(Dff)
    BY BuiltFacts, InstanceFacts
  <2>2. ASSUME NEW n \in DOMAIN d
        PROVE  d[n].current \in 1 .. (F - 2)
    <3>1. d[n] \in Dff
      <4> HIDE DEF d, Dff
      <4> QED BY <2>1
    <3>2. d[n].current + 2 * d[n].width <= F - 1
      BY BuiltFacts, InstanceFacts
    <3>3. d[n].current \in Nat \ {0} /\ d[n].width \in Nat \ {0}
      <4> HIDE DEF d
      <4> QED BY <3>1
    <3> DEFINE x == d[n].current
               w == d[n].width
    <3>4. x \in Nat \ {0} /\ w \in Nat \ {0} /\ x + 2 * w <= F - 1 /\ F \in Nat
      BY <3>2, <3>3, BuiltFacts
    <3> HIDE DEF x, w
    <3>5. x \in 1 .. (F - 2)
      BY <3>4
    <3> QED BY <3>5 DEF x
  <2>3. s = [n \in DOMAIN d |-> d[n].current]
    BY DEF dff_curlst
  <2>4. len \in Nat /\ DOMAIN d = 1 .. len
    BY <2>1
  <2> HIDE DEF d, len
  <2> QED BY <2>2, <2>3, <2>4
<1> HIDE DEF s
<1>2. \A k \in Nat : k < 2 * size => at(k) \in Seq(1 .. max) /\ Len(at(k)) = Len(s)
  BY <1>1, InputVector
<1>3. \A k \in 0 .. last : k \in Nat /\ k < 2 * size /\ k + size \in Nat /\ k + size < 2 * size
  BY SizeFacts
<1>4. \A k \in 0 .. last : /\ at(k) \in Seq(1 .. max) /\ Len(at(k)) = Len(s)
                           /\ at(k + size) \in Seq(1 .. max) /\ Len(at(k + size)) = Len(s)
  BY <1>2, <1>3
<1>5. Compared(inst, i, j, size) = <<at(i) \o at(i + size), at(j) \o at(j + size)>>
  BY DEF Compared, s
<1> HIDE DEF at, max
<1>6. /\ at(i) \o at(i + size) \in Seq(1 .. max)
      /\ at(j) \o at(j + size) \in Seq(1 .. max)
      /\ Len(at(i) \o at(i + size)) = Len(at(j) \o at(j + size))
  BY <1>4
<1> QED BY <1>5, <1>6 DEF max

-----------------------------------------------------------------------------
(***************************************************************************)
(* A step that allocates variables up to n and adds clauses about them.    *)
(***************************************************************************)
LEMMA AllocateStep ==
  ASSUME IInv, Built, NEW n \in Nat, last_index <= n, last_index' = n,
         inst' = inst, window' = window,
         \A c \in clause_list_multiple' : IsClause(c, n - 1),
         target' \in 0 .. (n - 1),
         equ' \cup {loops'[k] : k \in DOMAIN loops'} \subseteq 1 .. (n - 1),
         lock_multiple' \in BOOLEAN, lock_multiple' <=> AtRest'
  PROVE  /\ TypeOK'
         /\ window' \in Bounds(inst')
         /\ (2 * size * F < last_index)'
<1>1. inst \in Instances /\ window \in Nat \X Nat \X Nat
  BY DEF IInv, TypeOK
<1>2. TypeOK'
  BY <1>1 DEF TypeOK
<1>3. (2 * size * F)' = 2 * size * F
  BY DEF size, p, l, r, F
<1>4. 2 * size * F < n
  BY BuiltFacts
<1>5. window' \in Bounds(inst')
  BY DEF IInv, Allocated, Built
<1> QED BY <1>2, <1>3, <1>4, <1>5

LEMMA CompareOutputsStep ==
  ASSUME IInv, CompareOutputs
  PROVE  IInv'
<1> DEFINE o1 == Outputs(inst, p, last, 0)
           o2 == Outputs(inst, p, last, size)
           max == 2 * size * F
           len == Len(o1)
           n == last_index + len + 1
<1>1. pc = "outputs" /\ pc' = "nonloop" /\ Built
  BY DEF CompareOutputs, Built
<1>2. /\ inst' = inst /\ window' = window /\ loops' = loops /\ equ' = equ
      /\ lock_multiple' = TRUE
      /\ target' = last_index + len /\ last_index' = n
      /\ clause_list_multiple' = clause_list_multiple \cup encode_EQUV_res(last_index, o1, o2)
  BY DEF CompareOutputs, loopVars
<1>3. /\ o1 \in Seq(1 .. max) /\ o2 \in Seq(1 .. max) /\ Len(o1) = Len(o2)
      /\ max \in Nat /\ max < last_index /\ last_index \in Nat
  BY <1>1, OutputVectors, BuiltFacts
<1> HIDE DEF o1, o2, max
<1>4. /\ len \in Nat /\ n \in Nat /\ last_index <= n
      /\ n - 1 = last_index + len /\ last_index + len \in 1 .. (n - 1)
  BY <1>3
<1>5. \A c \in clause_list_multiple' : IsClause(c, n - 1)
  <2>1. \A c \in clause_list_multiple : IsClause(c, n - 1)
    BY <1>4, GrownClauses
  <2>2. \A c \in encode_EQUV_res(last_index, o1, o2) : IsClause(c, n - 1)
    BY <1>3, <1>4, EquvResClauses
  <2> QED BY <1>2, <2>1, <2>2
<1>6. target' \in 1 .. (n - 1)
  BY <1>2, <1>4
<1>7. equ' = {} /\ loops' = <<>>
  BY <1>1, <1>2 DEF IInv, Allocated, Compare
<1>8. lock_multiple' \in BOOLEAN /\ (lock_multiple' <=> AtRest')
  BY <1>1, <1>2 DEF AtRest
<1> HIDE DEF len, n
<1>9. TypeOK' /\ window' \in Bounds(inst') /\ (2 * size * F < last_index)'
  <2>1. equ' \cup {loops'[k] : k \in DOMAIN loops'} \subseteq 1 .. (n - 1)
    BY <1>7
  <2>2. target' \in 0 .. (n - 1)
    BY <1>4, <1>6
  <2> QED BY <1>1, <1>2, <1>4, <1>5, <1>8, <2>1, <2>2, AllocateStep
<1>10. Allocated'
  <2>1. target' \in 1 .. (last_index' - 1)
    BY <1>2, <1>6
  <2>2. loops' \in Seq(1 .. (last_index' - 1))
    BY <1>7
  <2> QED BY <1>1, <1>9, <2>1, <2>2 DEF Allocated, Built, Compare
<1>11. InRegion' /\ Control'
  BY <1>1 DEF InRegion, Control, Looping
<1> QED BY <1>9, <1>10, <1>11 DEF IInv

-----------------------------------------------------------------------------
\* What was allocated before stays allocated.
LEMMA GrownLists ==
  ASSUME IInv, NEW n \in Nat, last_index <= n
  PROVE  /\ equ \subseteq 1 .. (n - 1)
         /\ loops \in Seq(1 .. (n - 1))
         /\ {loops[k] : k \in DOMAIN loops} \subseteq 1 .. (n - 1)
         /\ Compare => target \in 1 .. (n - 1)
<1>1. last_index \in Nat /\ last_index - 1 <= n - 1
  BY DEF IInv, TypeOK
<1>2. 1 .. (last_index - 1) \subseteq 1 .. (n - 1)
  BY <1>1
<1>3. equ \subseteq 1 .. (n - 1)
  <2>1. equ \subseteq 1 .. (last_index - 1)
    BY DEF IInv, TypeOK
  <2> QED BY <1>2, <2>1
<1>4. loops \in Seq(1 .. (last_index - 1))
  BY DEF IInv, Allocated
<1>5. loops \in Seq(1 .. (n - 1)) /\ \A k \in DOMAIN loops : loops[k] \in 1 .. (n - 1)
  <2> DEFINE S == 1 .. (last_index - 1)
             T == 1 .. (n - 1)
  <2>1. S \subseteq T /\ loops \in Seq(S)
    BY <1>2, <1>4
  <2> HIDE DEF S, T
  <2>2. loops \in Seq(T) /\ \A k \in DOMAIN loops : loops[k] \in T
    BY <2>1, LargerRange
  <2> QED BY <2>2 DEF T
<1>6. Compare => target \in 1 .. (n - 1)
  BY <1>2 DEF IInv, Allocated
<1> QED BY <1>3, <1>4, <1>5, <1>6

LEMMA BitIsStep ==
  ASSUME IInv, BitIs
  PROVE  IInv'
<1>1. PICK s \in Splits(inst) :
        LET uniq(copy) == AtFrame(inst, s[1], copy + p + l)
            nonuniq(copy) == AtFrame(inst, s[2], copy + p + l)
        IN /\ clause_list_multiple' = clause_list_multiple
                \cup encode_EQUV(uniq(0), uniq(size))
                \cup encode_INEV(last_index, nonuniq(0), nonuniq(size))
           /\ last_index' = last_index + Len(s[2]) + 1
  BY DEF BitIs
<1> DEFINE u0 == AtFrame(inst, s[1], 0 + p + l)
           u1 == AtFrame(inst, s[1], size + p + l)
           d0 == AtFrame(inst, s[2], 0 + p + l)
           d1 == AtFrame(inst, s[2], size + p + l)
           max == 2 * size * F
           len == Len(s[2])
           n == last_index + len + 1
<1>2. pc = "nonloop" /\ pc' = "bitIs" /\ Built /\ Compare
  BY DEF BitIs, Built, Compare
<1>3. /\ inst' = inst /\ window' = window /\ loops' = loops /\ equ' = equ /\ target' = target
      /\ lock_multiple' = TRUE
      /\ last_index' = n
      /\ clause_list_multiple' = clause_list_multiple
           \cup encode_EQUV(u0, u1) \cup encode_INEV(last_index, d0, d1)
  BY <1>1 DEF BitIs, loopVars
<1>4. s[1] \in Seq(1 .. (F - 2)) /\ s[2] \in Seq(1 .. (F - 2))
  BY <1>2, SizeFacts, SplitAssumption
<1>5. /\ 0 + p + l \in Nat /\ 0 + p + l < 2 * size
      /\ size + p + l \in Nat /\ size + p + l < 2 * size
  BY <1>2, SizeFacts
<1>6. /\ u0 \in Seq(1 .. max) /\ u1 \in Seq(1 .. max) /\ Len(u0) = Len(u1)
      /\ d0 \in Seq(1 .. max) /\ d1 \in Seq(1 .. max) /\ Len(d0) = len /\ Len(d1) = len
  BY <1>2, <1>4, <1>5, InputVector
<1>7. max \in Nat /\ max < last_index /\ last_index \in Nat /\ len \in Nat
  <2>1. len \in Nat
    BY <1>4
  <2> QED BY <1>2, <2>1, BuiltFacts
<1> HIDE DEF u0, u1, d0, d1, max, len
<1>8. n \in Nat /\ last_index <= n /\ n - 1 = last_index + len /\ max <= n - 1 /\ n - 1 \in Int
  BY <1>7
<1>9. \A c \in clause_list_multiple' : IsClause(c, n - 1)
  <2>1. \A c \in clause_list_multiple : IsClause(c, n - 1)
    BY <1>8, GrownClauses
  <2>2. \A c \in encode_EQUV(u0, u1) : IsClause(c, max)
    BY <1>6, <1>7, EquvClauses
  <2>3. \A c \in encode_EQUV(u0, u1) : IsClause(c, n - 1)
    BY <1>7, <1>8, <2>2, MoreVariables
  <2>4. \A c \in encode_INEV(last_index, d0, d1) : IsClause(c, n - 1)
    BY <1>6, <1>7, <1>8, EquvResClauses
  <2> QED BY <1>3, <2>1, <2>3, <2>4
<1> HIDE DEF n
<1>10. TypeOK' /\ window' \in Bounds(inst') /\ (2 * size * F < last_index)'
  <2>1. equ' \cup {loops'[k] : k \in DOMAIN loops'} \subseteq 1 .. (n - 1)
    BY <1>3, <1>8, GrownLists
  <2>2. target' \in 0 .. (n - 1)
    BY <1>2, <1>3, <1>8, GrownLists
  <2>3. lock_multiple' \in BOOLEAN /\ (lock_multiple' <=> AtRest')
    BY <1>2, <1>3 DEF AtRest
  <2> QED BY <1>2, <1>3, <1>8, <1>9, <2>1, <2>2, <2>3, AllocateStep
<1>11. Allocated'
  <2>1. target' \in 1 .. (last_index' - 1) /\ loops' \in Seq(1 .. (last_index' - 1))
    BY <1>2, <1>3, <1>8, GrownLists
  <2> QED BY <1>2, <1>10, <2>1 DEF Allocated, Built, Compare
<1>12. InRegion' /\ Control'
  BY <1>2 DEF InRegion, Control, Looping
<1> QED BY <1>10, <1>11, <1>12 DEF IInv

LEMMA BeginLoopStep ==
  ASSUME IInv, BeginLoop
  PROVE  IInv'
<1> DEFINE n == last_index
<1>1. pc \in {"nonloop", "bitIs"} /\ pc' = "pairs" /\ Built /\ Compare
  BY DEF BeginLoop, Built, Compare
<1>2. /\ inst' = inst /\ window' = window /\ loops' = loops /\ target' = target
      /\ last_index' = n /\ clause_list_multiple' = clause_list_multiple
      /\ lock_multiple' = FALSE
      /\ region' = 1 /\ li' = Starti(1) /\ ri' = Starti(1) + 1 /\ equ' = {}
      /\ p > 0 /\ l > 0 /\ r > 1
  BY DEF BeginLoop, EnterRegion
<1>3. n \in Nat /\ \A c \in clause_list_multiple' : IsClause(c, n - 1)
  BY <1>2 DEF IInv, TypeOK
<1> HIDE DEF n
<1>4. n = last_index
  BY DEF n
<1>5. TypeOK' /\ window' \in Bounds(inst') /\ (2 * size * F < last_index)'
  <2>1. last_index <= n
    BY <1>3, <1>4
  <2>2. equ' \cup {loops'[k] : k \in DOMAIN loops'} \subseteq 1 .. (n - 1)
    BY <1>2, <1>3, <2>1, GrownLists
  <2>3. target' \in 0 .. (n - 1)
    BY <1>1, <1>2, <1>3, <2>1, GrownLists
  <2>4. lock_multiple' \in BOOLEAN /\ (lock_multiple' <=> AtRest')
    BY <1>1, <1>2 DEF AtRest
  <2> QED BY <1>1, <1>2, <1>3, <2>1, <2>2, <2>3, <2>4, AllocateStep
<1>6. Allocated'
  <2>1. last_index <= n
    BY <1>3, <1>4
  <2>2. target' \in 1 .. (last_index' - 1) /\ loops' \in Seq(1 .. (last_index' - 1))
    BY <1>1, <1>2, <1>3, <2>1, GrownLists
  <2> QED BY <1>1, <1>5, <2>2 DEF Allocated, Built, Compare
<1>7. InRegion' /\ Control'
  <2>1. p' = p /\ l' = l /\ r' = r
    BY <1>2 DEF p, l, r
  <2>2. p \in Nat
    BY <1>1, BuiltFacts
  <2>3. li' = 0 /\ ri' = 1
    BY <1>2 DEF Starti
  <2>4. Endi(region)' = p
    BY <1>2, <2>1 DEF Endi
  <2>5. ri' <= Endi(region)'
    BY <1>2, <2>2, <2>3, <2>4
  <2> QED BY <1>1, <1>2, <2>1, <2>3, <2>5 DEF InRegion, Control, Looping
<1> QED BY <1>5, <1>6, <1>7 DEF IInv

-----------------------------------------------------------------------------
(***************************************************************************)
(* The loops: pairs of frames, regions, and the result.                    *)
(***************************************************************************)
LEMMA RegionFacts ==
  ASSUME IInv, Built, NEW n \in 1 .. 3, p > 0, l > 0, r > 1
  PROVE  /\ Starti(n) \in Nat /\ Endi(n) \in Nat
         /\ Starti(n) + 1 <= Endi(n) /\ Endi(n) <= last
<1>1. n = 1 \/ n = 2 \/ n = 3
  OBVIOUS
<1>2. CASE n = 1
  BY <1>2, BuiltFacts DEF Starti, Endi
<1>3. CASE n = 2
  BY <1>3, BuiltFacts DEF Starti, Endi
<1>4. CASE n = 3
  BY <1>4, BuiltFacts DEF Starti, Endi
<1> QED BY <1>1, <1>2, <1>3, <1>4

LEMMA RegionsKept ==
  ASSUME window' = window
  PROVE  /\ p' = p /\ l' = l /\ r' = r
         /\ \A n : Endi(n)' = Endi(n) /\ Starti(n)' = Starti(n)
BY DEF p, l, r, last, Endi, Starti

LEMMA ComparePairStep ==
  ASSUME IInv, ComparePair
  PROVE  IInv'
<1> DEFINE s1 == Compared(inst, li, ri, size)[1]
           s2 == Compared(inst, li, ri, size)[2]
           max == 2 * size * F
           len == Len(s1)
           new == last_index + len
           n == last_index + len + 1
<1>1. pc = "pairs" /\ Built /\ Compare /\ Looping /\ lock_multiple = FALSE
  BY DEF ComparePair, Built, Compare, Looping, IInv, TypeOK, AtRest
<1>2. /\ inst' = inst /\ window' = window /\ loops' = loops /\ target' = target
      /\ region' = region /\ lock_multiple' = lock_multiple
      /\ last_index' = n /\ equ' = equ \cup {new}
      /\ clause_list_multiple' = clause_list_multiple \cup encode_EQUV_res(last_index, s1, s2)
  BY DEF ComparePair
<1>3. /\ region \in 1 .. 3 /\ p > 0 /\ l > 0 /\ r > 1
      /\ li \in Nat /\ ri \in Nat /\ li < ri /\ ri <= Endi(region)
  BY <1>1 DEF IInv, InRegion
<1>4. Endi(region) \in Nat /\ Endi(region) <= last /\ last \in Nat
  BY <1>1, <1>3, RegionFacts, BuiltFacts
<1>5. li \in 0 .. last /\ ri \in 0 .. last
  BY <1>3, <1>4
<1>6. /\ s1 \in Seq(1 .. max) /\ s2 \in Seq(1 .. max) /\ Len(s1) = Len(s2)
      /\ max \in Nat /\ max < last_index /\ last_index \in Nat
  BY <1>1, <1>5, StateVectors, BuiltFacts
<1> HIDE DEF s1, s2, max
<1>7. /\ n \in Nat /\ last_index <= n /\ n - 1 = new /\ len = Len(s1)
      /\ new \in 1 .. (n - 1)
  BY <1>6
<1>8. \A c \in clause_list_multiple' : IsClause(c, n - 1)
  <2>1. \A c \in clause_list_multiple : IsClause(c, n - 1)
    BY <1>7, GrownClauses
  <2>2. \A c \in encode_EQUV_res(last_index, s1, s2) : IsClause(c, n - 1)
    BY <1>6, <1>7, EquvResClauses
  <2> QED BY <1>2, <2>1, <2>2
<1> HIDE DEF len, n, new
<1>9. /\ pc' \in {"pairs", "region"}
      /\ li' \in Nat /\ ri' \in Nat /\ li' < ri' /\ ri' <= Endi(region)
  <2> DEFINE end == Endi(region)
  <2>1. end \in Nat /\ li \in Nat /\ ri \in Nat /\ li < ri /\ ri <= end
    BY <1>3, <1>4
  <2>2. \/ ri < end /\ ri' = ri + 1 /\ li' = li /\ pc' = pc
        \/ li < end - 1 /\ li' = li + 1 /\ ri' = li + 2 /\ pc' = pc
        \/ pc' = "region" /\ li' = li /\ ri' = ri
    BY DEF ComparePair
  <2> HIDE DEF end
  <2>3. pc' \in {"pairs", "region"}
    BY <1>1, <2>2
  <2>4. li' \in Nat /\ ri' \in Nat /\ li' < ri' /\ ri' <= end
    BY <2>1, <2>2
  <2> QED BY <2>3, <2>4 DEF end
<1>10. TypeOK' /\ window' \in Bounds(inst') /\ (2 * size * F < last_index)'
  <2>1. equ' \cup {loops'[k] : k \in DOMAIN loops'} \subseteq 1 .. (n - 1)
    BY <1>2, <1>7, GrownLists
  <2>2. target' \in 0 .. (n - 1)
    BY <1>1, <1>2, <1>7, GrownLists
  <2>3. lock_multiple' \in BOOLEAN /\ (lock_multiple' <=> AtRest')
    BY <1>1, <1>2, <1>9 DEF AtRest
  <2> QED BY <1>1, <1>2, <1>7, <1>8, <2>1, <2>2, <2>3, AllocateStep
<1>11. Allocated'
  <2>1. target' \in 1 .. (last_index' - 1) /\ loops' \in Seq(1 .. (last_index' - 1))
    BY <1>1, <1>2, <1>7, GrownLists
  <2> QED BY <1>9, <1>10, <2>1 DEF Allocated, Built, Compare
<1>12. InRegion' /\ Control'
  <2>1. p' = p /\ l' = l /\ r' = r /\ Endi(region)' = Endi(region)
    BY <1>2, RegionsKept DEF Endi, p, l, r, last
  <2> QED BY <1>2, <1>3, <1>9, <2>1 DEF InRegion, Control
<1> QED BY <1>10, <1>11, <1>12 DEF IInv

LEMMA EndRegionStep ==
  ASSUME IInv, EndRegion
  PROVE  IInv'
<1> DEFINE m == last_index
           n == last_index + 1
           new == {equ \cup {-last_index}} \cup {{-x, last_index} : x \in equ}
<1>1. pc = "region" /\ Built /\ Compare /\ Looping /\ lock_multiple = FALSE
  BY DEF EndRegion, Built, Compare, Looping, IInv, TypeOK, AtRest
<1>2. /\ inst' = inst /\ window' = window /\ target' = target
      /\ lock_multiple' = lock_multiple
      /\ last_index' = n /\ loops' = Append(loops, m)
      /\ clause_list_multiple' = clause_list_multiple \cup new
  BY DEF EndRegion
<1>3. region \in 1 .. 3 /\ p > 0 /\ l > 0 /\ r > 1
  BY <1>1 DEF IInv, InRegion
<1>4. n \in Nat /\ m \in Nat /\ n - 1 = m /\ m \in 1 .. (n - 1) /\ last_index <= n
  BY <1>1, BuiltFacts
<1>5. equ \subseteq 1 .. (n - 1) /\ loops \in Seq(1 .. (n - 1))
  BY <1>4, GrownLists
<1>6. \A c \in clause_list_multiple' : IsClause(c, n - 1)
  <2>1. \A c \in clause_list_multiple : IsClause(c, n - 1)
    BY <1>4, GrownClauses
  <2>2. ASSUME NEW c \in new
        PROVE  IsClause(c, m)
    <3>1. \A x \in equ : x \in 1 .. m
      BY <1>4, <1>5
    <3>2. c = equ \cup {-m} \/ \E x \in equ : c = {-x, m}
      BY <2>2
    <3> HIDE DEF m, n, new
    <3> QED BY <1>4, <3>1, <3>2 DEF IsClause
  <2> QED BY <1>2, <1>4, <2>1, <2>2
<1> HIDE DEF m, n, new
<1>7. loops' \in Seq(1 .. (n - 1)) /\ {loops'[k] : k \in DOMAIN loops'} \subseteq 1 .. (n - 1)
  <2>1. loops' \in Seq(1 .. (n - 1))
    BY <1>2, <1>4, <1>5
  <2>2. \A k \in DOMAIN loops' : loops'[k] \in 1 .. (n - 1)
    BY <2>1, LargerRange
  <2> QED BY <2>1, <2>2
<1>8. /\ pc' \in {"pairs", "red_and"}
      /\ equ' \subseteq equ
      /\ pc' = "pairs" => /\ region' = region + 1 /\ region < 3
                          /\ li' = Starti(region + 1) /\ ri' = Starti(region + 1) + 1
  BY <1>1 DEF EndRegion, EnterRegion
<1>9. TypeOK' /\ window' \in Bounds(inst') /\ (2 * size * F < last_index)'
  <2>1. equ' \cup {loops'[k] : k \in DOMAIN loops'} \subseteq 1 .. (n - 1)
    BY <1>5, <1>7, <1>8
  <2>2. target' \in 0 .. (n - 1)
    BY <1>1, <1>2, <1>4, GrownLists
  <2>3. lock_multiple' \in BOOLEAN /\ (lock_multiple' <=> AtRest')
    BY <1>1, <1>2, <1>8 DEF AtRest
  <2> QED BY <1>1, <1>2, <1>4, <1>6, <2>1, <2>2, <2>3, AllocateStep
<1>10. Allocated'
  <2>1. target' \in 1 .. (last_index' - 1) /\ loops' \in Seq(1 .. (last_index' - 1))
    BY <1>1, <1>2, <1>4, <1>7, GrownLists
  <2> QED BY <1>8, <1>9, <2>1 DEF Allocated, Built, Compare
<1>11. InRegion' /\ Control'
  <2>1. CASE pc' = "red_and"
    BY <2>1 DEF InRegion, Control, Looping
  <2>2. CASE pc' = "pairs"
    <3>1. region + 1 \in 1 .. 3 /\ region' = region + 1
      BY <1>3, <1>8, <2>2
    <3>2. Starti(region + 1) \in Nat /\ Starti(region + 1) + 1 <= Endi(region + 1)
      BY <1>1, <1>3, <3>1, RegionFacts
    <3>3. p' = p /\ l' = l /\ r' = r /\ Endi(region)' = Endi(region + 1)
      BY <1>2, <3>1 DEF Endi, p, l, r, last
    <3>4. li' \in Nat /\ ri' \in Nat /\ li' < ri' /\ ri' <= Endi(region + 1)
      <4> DEFINE s == Starti(region + 1)
      <4>1. s \in Nat /\ li' = s /\ ri' = s + 1
        BY <1>8, <2>2, <3>2
      <4>2. li' \in Nat /\ ri' \in Nat /\ li' < ri'
        <5> HIDE DEF s
        <5> QED BY <4>1
      <4> QED BY <3>2, <4>1, <4>2
    <3> QED BY <1>3, <2>2, <3>1, <3>3, <3>4 DEF InRegion, Control, Looping
  <2> QED BY <1>8, <2>1, <2>2
<1> QED BY <1>9, <1>10, <1>11 DEF IInv

LEMMA EndLoopStep ==
  ASSUME IInv, EndLoop
  PROVE  IInv'
<1> DEFINE m == last_index
           n == last_index + 1
           bits == <<target>> \o loops
<1>1. pc = "red_and" /\ pc' = "loop" /\ Built /\ Compare
  BY DEF EndLoop, Built, Compare
<1>2. /\ inst' = inst /\ window' = window /\ loops' = loops /\ equ' = equ
      /\ lock_multiple' = TRUE
      /\ target' = m /\ last_index' = n
      /\ clause_list_multiple' = clause_list_multiple \cup encode_Red_AND(m, bits)
  BY DEF EndLoop, loopVars
<1>3. n \in Nat /\ m \in Nat /\ n - 1 = m /\ m \in 1 .. m /\ last_index <= n
  BY <1>1, BuiltFacts
<1>4. bits \in Seq(1 .. m)
  <2>1. target \in 1 .. m /\ loops \in Seq(1 .. m)
    BY <1>1, <1>3, GrownLists
  <2> HIDE DEF m
  <2> QED BY <2>1
<1> HIDE DEF bits
<1>5. \A c \in clause_list_multiple' : IsClause(c, n - 1)
  <2>1. \A c \in clause_list_multiple : IsClause(c, n - 1)
    BY <1>3, GrownClauses
  <2>2. \A c \in encode_Red_AND(m, bits) : IsClause(c, m)
    BY <1>3, <1>4, RedClauses
  <2> QED BY <1>2, <1>3, <2>1, <2>2
<1> HIDE DEF m, n
<1>6. target' \in 1 .. (n - 1)
  BY <1>2, <1>3
<1>7. TypeOK' /\ window' \in Bounds(inst') /\ (2 * size * F < last_index)'
  <2>1. equ' \cup {loops'[k] : k \in DOMAIN loops'} \subseteq 1 .. (n - 1)
    BY <1>2, <1>3, GrownLists
  <2>2. target' \in 0 .. (n - 1)
    BY <1>3, <1>6
  <2>3. lock_multiple' \in BOOLEAN /\ (lock_multiple' <=> AtRest')
    BY <1>1, <1>2 DEF AtRest
  <2> QED BY <1>1, <1>2, <1>3, <1>5, <2>1, <2>2, <2>3, AllocateStep
<1>8. Allocated'
  <2>1. target' \in 1 .. (last_index' - 1) /\ loops' \in Seq(1 .. (last_index' - 1))
    BY <1>2, <1>3, <1>6, GrownLists
  <2> QED BY <1>1, <1>7, <2>1 DEF Allocated, Built, Compare
<1>9. InRegion' /\ Control'
  BY <1>1 DEF InRegion, Control, Looping
<1> QED BY <1>7, <1>8, <1>9 DEF IInv

-----------------------------------------------------------------------------
LEMMA NextIInv == IInv /\ [Next]_vars => IInv'
<1> SUFFICES ASSUME IInv, [Next]_vars PROVE IInv'
  OBVIOUS
<1>1. CASE Begin
  BY <1>1, BeginStep
<1>2. CASE Instantiate
  BY <1>2, InstantiateStep
<1>3. CASE Connect
  BY <1>3, ConnectStep
<1>4. CASE CompareOutputs
  BY <1>4, CompareOutputsStep
<1>5. CASE BitIs
  BY <1>5, BitIsStep
<1>6. CASE BeginLoop
  BY <1>6, BeginLoopStep
<1>7. CASE ComparePair
  BY <1>7, ComparePairStep
<1>8. CASE EndRegion
  BY <1>8, EndRegionStep
<1>9. CASE EndLoop
  BY <1>9, EndLoopStep
<1>10. CASE UNCHANGED vars
  <2>1. TypeOK'
    BY <1>10 DEF vars, loopVars, IInv, TypeOK, AtRest
  <2>2. Allocated'
    BY <1>10 DEF vars, loopVars, IInv, Allocated, Built, Compare, size, p, l, r, F
  <2>3. InRegion' /\ Control'
    <3>1. p' = p /\ l' = l /\ r' = r /\ Endi(region)' = Endi(region)
      BY <1>10 DEF vars, Endi, p, l, r, last
    <3> QED BY <1>10, <3>1 DEF vars, loopVars, IInv, InRegion, Control, Looping
  <2> QED BY <2>1, <2>2, <2>3 DEF IInv
<1> QED BY <1>1, <1>2, <1>3, <1>4, <1>5, <1>6, <1>7, <1>8, <1>9, <1>10 DEF Next

(***************************************************************************)
(* For every encoder and every window, the clauses of the queries are      *)
(* about variables that were handed out, each comparison gets variables    *)
(* that no clause knows yet, and the list is locked exactly between the    *)
(* constructions (set_last_index, check_clslst_maxidx, lock_multiple).     *)
(***************************************************************************)
THEOREM SpecTypeOK == Spec => []TypeOK
<1>1. IInv => TypeOK
  BY DEF IInv
<1> QED BY <1>1, InitIInv, NextIInv, PTL DEF Spec

-----------------------------------------------------------------------------
(***************************************************************************)
(* What the clauses of a query say of a valuation: those of the instances  *)
(* and of the connections first.                                           *)
(***************************************************************************)
\* Clauses about 1..n do not tell valuations apart that agree there.
LEMMA SameClauses ==
  ASSUME NEW n \in Nat, NEW C, \A c \in C : IsClause(c, n),
         NEW u, NEW v, \A k \in 1 .. n : u[k] = v[k]
  PROVE  SatisfiesAll(u, C) <=> SatisfiesAll(v, C)
<1> SUFFICES ASSUME NEW c \in C, NEW x \in c
             PROVE  True(u, x) <=> True(v, x)
  BY DEF SatisfiesAll, Satisfies
<1>1. x \in Int /\ x # 0 /\ -n <= x /\ x <= n
  BY DEF IsClause
<1>2. CASE x > 0
  <2>1. x \in 1 .. n
    BY <1>1, <1>2
  <2> QED BY <1>2, <2>1 DEF True
<1>3. CASE ~(x > 0)
  <2>1. -x \in 1 .. n
    BY <1>1, <1>3
  <2> QED BY <1>3, <2>1 DEF True
<1> QED BY <1>2, <1>3

LEMMA ShiftMeaning ==
  ASSUME NEW n \in Nat, NEW off \in Nat, NEW c, IsClause(c, n),
         NEW u, NEW v, \A x \in 1 .. n : u[x] = v[x + off]
  PROVE  Satisfies(v, ShiftClause(c, off)) <=> Satisfies(u, c)
<1> DEFINE to(x) == IF x > 0 THEN x + off ELSE x - off
<1>1. ASSUME NEW x \in c
      PROVE  True(v, to(x)) <=> True(u, x)
  <2>1. x \in Int /\ x # 0 /\ -n <= x /\ x <= n
    BY DEF IsClause
  <2>2. CASE x > 0
    <3>1. x \in 1 .. n /\ to(x) = x + off /\ x + off > 0
      BY <2>1, <2>2
    <3> QED BY <2>2, <3>1 DEF True
  <2>3. CASE ~(x > 0)
    <3>1. -x \in 1 .. n /\ to(x) = x - off /\ ~(x - off > 0) /\ -(x - off) = (-x) + off
      BY <2>1, <2>3
    <3> QED BY <2>3, <3>1 DEF True
  <2> QED BY <2>2, <2>3
<1>2. ShiftClause(c, off) = {to(x) : x \in c}
  BY DEF ShiftClause
<1> HIDE DEF to
<1> QED BY <1>1, <1>2 DEF Satisfies

\* The variables of one instance, in frame k.
Slice(i, v, k) == [x \in 1 .. (i.final_index_oneinst - 2) |-> v[x + k * i.final_index_oneinst]]

LEMMA InstancesMeaning ==
  ASSUME NEW e \in Instances, NEW num \in Nat, NEW v
  PROVE  SatisfiesAll(v, gen_multiple_instance(e, num))
           <=> \A k \in 0 .. (num - 1) : SatisfiesAll(Slice(e, v, k), e.clause_list)
<1> DEFINE f == e.final_index_oneinst
           n == f - 2
<1>1. f \in Nat /\ n \in Nat /\ \A c \in e.clause_list : IsClause(c, n)
  BY InstanceFacts
<1>2. ASSUME NEW k \in 0 .. (num - 1), NEW c \in e.clause_list
      PROVE  Satisfies(v, ShiftClause(c, k * f)) <=> Satisfies(Slice(e, v, k), c)
  <2> DEFINE off == k * f
             u == Slice(e, v, k)
  <2>1. off \in Nat
    BY <1>1
  <2>2. \A x \in 1 .. n : u[x] = v[x + off]
    BY DEF Slice
  <2> HIDE DEF off, u, n
  <2>3. Satisfies(v, ShiftClause(c, off)) <=> Satisfies(u, c)
    BY <1>1, <2>1, <2>2, ShiftMeaning
  <2> QED BY <2>3 DEF off, u
<1>3. SatisfiesAll(v, gen_multiple_instance(e, num))
        <=> \A k \in 0 .. (num - 1) : \A c \in e.clause_list : Satisfies(v, ShiftClause(c, k * f))
  BY DEF SatisfiesAll, gen_multiple_instance, encode_instance
<1> HIDE DEF f
<1> QED BY <1>2, <1>3 DEF SatisfiesAll

LEMMA AssertionMeaning ==
  ASSUME NEW e \in Instances, NEW num \in Nat, NEW v
  PROVE  SatisfiesAll(v, try_assertion(e, num)) <=> \A k \in 0 .. (num - 1) : AssertedIn(e, v, k)
<1> DEFINE f == e.final_index_oneinst
           y(k, n) == e.assertion[n] + k * f
<1>1. f \in Nat /\ e.assertion \in Seq(1 .. (f - 2))
  BY InstanceFacts
<1>2. ASSUME NEW k \in 0 .. (num - 1), NEW n \in DOMAIN e.assertion
      PROVE  Satisfies(v, {y(k, n)}) <=> v[y(k, n)]
  <2> DEFINE x == e.assertion[n]
             off == k * f
  <2>1. x \in 1 .. (f - 2)
    BY <1>1
  <2>2. x \in Nat /\ x > 0
    BY <1>1, <2>1
  <2>3. off \in Nat
    BY <1>1
  <2> HIDE DEF x, off
  <2>4. x + off > 0
    BY <2>2, <2>3
  <2>5. y(k, n) = x + off
    BY DEF x, off
  <2> HIDE DEF y
  <2> QED BY <2>4, <2>5 DEF Satisfies, True
<1>3. SatisfiesAll(v, try_assertion(e, num))
        <=> \A k \in 0 .. (num - 1) : \A n \in DOMAIN e.assertion : Satisfies(v, {y(k, n)})
  <2> DEFINE K == 0 .. (num - 1)
             N == DOMAIN e.assertion
  <2>1. try_assertion(e, num) = {{y(k, n)} : k \in K, n \in N}
    BY DEF try_assertion
  <2> HIDE DEF y, K, N
  <2>2. SatisfiesAll(v, {{y(k, n)} : k \in K, n \in N})
          <=> \A k \in K : \A n \in N : Satisfies(v, {y(k, n)})
    BY DEF SatisfiesAll
  <2> QED BY <2>1, <2>2 DEF K, N
<1>4. \A k : AssertedIn(e, v, k) <=> \A n \in DOMAIN e.assertion : v[y(k, n)]
  BY DEF AssertedIn
<1> HIDE DEF y
<1> QED BY <1>2, <1>3, <1>4

\* The registers, in numbers.
LEMMA RegisterFacts ==
  ASSUME NEW e \in Instances, NEW n \in DOMAIN e.dffs
  PROVE  /\ e.dffs[n].width \in Nat \ {0} /\ e.dffs[n].current \in Nat \ {0}
         /\ e.dffs[n].current + 2 * e.dffs[n].width <= e.final_index_oneinst - 1
<1> DEFINE Dff == [current : Nat \ {0}, width : Nat \ {0}]
           d == e.dffs
<1>1. d \in Seq(Dff) /\ n \in DOMAIN d
  BY InstanceFacts
<1>2. e.dffs[n].current + 2 * e.dffs[n].width <= e.final_index_oneinst - 1
  BY InstanceFacts
<1>3. d[n] \in Dff
  <2> HIDE DEF Dff, d
  <2> QED BY <1>1
<1> QED BY <1>2, <1>3

LEMMA EquMeaning ==
  ASSUME NEW m \in Nat, NEW v \in [1 .. m -> BOOLEAN], NEW a \in 1 .. m, NEW b \in 1 .. m
  PROVE  SatisfiesAll(v, encode_EQU(a, b)) <=> v[a] = v[b]
<1>1. \A x \in {a, b} : (True(v, x) <=> v[x]) /\ (True(v, -x) <=> ~v[x])
  BY DEF True
<1>2. SatisfiesAll(v, encode_EQU(a, b)) <=> Satisfies(v, {-a, b}) /\ Satisfies(v, {a, -b})
  BY DEF SatisfiesAll, encode_EQU
<1>3. /\ Satisfies(v, {-a, b}) <=> ~v[a] \/ v[b]
      /\ Satisfies(v, {a, -b}) <=> v[a] \/ ~v[b]
  BY <1>1 DEF Satisfies
<1> QED BY <1>2, <1>3

\* The frames from first to end are connected.
Linked(i, v, first, end) == \A k \in first .. (end - 1) : NextIn(i, v, k) = StateIn(i, v, k + 1)

LEMMA ConnectMeaning ==
  ASSUME NEW e \in Instances, NEW first \in Nat, NEW end \in Nat, NEW m \in Nat,
         (end + 1) * e.final_index_oneinst <= m, NEW v \in [1 .. m -> BOOLEAN]
  PROVE  SatisfiesAll(v, connect_multiple_instance(e, first, end)) <=> Linked(e, v, first, end)
<1> DEFINE f == e.final_index_oneinst
           cur(n) == e.dffs[n].current
           w(n) == e.dffs[n].width
           y(k, x) == x + (k + 1) * f
           z(k, n, x) == x + k * f + w(n)
           Same(k, n) == \A x \in cur(n) .. (cur(n) + w(n) - 1) : v[y(k, x)] = v[z(k, n, x)]
<1>1. f \in Nat
  BY InstanceFacts
<1>2. ASSUME NEW n \in DOMAIN e.dffs
      PROVE  w(n) \in Nat \ {0} /\ cur(n) \in Nat \ {0} /\ cur(n) + 2 * w(n) <= f - 1
  BY RegisterFacts
<1>3. ASSUME NEW k \in first .. (end - 1), NEW n \in DOMAIN e.dffs,
             NEW x \in cur(n) .. (cur(n) + w(n) - 1)
      PROVE  y(k, x) \in 1 .. m /\ z(k, n, x) \in 1 .. m
  <2> DEFINE c == cur(n)
             d == w(n)
             max == (end + 1) * f
  <2>1. d \in Nat \ {0} /\ c \in Nat \ {0} /\ c + 2 * d <= f - 1
    BY <1>2
  <2>2. x \in Int /\ c <= x /\ x <= c + d - 1
    BY <2>1
  <2>3. k \in Nat /\ k + 1 \in Nat /\ end + 1 \in Nat /\ k < end + 1 /\ k + 1 < end + 1
    OBVIOUS
  <2> HIDE DEF c, f
  <2>4. x \in 1 .. f /\ x + d \in 1 .. f
    <3> HIDE DEF d
    <3> QED BY <1>1, <2>1, <2>2
  <2>5. x + (k + 1) * f \in 1 .. max /\ (x + d) + k * f \in 1 .. max
    BY <1>1, <2>3, <2>4, Offset
  <2>6. (x + d) + k * f = z(k, n, x)
    <3>1. k * f \in Nat
      BY <1>1, <2>3
    <3> QED BY <2>1, <2>2, <3>1
  <2>7. 1 .. max \subseteq 1 .. m
    <3>1. max \in Nat /\ max <= m
      BY <1>1 DEF f
    <3> HIDE DEF max
    <3> QED BY <3>1
  <2> QED BY <2>5, <2>6, <2>7
<1>4. SatisfiesAll(v, connect_multiple_instance(e, first, end))
        <=> \A k \in first .. (end - 1) : \A n \in DOMAIN e.dffs :
              \A x \in cur(n) .. (cur(n) + w(n) - 1) : SatisfiesAll(v, encode_EQU(y(k, x), z(k, n, x)))
  <2> DEFINE K == first .. (end - 1)
             N == DOMAIN e.dffs
             X(n) == cur(n) .. (cur(n) + w(n) - 1)
             C(k, n) == connect_dffpair(e, k, e.dffs[n])
             E(k, n, x) == encode_EQU(y(k, x), z(k, n, x))
  <2>1. connect_multiple_instance(e, first, end) = UNION {C(k, n) : k \in K, n \in N}
    BY DEF connect_multiple_instance
  <2>2. \A k, n : C(k, n) = UNION {E(k, n, x) : x \in X(n)}
    BY DEF connect_dffpair
  <2> HIDE DEF K, N, X, C, E
  <2>3. SatisfiesAll(v, UNION {C(k, n) : k \in K, n \in N})
          <=> \A k \in K : \A n \in N : SatisfiesAll(v, C(k, n))
    BY DEF SatisfiesAll
  <2>4. \A k, n : SatisfiesAll(v, UNION {E(k, n, x) : x \in X(n)})
                  <=> \A x \in X(n) : SatisfiesAll(v, E(k, n, x))
    BY DEF SatisfiesAll
  <2>5. SatisfiesAll(v, connect_multiple_instance(e, first, end))
          <=> \A k \in K : \A n \in N : \A x \in X(n) : SatisfiesAll(v, E(k, n, x))
    BY <2>1, <2>2, <2>3, <2>4
  <2> QED BY <2>5 DEF K, N, X, E
<1>5. ASSUME NEW k \in first .. (end - 1), NEW n \in DOMAIN e.dffs,
             NEW x \in cur(n) .. (cur(n) + w(n) - 1)
      PROVE  SatisfiesAll(v, encode_EQU(y(k, x), z(k, n, x))) <=> v[y(k, x)] = v[z(k, n, x)]
  <2> DEFINE y0 == y(k, x)
             z0 == z(k, n, x)
  <2>1. y0 \in 1 .. m /\ z0 \in 1 .. m
    BY <1>3
  <2> HIDE DEF y0, z0
  <2>2. SatisfiesAll(v, encode_EQU(y0, z0)) <=> v[y0] = v[z0]
    BY <2>1, EquMeaning
  <2> QED BY <2>2 DEF y0, z0
<1>6. ASSUME NEW k \in first .. (end - 1), NEW n \in DOMAIN e.dffs
      PROVE  Same(k, n) <=> Register(e, n, w(n), v, k) = Register(e, n, 0, v, k + 1)
  <2> DEFINE c == cur(n)
             d == w(n)
             g == [b \in 1 .. d |-> v[c + d + b - 1 + k * f]]
             h == [b \in 1 .. d |-> v[c + 0 + b - 1 + (k + 1) * f]]
  <2>1. d \in Nat \ {0} /\ c \in Nat \ {0}
    BY <1>2
  <2>2. k * f \in Nat /\ (k + 1) * f \in Nat
    BY <1>1
  <2>3. g = h <=> \A b \in 1 .. d : v[c + d + b - 1 + k * f] = v[c + 0 + b - 1 + (k + 1) * f]
    OBVIOUS
  <2> HIDE DEF c, d, f
  <2>4. ASSUME NEW b \in 1 .. d
        PROVE  /\ c + d + b - 1 + k * f = (c + b - 1) + k * f + d
               /\ c + 0 + b - 1 + (k + 1) * f = (c + b - 1) + (k + 1) * f
               /\ c + b - 1 \in c .. (c + d - 1)
    BY <2>1, <2>2
  <2>5. ASSUME NEW x \in c .. (c + d - 1)
        PROVE  x - c + 1 \in 1 .. d /\ c + (x - c + 1) - 1 = x
    BY <2>1
  <2>6. (\A b \in 1 .. d : v[(c + b - 1) + k * f + d] = v[(c + b - 1) + (k + 1) * f])
          <=> \A x \in c .. (c + d - 1) : v[x + (k + 1) * f] = v[x + k * f + d]
    BY <2>4, <2>5
  <2>7. g = h <=> \A x \in c .. (c + d - 1) : v[x + (k + 1) * f] = v[x + k * f + d]
    BY <2>3, <2>4, <2>6
  <2>8. g = Register(e, n, d, v, k) /\ h = Register(e, n, 0, v, k + 1)
    BY DEF Register, c, d, f
  <2> HIDE DEF g, h
  <2> QED BY <2>7, <2>8 DEF c, d
<1>7. ASSUME NEW k \in first .. (end - 1)
      PROVE  NextIn(e, v, k) = StateIn(e, v, k + 1)
               <=> \A n \in DOMAIN e.dffs : Register(e, n, w(n), v, k) = Register(e, n, 0, v, k + 1)
  BY DEF NextIn, StateIn
<1> HIDE DEF y, z, w, cur
<1>8. SatisfiesAll(v, connect_multiple_instance(e, first, end))
        <=> \A k \in first .. (end - 1) : \A n \in DOMAIN e.dffs : Same(k, n)
  BY <1>4, <1>5
<1> HIDE DEF Same
<1> QED BY <1>6, <1>7, <1>8 DEF Linked

-----------------------------------------------------------------------------
(***************************************************************************)
(* Comparisons of vectors of the variables 1..max; the variables of the    *)
(* results are behind them, from index on.                                 *)
(***************************************************************************)
Equal(v, a, b) == \A n \in DOMAIN a : v[a[n]] <=> v[b[n]]

Compares(max, index, a, b, m, v) ==
  /\ max \in Nat /\ index \in Nat /\ max < index
  /\ a \in Seq(1 .. max) /\ b \in Seq(1 .. max) /\ Len(a) = Len(b)
  /\ m \in Nat /\ index + Len(a) <= m /\ v \in [1 .. m -> BOOLEAN]

LEMMA ComparesPair ==
  ASSUME NEW max, NEW index, NEW a, NEW b, NEW m, NEW v, Compares(max, index, a, b, m, v)
  PROVE  /\ Pair(m, v, Len(a), a, b) /\ Below(Len(a), a, b, index)
         /\ index \in Nat \ {0} /\ index + Len(a) <= m /\ DOMAIN a = 1 .. Len(a) /\ Len(a) \in Nat
<1> USE DEF Compares
<1>1. max <= m /\ max \in Nat /\ m \in Nat
  OBVIOUS
<1>2. 1 .. max \subseteq 1 .. m
  BY <1>1
<1>3. a \in Seq(1 .. m) /\ b \in Seq(1 .. m)
  BY <1>2, LargerRange
<1>4. \A i \in 1 .. Len(a) : a[i] \in 1 .. max /\ b[i] \in 1 .. max
  OBVIOUS
<1>5. Below(Len(a), a, b, index)
  BY <1>4 DEF Below
<1>6. index \in Nat \ {0} /\ index + Len(a) <= m /\ DOMAIN a = 1 .. Len(a) /\ Len(a) \in Nat
  OBVIOUS
<1>7. Pair(m, v, Len(a), a, b)
  BY <1>3, <1>6 DEF Pair
<1> QED BY <1>5, <1>6, <1>7

LEMMA CompareMeaning ==
  ASSUME NEW max, NEW index, NEW a, NEW b, NEW m, NEW v, Compares(max, index, a, b, m, v)
  PROVE  /\ SatisfiesAll(v, encode_EQUV_res(index, a, b)) => (v[index + Len(a)] <=> Equal(v, a, b))
         /\ SatisfiesAll(v, encode_INEV_res(index, a, b)) => (v[index + Len(a)] <=> ~Equal(v, a, b))
<1> DEFINE w == Len(a)
<1>1. Pair(m, v, w, a, b) /\ index \in Nat \ {0} /\ index + w <= m /\ DOMAIN a = 1 .. w
  BY ComparesPair
<1> HIDE DEF w
<1>2. /\ SatisfiesAll(v, encode_EQUV_res(index, a, b)) <=> AllEqual(v, w, a, b, index)
      /\ SatisfiesAll(v, encode_INEV_res(index, a, b)) <=> SomeDiffer(v, w, a, b, index)
  BY <1>1, EquvInevMeaning
<1>3. AllEqual(v, w, a, b, index) => (v[index + w] <=> Equal(v, a, b))
  BY <1>1 DEF AllEqual, Equal
<1>4. SomeDiffer(v, w, a, b, index) => (v[index + w] <=> ~Equal(v, a, b))
  BY <1>1 DEF SomeDiffer, Equal
<1> QED BY <1>2, <1>3, <1>4 DEF w

LEMMA CompareExtends ==
  ASSUME NEW max, NEW index, NEW a, NEW b, NEW m, NEW v, Compares(max, index, a, b, m, v)
  PROVE  /\ \E u : Agree(u, v, m, index, index + Len(a) + 1) /\ SatisfiesAll(u, encode_EQUV_res(index, a, b))
         /\ \E u : Agree(u, v, m, index, index + Len(a) + 1) /\ SatisfiesAll(u, encode_INEV_res(index, a, b))
<1> DEFINE w == Len(a)
<1>1. Pair(m, v, w, a, b) /\ index \in Nat \ {0} /\ index + w <= m /\ Below(w, a, b, index)
  BY ComparesPair
<1> HIDE DEF w
<1>2. /\ \E u : Agree(u, v, m, index, index + w + 1) /\ SatisfiesAll(u, encode_EQUV_res(index, a, b))
      /\ \E u : Agree(u, v, m, index, index + w + 1) /\ SatisfiesAll(u, encode_INEV_res(index, a, b))
  BY <1>1, EqualExtends
<1> QED BY <1>2 DEF w

LEMMA EqualKept ==
  ASSUME NEW max \in Nat, NEW a \in Seq(1 .. max), NEW b \in Seq(1 .. max), Len(a) = Len(b),
         NEW u, NEW v, \A x \in 1 .. max : u[x] = v[x]
  PROVE  Equal(u, a, b) <=> Equal(v, a, b)
<1>1. \A n \in DOMAIN a : a[n] \in 1 .. max /\ b[n] \in 1 .. max
  OBVIOUS
<1> QED BY <1>1 DEF Equal

\* construct_nonloop_bitIs: the bits are equal exactly if the clauses hold.
LEMMA EquvMeaning ==
  ASSUME NEW m \in Nat, NEW v \in [1 .. m -> BOOLEAN],
         NEW a \in Seq(1 .. m), NEW b \in Seq(1 .. m), Len(a) = Len(b)
  PROVE  SatisfiesAll(v, encode_EQUV(a, b)) <=> Equal(v, a, b)
<1>1. SatisfiesAll(v, encode_EQUV(a, b)) <=> \A n \in DOMAIN a : SatisfiesAll(v, encode_EQU(a[n], b[n]))
  BY DEF SatisfiesAll, encode_EQUV
<1>2. ASSUME NEW n \in DOMAIN a
      PROVE  SatisfiesAll(v, encode_EQU(a[n], b[n])) <=> (v[a[n]] <=> v[b[n]])
  <2> DEFINE x == a[n]
             y == b[n]
  <2>1. x \in 1 .. m /\ y \in 1 .. m
    OBVIOUS
  <2> HIDE DEF x, y
  <2>2. SatisfiesAll(v, encode_EQU(x, y)) <=> v[x] = v[y]
    BY <2>1, EquMeaning
  <2>3. v[x] \in BOOLEAN /\ v[y] \in BOOLEAN
    BY <2>1
  <2>4. SatisfiesAll(v, encode_EQU(x, y)) <=> (v[x] <=> v[y])
    BY <2>2, <2>3
  <2> QED BY <2>4 DEF x, y
<1> QED BY <1>1, <1>2 DEF Equal

\* double_loop: the result riii is true exactly if one of the comparisons is.
OneOf(res, S) == {S \cup {-res}} \cup {{-x, res} : x \in S}

LEMMA SomeMeaning ==
  ASSUME NEW m \in Nat, NEW v \in [1 .. m -> BOOLEAN], NEW res \in 1 .. m, NEW S \in SUBSET (1 .. m)
  PROVE  SatisfiesAll(v, OneOf(res, S)) <=> (v[res] <=> \E x \in S : v[x])
<1>1. \A x \in 1 .. m : (True(v, x) <=> v[x]) /\ (True(v, -x) <=> ~v[x])
  BY DEF True
<1>2. Satisfies(v, S \cup {-res}) <=> ~v[res] \/ \E x \in S : v[x]
  BY <1>1 DEF Satisfies
<1>3. \A x \in S : Satisfies(v, {-x, res}) <=> ~v[x] \/ v[res]
  BY <1>1 DEF Satisfies
<1>4. SatisfiesAll(v, OneOf(res, S))
        <=> Satisfies(v, S \cup {-res}) /\ \A x \in S : Satisfies(v, {-x, res})
  BY DEF SatisfiesAll, OneOf
<1> QED BY <1>2, <1>3, <1>4

-----------------------------------------------------------------------------
(***************************************************************************)
(* The inductive invariant: what a valuation that satisfies the clauses    *)
(* so far says of the two copies of the encoder, and that every valuation  *)
(* of their frames that is as asked for can be extended to one that        *)
(* satisfies them.                                                         *)
(***************************************************************************)
Instanced(v) ==
  \A k \in 0 .. (2 * size - 1) : SatisfiesAll(Slice(inst, v, k), inst.clause_list)

Connected(v) ==
  /\ \A k \in 0 .. (2 * size - 1) : AssertedIn(inst, v, k)
  /\ Linked(inst, v, 0, last)
  /\ Linked(inst, v, size, size + last)

SameInputs(v, s) == Equal(v, AtFrame(inst, s, 0 + p + l), AtFrame(inst, s, size + p + l))

Asked(v) ==
  /\ Instanced(v)
  /\ pc # "connect" => Connected(v)
  /\ split # <<>> => SameInputs(v, split[1]) /\ ~SameInputs(v, split[2])

SameOutputs(v) == Equal(v, Outputs(inst, p, last, 0), Outputs(inst, p, last, size))

SameStates(v, i, j) == Equal(v, Compared(inst, i, j, size)[1], Compared(inst, i, j, size)[2])

LoopIn(v, n) ==
  \E i, j \in Nat : Starti(n) <= i /\ i < j /\ j <= Endi(n) /\ SameStates(v, i, j)

\* The pairs of frames of the region that have been compared.
Done(i, j) ==
  /\ Starti(region) <= i /\ i < j /\ j <= Endi(region)
  /\ pc = "pairs" => i < li \/ (i = li /\ j < ri)

Meaning(v) ==
  /\ Asked(v)
  /\ Compare => (v[target] <=> SameOutputs(v) /\ (pc = "loop" => \A n \in 1 .. 3 : LoopIn(v, n)))
  /\ Looping => ((\E x \in equ : v[x]) <=> \E i, j \in Nat : Done(i, j) /\ SameStates(v, i, j))
  /\ \A n \in DOMAIN loops : v[loops[n]] <=> LoopIn(v, n)

\* The same frames, whatever the variables behind them.
Extends(u, v, m) == u \in [1 .. m -> BOOLEAN] /\ \A x \in 1 .. (2 * size * F) : u[x] = v[x]

Means ==
  Built =>
    \A m \in Nat : last_index - 1 <= m =>
      \A v \in [1 .. m -> BOOLEAN] :
        /\ SatisfiesAll(v, clause_list_multiple) => Meaning(v)
        /\ Asked(v) => \E u : Extends(u, v, m) /\ SatisfiesAll(u, clause_list_multiple)

Progress ==
  /\ split # <<>> => Compare /\ pc # "nonloop" /\ split \in Splits(inst)
  /\ pc \in {"nonloop", "bitIs"} => loops = <<>>
  /\ Looping => Len(loops) = region - 1 /\ Starti(region) <= li
  /\ pc \in {"red_and", "loop"} => Len(loops) = 3

LEMMA QueryKept ==
  ASSUME inst' = inst, window' = window
  PROVE  /\ size' = size /\ last' = last /\ F' = F /\ (2 * size * F)' = 2 * size * F
         /\ \A v : SameOutputs(v)' <=> SameOutputs(v)
         /\ \A v, i, j : SameStates(v, i, j)' <=> SameStates(v, i, j)
         /\ \A v, n : LoopIn(v, n)' <=> LoopIn(v, n)
         /\ \A v : Instanced(v)' <=> Instanced(v)
         /\ \A v : Connected(v)' <=> Connected(v)
         /\ \A v, s : SameInputs(v, s)' <=> SameInputs(v, s)
         /\ \A u, v, m : Extends(u, v, m)' <=> Extends(u, v, m)
<1>1. p' = p /\ l' = l /\ r' = r /\ F' = F
  BY DEF p, l, r, F
<1>2. size' = size /\ last' = last
  BY <1>1 DEF size, last
<1>3. \A v : SameOutputs(v)' <=> SameOutputs(v)
  BY <1>1, <1>2 DEF SameOutputs
<1>4. \A v, i, j : SameStates(v, i, j)' <=> SameStates(v, i, j)
  BY <1>1, <1>2 DEF SameStates
<1>5. \A v, n : LoopIn(v, n)' <=> LoopIn(v, n)
  BY <1>4, RegionsKept DEF LoopIn
<1>6. \A v : Instanced(v)' <=> Instanced(v)
  BY <1>2 DEF Instanced
<1>7. \A v : Connected(v)' <=> Connected(v)
  BY <1>2 DEF Connected
<1>8. \A v, s : SameInputs(v, s)' <=> SameInputs(v, s)
  BY <1>1, <1>2 DEF SameInputs
<1>9. (2 * size * F)' = 2 * size * F
  BY <1>1, <1>2
<1>10. \A u, v, m : Extends(u, v, m)' <=> Extends(u, v, m)
  BY <1>9 DEF Extends
<1> QED BY <1>1, <1>2, <1>3, <1>4, <1>5, <1>6, <1>7, <1>8, <1>9, <1>10

\* Clauses about new variables only: the rest of the list stays satisfied.
LEMMA GrowStep ==
  ASSUME IInv, Means, Built, inst' = inst, window' = window,
         NEW n \in Nat, last_index <= n, last_index' = n,
         NEW C, clause_list_multiple' = clause_list_multiple \cup C,
         \A m \in Nat : n - 1 <= m => \A v \in [1 .. m -> BOOLEAN] :
           /\ Meaning(v) /\ SatisfiesAll(v, C) => Meaning(v)'
           /\ Asked(v)' => /\ Asked(v)
                           /\ \A u : Extends(u, v, m) =>
                                \E t : Agree(t, u, m, last_index, n) /\ SatisfiesAll(t, C)
  PROVE  Means'
<1>1. 2 * size * F \in Nat /\ 2 * size * F < last_index /\ last_index \in Nat
  BY BuiltFacts
<1> SUFFICES ASSUME NEW m \in Nat, n - 1 <= m, NEW v \in [1 .. m -> BOOLEAN]
             PROVE  /\ SatisfiesAll(v, clause_list_multiple') => Meaning(v)'
                    /\ Asked(v)' => \E u : Extends(u, v, m)' /\ SatisfiesAll(u, clause_list_multiple')
  BY DEF Means
<1>2. last_index - 1 <= m
  BY <1>1
<1>3. SatisfiesAll(v, clause_list_multiple') => Meaning(v)'
  <2>1. SatisfiesAll(v, clause_list_multiple') => SatisfiesAll(v, clause_list_multiple) /\ SatisfiesAll(v, C)
    BY DEF SatisfiesAll
  <2> QED BY <1>2, <2>1 DEF Means
<1>4. ASSUME Asked(v)'
      PROVE  \E u : Extends(u, v, m)' /\ SatisfiesAll(u, clause_list_multiple')
  <2>1. PICK u : Extends(u, v, m) /\ SatisfiesAll(u, clause_list_multiple)
    BY <1>2, <1>4 DEF Means
  <2>2. PICK t : Agree(t, u, m, last_index, n) /\ SatisfiesAll(t, C)
    BY <1>4, <2>1
  <2>3. \A k \in 1 .. (last_index - 1) : t[k] = u[k]
    BY <1>1, <1>2, <2>2 DEF Agree
  <2>4. SatisfiesAll(t, clause_list_multiple)
    <3>1. \A c \in clause_list_multiple : IsClause(c, last_index - 1)
      BY DEF IInv, TypeOK
    <3>2. last_index - 1 \in Nat
      BY <1>1
    <3> QED BY <2>1, <2>3, <3>1, <3>2, SameClauses
  <2>5. Extends(t, v, m)
    <3>1. 1 .. (2 * size * F) \subseteq 1 .. (last_index - 1)
      BY <1>1
    <3> QED BY <2>1, <2>2, <2>3, <3>1 DEF Extends, Agree
  <2>6. Extends(t, v, m)'
    BY <2>5, QueryKept
  <2>7. SatisfiesAll(t, clause_list_multiple')
    BY <2>2, <2>4 DEF SatisfiesAll
  <2> QED BY <2>6, <2>7
<1> QED BY <1>3, <1>4

-----------------------------------------------------------------------------
(***************************************************************************)
(* The steps of the construction.                                          *)
(***************************************************************************)
LEMMA InstantiateMeans ==
  ASSUME IInv, Progress, Instantiate
  PROVE  Means'
<1>1. pc = "instances" /\ pc' = "connect" /\ ~Compare
  BY DEF Instantiate, Compare
<1>2. /\ inst' = inst /\ window' = window /\ split' = <<>> /\ loops' = <<>>
      /\ clause_list_multiple' = gen_multiple_instance(inst, 2 * size)
  BY <1>1 DEF Instantiate, loopVars, IInv, Allocated, Progress
<1>3. inst \in Instances /\ 2 * size \in Nat
  BY <1>1, WindowFacts
<1>4. ASSUME NEW v
      PROVE  SatisfiesAll(v, clause_list_multiple') <=> Instanced(v)
  BY <1>2, <1>3, InstancesMeaning DEF Instanced
<1>5. \A v : Asked(v)' <=> Instanced(v)
  <2>1. \A v : Instanced(v)' <=> Instanced(v)
    BY <1>2, QueryKept
  <2> QED BY <1>1, <1>2, <2>1 DEF Asked
<1>6. \A v : Meaning(v)' <=> Asked(v)'
  BY <1>1, <1>2 DEF Meaning, Compare, Looping
<1>7. \A m : \A v \in [1 .. m -> BOOLEAN] : Extends(v, v, m)'
  BY DEF Extends
<1> QED BY <1>4, <1>5, <1>6, <1>7 DEF Means

LEMMA ConnectMeans ==
  ASSUME IInv, Progress, Means, Connect
  PROVE  Means'
<1> DEFINE C == try_assertion(inst, 2 * size)
                  \cup connect_multiple_instance(inst, 0, last)
                  \cup connect_multiple_instance(inst, size, size + last)
           n == last_index
           max == 2 * size * F
<1>1. pc = "connect" /\ pc' = "outputs" /\ Built /\ ~Compare
  BY DEF Connect, Built, Compare
<1>2. /\ inst' = inst /\ window' = window /\ split' = <<>> /\ split = <<>> /\ loops' = <<>>
      /\ last_index' = n /\ clause_list_multiple' = clause_list_multiple \cup C
  BY <1>1 DEF Connect, loopVars, IInv, Allocated, Progress
<1>3. max \in Nat /\ max < n /\ n \in Nat /\ inst \in Instances
  BY <1>1, BuiltFacts
<1>4. /\ size \in Nat /\ last \in Nat /\ 2 * size \in Nat /\ size + last \in Nat
      /\ last < 2 * size /\ size + last < 2 * size /\ last + 1 <= 2 * size /\ (size + last) + 1 <= 2 * size
      /\ last + 1 \in Nat /\ (size + last) + 1 \in Nat
  BY <1>1, SizeFacts
<1>5. (last + 1) * F <= max /\ ((size + last) + 1) * F <= max /\ F = inst.final_index_oneinst
  <2>1. F \in Nat
    BY <1>1, SizeFacts
  <2> QED BY <1>4, <2>1, Product DEF F
<1>6. ASSUME NEW m \in Nat, max <= m, NEW v \in [1 .. m -> BOOLEAN]
      PROVE  SatisfiesAll(v, C) <=> Connected(v)
  <2> DEFINE f == inst.final_index_oneinst
             A == try_assertion(inst, 2 * size)
             B1 == connect_multiple_instance(inst, 0, last)
             B2 == connect_multiple_instance(inst, size, size + last)
  <2>1. SatisfiesAll(v, A) <=> \A k \in 0 .. (2 * size - 1) : AssertedIn(inst, v, k)
    BY <1>3, <1>4, AssertionMeaning
  <2>2. (last + 1) * f <= m /\ ((size + last) + 1) * f <= m
    <3>1. (last + 1) * F \in Nat /\ ((size + last) + 1) * F \in Nat
      <4>1. F \in Nat
        BY <1>1, SizeFacts
      <4> QED BY <1>4, <4>1
    <3> HIDE DEF max
    <3> QED BY <1>3, <1>5, <1>6, <3>1
  <2>3. SatisfiesAll(v, B1) <=> Linked(inst, v, 0, last)
    <3> HIDE DEF max, n, C
    <3> QED BY <1>3, <1>4, <2>2, ConnectMeaning
  <2>4. SatisfiesAll(v, B2) <=> Linked(inst, v, size, size + last)
    <3> DEFINE end == size + last
    <3>1. end \in Nat /\ (end + 1) * f <= m
      BY <1>4, <2>2
    <3> HIDE DEF max, n, C, end
    <3>2. SatisfiesAll(v, connect_multiple_instance(inst, size, end)) <=> Linked(inst, v, size, end)
      BY <1>3, <1>4, <3>1, ConnectMeaning
    <3> QED BY <3>2 DEF end
  <2>5. SatisfiesAll(v, C) <=> SatisfiesAll(v, A) /\ SatisfiesAll(v, B1) /\ SatisfiesAll(v, B2)
    BY DEF SatisfiesAll
  <2> HIDE DEF A, B1, B2, C
  <2> QED BY <2>1, <2>3, <2>4, <2>5 DEF Connected
<1>7. \A c \in C : IsClause(c, max)
  <2>1. \A c \in try_assertion(inst, 2 * size) : IsClause(c, max)
    BY <1>3, <1>4, AssertionClauses DEF F
  <2>2. \A c \in connect_multiple_instance(inst, 0, last) : IsClause(c, max)
    BY <1>3, <1>4, ConnectClauses DEF F
  <2>3. \A c \in connect_multiple_instance(inst, size, size + last) : IsClause(c, max)
    BY <1>3, <1>4, ConnectClauses DEF F
  <2> QED BY <2>1, <2>2, <2>3
<1> HIDE DEF C
<1>8. ASSUME NEW m \in Nat, n - 1 <= m, NEW v \in [1 .. m -> BOOLEAN]
      PROVE  /\ Meaning(v) /\ SatisfiesAll(v, C) => Meaning(v)'
             /\ Asked(v)' => /\ Asked(v)
                             /\ \A u : Extends(u, v, m) =>
                                  \E t : Agree(t, u, m, last_index, n) /\ SatisfiesAll(t, C)
  <2>1. max <= m
    <3> HIDE DEF max
    <3> QED BY <1>3, <1>8
  <2>2. Asked(v)' <=> Instanced(v) /\ Connected(v)
    BY <1>1, <1>2, QueryKept DEF Asked
  <2>3. Meaning(v)' <=> Asked(v)'
    BY <1>1, <1>2 DEF Meaning, Compare, Looping
  <2>4. Meaning(v) => Instanced(v)
    BY DEF Meaning, Asked
  <2>5. Instanced(v) => Asked(v)
    BY <1>1, <1>2 DEF Asked
  <2>6. SatisfiesAll(v, C) <=> Connected(v)
    BY <1>6, <2>1
  <2>7. ASSUME NEW u, Extends(u, v, m), SatisfiesAll(v, C)
        PROVE  Agree(u, u, m, last_index, n) /\ SatisfiesAll(u, C)
    <3>1. u \in [1 .. m -> BOOLEAN] /\ \A x \in 1 .. max : u[x] = v[x]
      BY <2>7 DEF Extends
    <3> HIDE DEF max
    <3> QED BY <1>3, <1>7, <2>7, <3>1, SameClauses DEF Agree
  <2> QED BY <2>2, <2>3, <2>4, <2>5, <2>6, <2>7
<1>9. last_index <= n
  BY <1>3
<1> HIDE DEF n
<1> QED BY <1>1, <1>2, <1>3, <1>8, <1>9, GrowStep

LEMMA CompareOutputsMeans ==
  ASSUME IInv, Progress, Means, CompareOutputs
  PROVE  Means'
<1> DEFINE a == Outputs(inst, p, last, 0)
           b == Outputs(inst, p, last, size)
           max == 2 * size * F
           C == encode_EQUV_res(last_index, a, b)
           n == last_index + Len(a) + 1
<1>1. pc = "outputs" /\ pc' = "nonloop" /\ Built /\ ~Compare /\ Compare' /\ ~Looping' /\ pc # "loop"
  BY DEF CompareOutputs, Built, Compare, Looping
<1>2. /\ inst' = inst /\ window' = window /\ split' = split /\ loops' = <<>>
      /\ target' = last_index + Len(a)
      /\ last_index' = n /\ clause_list_multiple' = clause_list_multiple \cup C
  BY <1>1 DEF CompareOutputs, loopVars, IInv, Allocated, Progress
<1>3. /\ a \in Seq(1 .. max) /\ b \in Seq(1 .. max) /\ Len(a) = Len(b)
      /\ max \in Nat /\ max < last_index /\ last_index \in Nat
  BY <1>1, OutputVectors, BuiltFacts
<1>4. \A v : SameOutputs(v)' <=> Equal(v, a, b)
  BY <1>2, QueryKept DEF SameOutputs
<1> HIDE DEF a, b, max
<1>5. Len(a) \in Nat /\ n \in Nat /\ last_index <= n
  BY <1>3
<1>6. ASSUME NEW m \in Nat, n - 1 <= m, NEW v \in [1 .. m -> BOOLEAN]
      PROVE  /\ Meaning(v) /\ SatisfiesAll(v, C) => Meaning(v)'
             /\ Asked(v)' => /\ Asked(v)
                             /\ \A u : Extends(u, v, m) =>
                                  \E t : Agree(t, u, m, last_index, n) /\ SatisfiesAll(t, C)
  <2>1. Compares(max, last_index, a, b, m, v)
    BY <1>3, <1>6 DEF Compares
  <2>2. Asked(v)' <=> Asked(v)
    BY <1>1, <1>2, QueryKept DEF Asked
  <2>3. Meaning(v)' <=> Asked(v)' /\ (v[target'] <=> SameOutputs(v)')
    BY <1>1, <1>2 DEF Meaning
  <2>4. SatisfiesAll(v, C) => (v[target'] <=> SameOutputs(v)')
    BY <1>2, <1>4, <2>1, CompareMeaning
  <2>5. ASSUME NEW u, Extends(u, v, m)
        PROVE  \E t : Agree(t, u, m, last_index, n) /\ SatisfiesAll(t, C)
    <3>1. Compares(max, last_index, a, b, m, u)
      BY <2>1, <2>5 DEF Compares, Extends
    <3> QED BY <3>1, CompareExtends
  <2> QED BY <2>2, <2>3, <2>4, <2>5 DEF Meaning
<1> HIDE DEF n, C
<1> QED BY <1>1, <1>2, <1>5, <1>6, GrowStep

LEMMA BitIsMeans ==
  ASSUME IInv, Progress, Means, BitIs
  PROVE  Means'
<1>1. PICK s \in Splits(inst) :
        LET uniq(copy) == AtFrame(inst, s[1], copy + p + l)
            nonuniq(copy) == AtFrame(inst, s[2], copy + p + l)
        IN /\ split' = s
           /\ clause_list_multiple' = clause_list_multiple
                \cup encode_EQUV(uniq(0), uniq(size))
                \cup encode_INEV(last_index, nonuniq(0), nonuniq(size))
           /\ last_index' = last_index + Len(s[2]) + 1
  BY DEF BitIs
<1> DEFINE u0 == AtFrame(inst, s[1], 0 + p + l)
           u1 == AtFrame(inst, s[1], size + p + l)
           a == AtFrame(inst, s[2], 0 + p + l)
           b == AtFrame(inst, s[2], size + p + l)
           max == 2 * size * F
           D == encode_EQUV(u0, u1)
           C == D \cup encode_INEV(last_index, a, b)
           n == last_index + Len(a) + 1
<1>2. pc = "nonloop" /\ pc' = "bitIs" /\ Built /\ Compare /\ Compare' /\ ~Looping' /\ split = <<>>
  <2>1. pc = "nonloop" /\ pc' = "bitIs" /\ Built /\ Compare /\ Compare' /\ ~Looping'
    BY DEF BitIs, Built, Compare, Looping
  <2>2. split = <<>>
    BY <2>1 DEF Progress
  <2> QED BY <2>1, <2>2
<1>3. s[1] \in Seq(1 .. (F - 2)) /\ s[2] \in Seq(1 .. (F - 2))
  BY <1>2, SizeFacts, SplitAssumption
<1>4. /\ 0 + p + l \in Nat /\ 0 + p + l < 2 * size
      /\ size + p + l \in Nat /\ size + p + l < 2 * size
  <2>1. p \in Nat /\ l \in Nat /\ r \in Nat /\ size = p + l + 1 + r
    BY <1>2, SizeFacts
  <2> QED BY <2>1
<1>5. /\ u0 \in Seq(1 .. max) /\ u1 \in Seq(1 .. max) /\ Len(u0) = Len(u1)
      /\ a \in Seq(1 .. max) /\ b \in Seq(1 .. max) /\ Len(a) = Len(s[2]) /\ Len(b) = Len(s[2])
  BY <1>2, <1>3, <1>4, InputVector
<1>6. max \in Nat /\ max < last_index /\ last_index \in Nat
  BY <1>2, BuiltFacts
<1>7. /\ inst' = inst /\ window' = window /\ split' = s /\ loops' = loops /\ target' = target
      /\ last_index' = n /\ clause_list_multiple' = clause_list_multiple \cup C
  BY <1>1, <1>5 DEF BitIs, loopVars
<1>8. \A v : /\ SameInputs(v, s[1]) <=> Equal(v, u0, u1)
             /\ SameInputs(v, s[2]) <=> Equal(v, a, b)
  BY DEF SameInputs
<1> HIDE DEF u0, u1, a, b, max
<1>9. Len(a) \in Nat /\ n \in Nat /\ last_index <= n
  BY <1>5, <1>6
<1>10. \A v : Asked(v)' => Asked(v) /\ SameInputs(v, s[1]) /\ ~SameInputs(v, s[2])
  <2>1. s # <<>>
    <3> DEFINE S == Seq(1 .. (F - 2))
    <3>1. s \in S \X S
      BY <1>2, SizeFacts, SplitAssumption
    <3>2. <<>> \notin S \X S
      <4> HIDE DEF S
      <4> QED OBVIOUS
    <3> QED BY <3>1, <3>2
  <2> QED BY <1>2, <1>7, <2>1, QueryKept DEF Asked
<1>11. \A v : Asked(v) /\ SameInputs(v, s[1]) /\ ~SameInputs(v, s[2]) => Asked(v)'
  BY <1>2, <1>7, QueryKept DEF Asked
<1>12. ASSUME NEW m \in Nat, n - 1 <= m, NEW v \in [1 .. m -> BOOLEAN]
       PROVE  /\ Meaning(v) /\ SatisfiesAll(v, C) => Meaning(v)'
              /\ Asked(v)' => /\ Asked(v)
                              /\ \A u : Extends(u, v, m) =>
                                   \E t : Agree(t, u, m, last_index, n) /\ SatisfiesAll(t, C)
  <2>1. Compares(max, last_index, a, b, m, v)
    BY <1>5, <1>6, <1>12 DEF Compares
  <2>2. max <= m
    BY <1>6, <1>9, <1>12
  <2>3. \A t \in [1 .. m -> BOOLEAN] : SatisfiesAll(t, D) <=> Equal(t, u0, u1)
    <3>1. 1 .. max \subseteq 1 .. m
      BY <1>6, <2>2
    <3>2. u0 \in Seq(1 .. m) /\ u1 \in Seq(1 .. m) /\ Len(u0) = Len(u1)
      BY <1>5, <3>1, LargerRange
    <3> QED BY <3>2, EquvMeaning
  <2>4. \A t : SatisfiesAll(t, C)
                 <=> /\ SatisfiesAll(t, D) /\ SatisfiesAll(t, encode_INEV_res(last_index, a, b))
                     /\ Satisfies(t, {last_index + Len(a)})
    BY DEF SatisfiesAll, encode_INEV
  <2>5. \A t : Satisfies(t, {last_index + Len(a)}) <=> t[last_index + Len(a)]
    BY <1>5, <1>6, <1>9 DEF Satisfies, True
  <2>6. Meaning(v) /\ SatisfiesAll(v, C) => Meaning(v)'
    <3>1. SatisfiesAll(v, C) => SameInputs(v, s[1]) /\ ~SameInputs(v, s[2])
      BY <1>8, <2>1, <2>3, <2>4, <2>5, CompareMeaning
    <3>2. Meaning(v) /\ Asked(v)' => Meaning(v)'
      BY <1>2, <1>7, QueryKept DEF Meaning
    <3> QED BY <1>11, <3>1, <3>2 DEF Meaning
  <2>7. ASSUME NEW u, Extends(u, v, m), Asked(v)'
        PROVE  \E t : Agree(t, u, m, last_index, n) /\ SatisfiesAll(t, C)
    <3>1. Equal(v, u0, u1) /\ ~Equal(v, a, b)
      BY <1>8, <1>10, <2>7
    <3>2. u \in [1 .. m -> BOOLEAN] /\ \A x \in 1 .. max : u[x] = v[x]
      BY <2>7 DEF Extends, max
    <3>3. Compares(max, last_index, a, b, m, u)
      BY <2>1, <3>2 DEF Compares
    <3>4. PICK t : Agree(t, u, m, last_index, n) /\ SatisfiesAll(t, encode_INEV_res(last_index, a, b))
      BY <3>3, CompareExtends
    <3>5. t \in [1 .. m -> BOOLEAN] /\ \A x \in 1 .. max : t[x] = v[x]
      BY <1>6, <2>2, <3>2, <3>4 DEF Agree
    <3>6. Equal(t, u0, u1) /\ ~Equal(t, a, b)
      BY <1>5, <1>6, <3>1, <3>5, EqualKept
    <3>7. Compares(max, last_index, a, b, m, t)
      BY <2>1, <3>5 DEF Compares
    <3>8. t[last_index + Len(a)]
      BY <3>4, <3>6, <3>7, CompareMeaning
    <3>9. SatisfiesAll(t, C)
      BY <2>3, <2>4, <2>5, <3>4, <3>5, <3>6, <3>8
    <3> QED BY <3>4, <3>9
  <2> QED BY <1>10, <2>6, <2>7
<1> HIDE DEF n, C, D
<1> QED BY <1>2, <1>7, <1>9, <1>12, GrowStep

LEMMA BeginLoopMeans ==
  ASSUME IInv, Progress, Means, BeginLoop
  PROVE  Means'
<1> DEFINE n == last_index
<1>1. pc \in {"nonloop", "bitIs"} /\ pc' = "pairs" /\ Built /\ Compare /\ Compare' /\ Looping'
  BY DEF BeginLoop, Built, Compare, Looping
<1>2. /\ inst' = inst /\ window' = window /\ split' = split /\ target' = target /\ loops' = <<>>
      /\ last_index' = n /\ clause_list_multiple' = clause_list_multiple \cup {}
      /\ region' = 1 /\ li' = 0 /\ ri' = 1 /\ equ' = {}
  BY <1>1 DEF BeginLoop, EnterRegion, Starti, Progress
<1>3. n \in Nat /\ last_index <= n
  BY <1>1, BuiltFacts
<1>4. \A v : Asked(v)' <=> Asked(v)
  BY <1>1, <1>2, QueryKept DEF Asked
<1>5. \A i, j \in Nat : ~Done(i, j)'
  <2>1. Starti(region)' = 0
    BY <1>2 DEF Starti
  <2> QED BY <1>1, <1>2, <2>1 DEF Done
<1>6. \A v : Meaning(v) => Meaning(v)'
  BY <1>1, <1>2, <1>4, <1>5, QueryKept DEF Meaning
<1>7. ASSUME NEW m \in Nat, n - 1 <= m, NEW v \in [1 .. m -> BOOLEAN]
      PROVE  /\ Meaning(v) /\ SatisfiesAll(v, {}) => Meaning(v)'
             /\ Asked(v)' => /\ Asked(v)
                             /\ \A u : Extends(u, v, m) =>
                                  \E t : Agree(t, u, m, last_index, n) /\ SatisfiesAll(t, {})
  <2>1. \A u : Extends(u, v, m) => Agree(u, u, m, last_index, n) /\ SatisfiesAll(u, {})
    BY DEF Extends, Agree, SatisfiesAll
  <2> QED BY <1>4, <1>6, <2>1
<1> HIDE DEF n
<1> QED BY <1>1, <1>2, <1>3, <1>7, GrowStep

\* The order in which double_loop goes through the pairs of a region.
LEMMA PairsStep ==
  ASSUME IInv, Progress, ComparePair, NEW i \in Nat, NEW j \in Nat
  PROVE  Done(i, j)' <=> Done(i, j) \/ (i = li /\ j = ri)
<1> DEFINE end == Endi(region)
           start == Starti(region)
<1>1. pc = "pairs" /\ Built /\ Looping /\ region' = region /\ window' = window
  BY DEF ComparePair, Built, Looping
<1>2. /\ region \in 1 .. 3 /\ p > 0 /\ l > 0 /\ r > 1
      /\ li \in Nat /\ ri \in Nat /\ li < ri /\ ri <= end /\ start <= li
  BY <1>1 DEF IInv, InRegion, Progress
<1>3. start \in Nat /\ end \in Nat
  BY <1>1, <1>2, RegionFacts
<1>4. Endi(region)' = end /\ Starti(region)' = start
  BY <1>1 DEF Endi, Starti, last, p, l, r
<1>5. \/ ri < end /\ ri' = ri + 1 /\ li' = li /\ pc' = "pairs"
      \/ ~(ri < end) /\ li < end - 1 /\ li' = li + 1 /\ ri' = li + 2 /\ pc' = "pairs"
      \/ ~(ri < end) /\ ~(li < end - 1) /\ pc' = "region"
  BY <1>1 DEF ComparePair
<1> DEFINE In == start <= i /\ i < j /\ j <= end
<1>6. Done(i, j) <=> In /\ (i < li \/ (i = li /\ j < ri))
  BY <1>1 DEF Done
<1>7. Done(i, j)' <=> In /\ (pc' = "pairs" => i < li' \/ (i = li' /\ j < ri'))
  BY <1>4 DEF Done
<1> HIDE DEF end, start
<1>8. CASE ri < end /\ ri' = ri + 1 /\ li' = li /\ pc' = "pairs"
  BY <1>2, <1>3, <1>6, <1>7, <1>8
<1>9. CASE ~(ri < end) /\ li < end - 1 /\ li' = li + 1 /\ ri' = li + 2 /\ pc' = "pairs"
  BY <1>2, <1>3, <1>6, <1>7, <1>9
<1>10. CASE ~(ri < end) /\ ~(li < end - 1) /\ pc' = "region"
  BY <1>2, <1>3, <1>6, <1>7, <1>10
<1> QED BY <1>5, <1>8, <1>9, <1>10

LEMMA ComparePairMeans ==
  ASSUME IInv, Progress, Means, ComparePair
  PROVE  Means'
<1> DEFINE a == Compared(inst, li, ri, size)[1]
           b == Compared(inst, li, ri, size)[2]
           max == 2 * size * F
           C == encode_EQUV_res(last_index, a, b)
           new == last_index + Len(a)
           n == last_index + Len(a) + 1
<1>1. /\ pc = "pairs" /\ Built /\ Compare /\ Looping /\ pc' \in {"pairs", "region"}
      /\ Compare' /\ Looping'
  BY DEF ComparePair, Built, Compare, Looping
<1>2. /\ inst' = inst /\ window' = window /\ split' = split /\ target' = target /\ loops' = loops
      /\ last_index' = n /\ equ' = equ \cup {new}
      /\ clause_list_multiple' = clause_list_multiple \cup C
  BY DEF ComparePair
<1>3. /\ region \in 1 .. 3 /\ p > 0 /\ l > 0 /\ r > 1
      /\ li \in Nat /\ ri \in Nat /\ li < ri /\ ri <= Endi(region)
  BY <1>1 DEF IInv, InRegion
<1>4. Endi(region) \in Nat /\ Endi(region) <= last /\ last \in Nat
  BY <1>1, <1>3, RegionFacts, BuiltFacts
<1>5. li \in 0 .. last /\ ri \in 0 .. last
  BY <1>3, <1>4
<1>6. /\ a \in Seq(1 .. max) /\ b \in Seq(1 .. max) /\ Len(a) = Len(b)
      /\ max \in Nat /\ max < last_index /\ last_index \in Nat
  BY <1>1, <1>5, StateVectors, BuiltFacts
<1>7. \A v : SameStates(v, li, ri) <=> Equal(v, a, b)
  BY DEF SameStates
<1>8. \A v : Asked(v)' <=> Asked(v)
  BY <1>1, <1>2, QueryKept DEF Asked
<1>9. \A v : (\E x \in equ' : v[x]) <=> (\E x \in equ : v[x]) \/ v[new]
  BY <1>2
<1>10. \A v : (\E i, j \in Nat : Done(i, j)' /\ SameStates(v, i, j)')
                <=> (\E i, j \in Nat : Done(i, j) /\ SameStates(v, i, j)) \/ SameStates(v, li, ri)
  <2>1. \A v, i, j : SameStates(v, i, j)' <=> SameStates(v, i, j)
    BY <1>2, QueryKept
  <2>2. \A i, j \in Nat : Done(i, j)' <=> Done(i, j) \/ (i = li /\ j = ri)
    BY PairsStep
  <2> QED BY <1>3, <2>1, <2>2
<1> HIDE DEF a, b, max
<1>11. Len(a) \in Nat /\ n \in Nat /\ last_index <= n
  BY <1>6
<1>12. ASSUME NEW v, Meaning(v), v[new] <=> SameStates(v, li, ri)
       PROVE  Meaning(v)'
  <2>1. pc # "loop" /\ pc' # "loop"
    BY <1>1
  <2>2. (\E x \in equ : v[x]) <=> \E i, j \in Nat : Done(i, j) /\ SameStates(v, i, j)
    BY <1>1, <1>12 DEF Meaning
  <2>3. (\E x \in equ' : v[x]) <=> \E i, j \in Nat : Done(i, j)' /\ SameStates(v, i, j)'
    BY <1>9, <1>10, <1>12, <2>2
  <2>4. Asked(v)' /\ (v[target'] <=> SameOutputs(v)')
    BY <1>1, <1>2, <1>8, <1>12, <2>1, QueryKept DEF Meaning
  <2>5. \A k \in DOMAIN loops' : v[loops'[k]] <=> LoopIn(v, k)'
    BY <1>2, <1>12, QueryKept DEF Meaning
  <2> QED BY <2>1, <2>3, <2>4, <2>5 DEF Meaning
<1>13. ASSUME NEW m \in Nat, n - 1 <= m, NEW v \in [1 .. m -> BOOLEAN]
       PROVE  /\ Meaning(v) /\ SatisfiesAll(v, C) => Meaning(v)'
              /\ Asked(v)' => /\ Asked(v)
                              /\ \A u : Extends(u, v, m) =>
                                   \E t : Agree(t, u, m, last_index, n) /\ SatisfiesAll(t, C)
  <2>1. Compares(max, last_index, a, b, m, v)
    BY <1>6, <1>13 DEF Compares
  <2>2. SatisfiesAll(v, C) => (v[new] <=> SameStates(v, li, ri))
    BY <1>7, <2>1, CompareMeaning
  <2>3. ASSUME NEW u, Extends(u, v, m)
        PROVE  \E t : Agree(t, u, m, last_index, n) /\ SatisfiesAll(t, C)
    <3>1. Compares(max, last_index, a, b, m, u)
      BY <2>1, <2>3 DEF Compares, Extends
    <3> QED BY <3>1, CompareExtends
  <2> QED BY <1>8, <1>12, <2>2, <2>3
<1> HIDE DEF n, C
<1> QED BY <1>1, <1>2, <1>11, <1>13, GrowStep

\* A valuation with another value of one variable.
LEMMA OneMore ==
  ASSUME NEW m \in Nat, NEW u \in [1 .. m -> BOOLEAN], NEW x \in 1 .. m, NEW c \in BOOLEAN
  PROVE  \E t : Agree(t, u, m, x, x + 1) /\ t[x] = c
<1> DEFINE t == [u EXCEPT ![x] = c]
<1>1. t \in [1 .. m -> BOOLEAN] /\ t[x] = c /\ \A k \in 1 .. m : k # x => t[k] = u[k]
  OBVIOUS
<1>2. \A k \in 1 .. m : k < x \/ k >= x + 1 => k # x
  OBVIOUS
<1> HIDE DEF t
<1> QED BY <1>1, <1>2 DEF Agree

LEMMA EndRegionMeans ==
  ASSUME IInv, Progress, Means, EndRegion
  PROVE  Means'
<1> DEFINE res == last_index
           C == OneOf(res, equ)
           n == last_index + 1
<1>1. /\ pc = "region" /\ Built /\ Compare /\ Looping /\ pc' \in {"pairs", "red_and"}
      /\ Compare' /\ pc # "connect" /\ pc' # "connect" /\ pc' # "loop" /\ pc # "loop"
  BY DEF EndRegion, Built, Compare, Looping
<1>2. /\ inst' = inst /\ window' = window /\ split' = split /\ target' = target
      /\ loops' = Append(loops, res)
      /\ last_index' = n /\ clause_list_multiple' = clause_list_multiple \cup C
  BY DEF EndRegion, OneOf
<1>3. /\ region \in 1 .. 3 /\ p > 0 /\ l > 0 /\ r > 1 /\ Len(loops) = region - 1
  BY <1>1 DEF IInv, InRegion, Progress
<1>4. n \in Nat /\ res \in Nat \ {0} /\ last_index <= n /\ n - 1 = res
  BY <1>1, BuiltFacts
<1>5. equ \subseteq 1 .. (res - 1) /\ loops \in Seq(1 .. (res - 1))
  BY <1>4, GrownLists
<1>6. \A v : (\E i, j \in Nat : Done(i, j) /\ SameStates(v, i, j)) <=> LoopIn(v, region)
  BY <1>1 DEF Done, LoopIn
<1>7. \A v : Asked(v)' <=> Asked(v)
  BY <1>1, <1>2, QueryKept DEF Asked
<1>8. /\ DOMAIN loops' = 1 .. region /\ loops'[region] = res
      /\ \A k \in 1 .. region : k # region => k \in DOMAIN loops /\ loops'[k] = loops[k]
  <2> HIDE DEF res
  <2> QED BY <1>2, <1>3, <1>4, <1>5
<1>9. Looping' => equ' = {} /\ \A i, j \in Nat : ~Done(i, j)'
  <2> SUFFICES ASSUME pc' = "pairs"
               PROVE  equ' = {} /\ \A i, j \in Nat : ~Done(i, j)'
    BY <1>1 DEF Looping
  <2> DEFINE s == Starti(region + 1)
  <2>1. region' = region + 1 /\ equ' = {} /\ li' = s /\ ri' = s + 1 /\ region + 1 \in 1 .. 3
    BY <1>3 DEF EndRegion, EnterRegion
  <2>2. s \in Nat
    BY <1>1, <1>3, <2>1, RegionFacts
  <2>3. Starti(region)' = s
    BY <1>2, <2>1 DEF Starti, p, l
  <2> HIDE DEF s
  <2>4. \A i, j \in Nat : Done(i, j)' => s <= i /\ i < j /\ (i < s \/ (i = s /\ j < s + 1))
    BY <2>1, <2>3 DEF Done
  <2> QED BY <2>1, <2>2, <2>4
<1>10. ASSUME NEW v, Meaning(v), v[res] <=> \E x \in equ : v[x]
       PROVE  Meaning(v)'
  <2>1. v[res] <=> LoopIn(v, region)
    BY <1>1, <1>6, <1>10 DEF Meaning
  <2>2. Asked(v)' /\ (v[target'] <=> SameOutputs(v)')
    BY <1>1, <1>2, <1>7, <1>10, QueryKept DEF Meaning
  <2>3. \A k \in DOMAIN loops' : v[loops'[k]] <=> LoopIn(v, k)
    BY <1>8, <1>10, <2>1 DEF Meaning
  <2>4. \A k \in DOMAIN loops' : v[loops'[k]] <=> LoopIn(v, k)'
    BY <1>2, <2>3, QueryKept
  <2> QED BY <1>1, <1>9, <2>2, <2>4 DEF Meaning
<1>11. ASSUME NEW m \in Nat, n - 1 <= m, NEW v \in [1 .. m -> BOOLEAN]
       PROVE  /\ Meaning(v) /\ SatisfiesAll(v, C) => Meaning(v)'
              /\ Asked(v)' => /\ Asked(v)
                              /\ \A u : Extends(u, v, m) =>
                                   \E t : Agree(t, u, m, last_index, n) /\ SatisfiesAll(t, C)
  <2>1. res \in 1 .. m /\ equ \in SUBSET (1 .. m) /\ \A x \in equ : x < res
    BY <1>4, <1>5, <1>11
  <2>2. SatisfiesAll(v, C) => (v[res] <=> \E x \in equ : v[x])
    BY <2>1, SomeMeaning
  <2>3. ASSUME NEW u, Extends(u, v, m)
        PROVE  \E t : Agree(t, u, m, last_index, n) /\ SatisfiesAll(t, C)
    <3>1. u \in [1 .. m -> BOOLEAN]
      BY <2>3 DEF Extends
    <3> DEFINE c == \E x \in equ : u[x]
    <3>2. PICK t : Agree(t, u, m, res, res + 1) /\ t[res] = c
      <4>1. c \in BOOLEAN
        OBVIOUS
      <4> HIDE DEF c, res
      <4> QED BY <2>1, <3>1, <4>1, OneMore
    <3>3. t \in [1 .. m -> BOOLEAN] /\ \A x \in equ : t[x] = u[x]
      BY <2>1, <3>2 DEF Agree
    <3>4. t[res] <=> \E x \in equ : t[x]
      BY <3>2, <3>3
    <3>5. SatisfiesAll(t, C)
      <4> HIDE DEF res
      <4> QED BY <2>1, <3>3, <3>4, SomeMeaning
    <3> QED BY <3>2, <3>5
  <2> QED BY <1>7, <1>10, <2>2, <2>3
<1> HIDE DEF n, C
<1> QED BY <1>1, <1>2, <1>4, <1>11, GrowStep

\* A list of three and one entry before it.
Precedes(x, s, q) == q = <<x>> \o s

Joined(x, s, q, S) ==
  /\ q \in Seq(S) /\ DOMAIN q = 1 .. 4 /\ DOMAIN s = 1 .. 3
  /\ q[1] = x
  /\ \A k \in 1 .. 3 : q[k + 1] = s[k]

LEMMA Preceded ==
  ASSUME NEW S, NEW x \in S, NEW s \in Seq(S), Len(s) = 3, NEW q, Precedes(x, s, q)
  PROVE  Joined(x, s, q, S)
<1> DEFINE one == <<x>>
<1>0. q = one \o s
  BY DEF Precedes
<1>1. one \in Seq(S) /\ Len(one) = 1 /\ one[1] = x /\ Len(s) \in Nat
  OBVIOUS
<1> HIDE DEF one
<1>2. /\ q \in Seq(S) /\ Len(q) = 1 + Len(s)
      /\ \A k \in 1 .. (1 + Len(s)) : q[k] = IF k <= 1 THEN one[k] ELSE s[k - 1]
  <2>1. /\ q \in Seq(S) /\ Len(q) = Len(one) + Len(s)
        /\ \A k \in 1 .. Len(one) + Len(s) : q[k] = IF k <= Len(one) THEN one[k] ELSE s[k - Len(one)]
    BY <1>0, <1>1, ConcatProperties, Zenon
  <2> QED BY <1>1, <2>1
<1>3. DOMAIN q = 1 .. 4 /\ DOMAIN s = 1 .. 3
  BY <1>1, <1>2
<1>4. \A k \in 1 .. Len(s) : k + 1 \in 1 .. (1 + Len(s)) /\ ~(k + 1 <= 1) /\ (k + 1) - 1 = k
  BY <1>1
<1>5. 1 \in 1 .. (1 + Len(s)) /\ 1 <= 1
  BY <1>1
<1>6. q[1] = x /\ \A k \in 1 .. Len(s) : q[k + 1] = s[k]
  BY <1>1, <1>2, <1>4, <1>5
<1> QED BY <1>2, <1>3, <1>6 DEF Joined

LEMMA EndLoopMeans ==
  ASSUME IInv, Progress, Means, EndLoop
  PROVE  Means'
<1> DEFINE res == last_index
           bits == <<target>> \o loops
           C == encode_Red_AND(res, bits)
           n == last_index + 1
<1>1. /\ pc = "red_and" /\ pc' = "loop" /\ Built /\ Compare /\ ~Looping'
      /\ Compare' /\ pc # "connect" /\ pc' # "connect"
  BY DEF EndLoop, Built, Compare, Looping
<1>2. /\ inst' = inst /\ window' = window /\ split' = split /\ target' = res /\ loops' = loops
      /\ last_index' = n /\ clause_list_multiple' = clause_list_multiple \cup C
  BY DEF EndLoop, loopVars
<1>3. n \in Nat /\ res \in Nat \ {0} /\ last_index <= n /\ n - 1 = res
  BY <1>1, BuiltFacts
<1>4. Len(loops) = 3 /\ target \in 1 .. (res - 1) /\ loops \in Seq(1 .. (res - 1))
  BY <1>1, <1>3, GrownLists DEF Progress
<1>5. \A v : Asked(v)' <=> Asked(v)
  BY <1>1, <1>2, QueryKept DEF Asked
<1>6. /\ DOMAIN bits = 1 .. 4 /\ bits[1] = target /\ DOMAIN loops = 1 .. 3
      /\ \A k \in 1 .. 3 : bits[k + 1] = loops[k]
      /\ bits \in Seq(1 .. (res - 1))
  <2> DEFINE S == 1 .. (res - 1)
  <2>1. target \in S /\ loops \in Seq(S) /\ Len(loops) = 3
    BY <1>4
  <2> HIDE DEF S
  <2>2. Precedes(target, loops, bits)
    BY DEF Precedes
  <2> HIDE DEF bits
  <2>3. Joined(target, loops, bits, S)
    BY <2>1, <2>2, Preceded
  <2> QED BY <2>3 DEF S, Joined
<1> HIDE DEF bits
<1>7. \A v : (\A k \in DOMAIN bits : v[bits[k]]) <=> v[target] /\ \A k \in 1 .. 3 : v[loops[k]]
  <2>1. \A k \in 1 .. 3 : k + 1 \in 1 .. 4
    OBVIOUS
  <2>2. \A k \in 1 .. 4 : k = 1 \/ (k - 1 \in 1 .. 3 /\ (k - 1) + 1 = k)
    OBVIOUS
  <2>3. 1 \in 1 .. 4
    OBVIOUS
  <2> QED BY <1>6, <2>1, <2>2, <2>3
<1>8. ASSUME NEW v, Meaning(v), v[res] <=> \A k \in DOMAIN bits : v[bits[k]]
      PROVE  Meaning(v)'
  <2>1. v[target] <=> SameOutputs(v)
    BY <1>1, <1>8 DEF Meaning
  <2>2. \A k \in 1 .. 3 : v[loops[k]] <=> LoopIn(v, k)
    BY <1>6, <1>8 DEF Meaning
  <2>3. v[res] <=> SameOutputs(v) /\ \A k \in 1 .. 3 : LoopIn(v, k)
    BY <1>7, <1>8, <2>1, <2>2
  <2>4. v[target'] <=> SameOutputs(v)' /\ \A k \in 1 .. 3 : LoopIn(v, k)'
    BY <1>2, <2>3, QueryKept
  <2>5. \A k \in DOMAIN loops' : v[loops'[k]] <=> LoopIn(v, k)'
    BY <1>2, <1>6, <2>2, QueryKept
  <2> QED BY <1>1, <1>5, <1>8, <2>4, <2>5 DEF Meaning
<1>9. ASSUME NEW m \in Nat, n - 1 <= m, NEW v \in [1 .. m -> BOOLEAN]
       PROVE  /\ Meaning(v) /\ SatisfiesAll(v, C) => Meaning(v)'
              /\ Asked(v)' => /\ Asked(v)
                              /\ \A u : Extends(u, v, m) =>
                                   \E t : Agree(t, u, m, last_index, n) /\ SatisfiesAll(t, C)
  <2>1. res \in 1 .. m /\ bits \in Seq(1 .. m) /\ \A k \in DOMAIN bits : bits[k] \in 1 .. m /\ bits[k] < res
    <3>1. res \in 1 .. m /\ 1 .. (res - 1) \subseteq 1 .. m
      BY <1>3, <1>9
    <3>2. \A k \in DOMAIN bits : bits[k] \in 1 .. (res - 1)
      BY <1>6, LargerRange
    <3> QED BY <1>3, <1>6, <3>1, <3>2, LargerRange
  <2>2. SatisfiesAll(v, C) => (v[res] <=> \A k \in DOMAIN bits : v[bits[k]])
    BY <2>1, RedAndMeaning
  <2>3. ASSUME NEW u, Extends(u, v, m)
        PROVE  \E t : Agree(t, u, m, last_index, n) /\ SatisfiesAll(t, C)
    <3>1. u \in [1 .. m -> BOOLEAN]
      BY <2>3 DEF Extends
    <3> DEFINE c == \A k \in DOMAIN bits : u[bits[k]]
    <3>2. PICK t : Agree(t, u, m, res, res + 1) /\ t[res] = c
      <4>1. c \in BOOLEAN
        OBVIOUS
      <4> HIDE DEF c, res
      <4>2. \A d \in BOOLEAN : \E t : Agree(t, u, m, res, res + 1) /\ t[res] = d
        BY <2>1, <3>1, OneMore
      <4> QED BY <4>1, <4>2
    <3>3. t \in [1 .. m -> BOOLEAN] /\ \A k \in DOMAIN bits : t[bits[k]] = u[bits[k]]
      BY <2>1, <3>2 DEF Agree
    <3>4. t[res] <=> \A k \in DOMAIN bits : t[bits[k]]
      BY <3>2, <3>3
    <3>5. SatisfiesAll(t, C)
      <4> HIDE DEF res
      <4> QED BY <2>1, <3>3, <3>4, RedAndMeaning
    <3> QED BY <3>2, <3>5
  <2> QED BY <1>5, <1>8, <2>2, <2>3
<1> HIDE DEF n, C
<1> QED BY <1>1, <1>2, <1>3, <1>9, GrowStep

LEMMA ProgressStep == IInv /\ Progress /\ [Next]_vars => Progress'
<1> SUFFICES ASSUME IInv, Progress, [Next]_vars PROVE Progress'
  OBVIOUS
<1>1. CASE Begin
  BY <1>1 DEF Begin, Progress, Looping
<1>2. CASE Instantiate
  BY <1>2 DEF Instantiate, loopVars, Progress, Looping, Compare
<1>3. CASE Connect
  BY <1>3 DEF Connect, loopVars, Progress, Looping, Compare
<1>4. CASE CompareOutputs
  <2>1. split = <<>> /\ loops = <<>>
    BY <1>4 DEF CompareOutputs, Progress, Compare, IInv, Allocated
  <2> QED BY <1>4, <2>1 DEF CompareOutputs, loopVars, Progress, Looping
<1>5. CASE BitIs
  BY <1>5 DEF BitIs, loopVars, Progress, Looping, Compare
<1>6. CASE BeginLoop
  <2>1. /\ pc' = "pairs" /\ region' = 1 /\ loops' = <<>> /\ li' = Starti(1)
        /\ split' = split /\ inst' = inst
    BY <1>6 DEF BeginLoop, EnterRegion, Progress
  <2>2. Starti(region)' = Starti(1) /\ Starti(1) = 0
    BY <1>6, <2>1 DEF BeginLoop, Starti
  <2> QED BY <2>1, <2>2 DEF Progress, Looping, Compare
<1>7. CASE ComparePair
  <2>1. /\ pc = "pairs" /\ pc' \in {"pairs", "region"} /\ UNCHANGED <<inst, window, split, region, loops>>
        /\ li' \in {li, li + 1}
    BY <1>7 DEF ComparePair
  <2>2. region \in 1 .. 3 /\ li \in Nat /\ Starti(region) <= li /\ Starti(region) \in Nat
    <3>1. Built /\ Looping
      BY <2>1 DEF Built, Looping
    <3> QED BY <3>1, RegionFacts DEF IInv, InRegion, Progress
  <2>3. Starti(region)' = Starti(region)
    BY <2>1 DEF Starti, p, l
  <2>4. Starti(region)' <= li'
    BY <2>1, <2>2, <2>3
  <2> QED BY <2>1, <2>4 DEF Progress, Looping, Compare
<1>8. CASE EndRegion
  <2>1. /\ pc = "region" /\ UNCHANGED <<inst, window, split>> /\ loops' = Append(loops, last_index)
        /\ region \in 1 .. 3 /\ Len(loops) = region - 1 /\ loops \in Seq(1 .. (last_index - 1))
    BY <1>8 DEF EndRegion, IInv, InRegion, Allocated, Progress, Looping
  <2>2. Len(loops') = region
    BY <2>1
  <2>3. CASE region < 3
    <3>1. pc' = "pairs" /\ region' = region + 1 /\ li' = Starti(region + 1)
      BY <1>8, <2>3 DEF EndRegion, EnterRegion
    <3>2. Starti(region)' = Starti(region + 1)
      BY <2>1, <3>1 DEF Starti, p, l
    <3>3. li' \in Nat
      <4>1. p > 0 /\ l > 0 /\ r > 1 /\ Built /\ region + 1 \in 1 .. 3
        BY <2>1, <2>3 DEF IInv, InRegion, Looping, Built
      <4> QED BY <3>1, <4>1, RegionFacts
    <3>4. Starti(region)' <= li'
      BY <3>1, <3>2, <3>3
    <3>5. Len(loops') = region' - 1
      BY <2>1, <2>2, <3>1
    <3> QED BY <2>1, <3>1, <3>4, <3>5 DEF Progress, Looping, Compare
  <2>4. CASE region = 3
    <3>1. pc' = "red_and"
      BY <1>8, <2>4 DEF EndRegion
    <3> QED BY <2>1, <2>2, <2>4, <3>1 DEF Progress, Looping, Compare
  <2> QED BY <2>1, <2>3, <2>4
<1>9. CASE EndLoop
  BY <1>9 DEF EndLoop, loopVars, Progress, Looping, Compare
<1>10. CASE UNCHANGED vars
  <2>1. Starti(region)' = Starti(region)
    BY <1>10 DEF vars, Starti, loopVars, p, l
  <2> QED BY <1>10, <2>1 DEF vars, loopVars, Progress, Looping, Compare
<1> QED BY <1>1, <1>2, <1>3, <1>4, <1>5, <1>6, <1>7, <1>8, <1>9, <1>10 DEF Next

LEMMA MeansStep == IInv /\ Progress /\ Means /\ [Next]_vars => Means'
<1> SUFFICES ASSUME IInv, Progress, Means, [Next]_vars PROVE Means'
  OBVIOUS
<1>1. CASE Begin
  BY <1>1 DEF Begin, Means, Built
<1>2. CASE Instantiate
  BY <1>2, InstantiateMeans
<1>3. CASE Connect
  BY <1>3, ConnectMeans
<1>4. CASE CompareOutputs
  BY <1>4, CompareOutputsMeans
<1>5. CASE BitIs
  BY <1>5, BitIsMeans
<1>6. CASE BeginLoop
  BY <1>6, BeginLoopMeans
<1>7. CASE ComparePair
  BY <1>7, ComparePairMeans
<1>8. CASE EndRegion
  BY <1>8, EndRegionMeans
<1>9. CASE EndLoop
  BY <1>9, EndLoopMeans
<1>10. CASE UNCHANGED vars
  <2>1. /\ inst' = inst /\ window' = window /\ split' = split /\ pc' = pc /\ loops' = loops
        /\ equ' = equ /\ target' = target /\ region' = region /\ li' = li /\ ri' = ri
        /\ last_index' = last_index /\ clause_list_multiple' = clause_list_multiple
    BY <1>10 DEF vars, loopVars
  <2>2. (Built' <=> Built) /\ (Compare' <=> Compare) /\ (Looping' <=> Looping)
    BY <2>1 DEF Built, Compare, Looping
  <2>3. \A v : Asked(v)' <=> Asked(v)
    BY <2>1, QueryKept DEF Asked
  <2>4. \A i, j : Done(i, j)' <=> Done(i, j)
    BY <2>1, RegionsKept DEF Done
  <2>5. \A v : Meaning(v)' <=> Meaning(v)
    BY <2>1, <2>2, <2>3, <2>4, QueryKept DEF Meaning
  <2>6. \A u, v, m : Extends(u, v, m)' <=> Extends(u, v, m)
    BY <2>1, QueryKept
  <2> QED BY <2>1, <2>2, <2>3, <2>5, <2>6 DEF Means
<1> QED BY <1>1, <1>2, <1>3, <1>4, <1>5, <1>6, <1>7, <1>8, <1>9, <1>10 DEF Next

(***************************************************************************)
(* What the clauses of a query say: at every point of a construction, a    *)
(* valuation that satisfies them has the two copies run as the encoder     *)
(* does with the assertion in every frame, the target and the variables of *)
(* the loops say what they are for, and every valuation of the frames that *)
(* is as asked for can be extended to one that satisfies the clauses       *)
(* (construct_nonloop, construct_nonloop_bitIs and construct_loop).        *)
(***************************************************************************)
THEOREM SpecMeans == Spec => [](IInv /\ Progress /\ Means)
<1>1. Init => IInv /\ Progress /\ Means
  <2>1. Init => Progress /\ Means
    BY DEF Init, Progress, Means, Built, Looping
  <2> QED BY <2>1, InitIInv
<1>2. IInv /\ Progress /\ Means /\ [Next]_vars => (IInv /\ Progress /\ Means)'
  BY NextIInv, ProgressStep, MeansStep
<1> QED BY <1>1, <1>2, PTL DEF Spec

-----------------------------------------------------------------------------
(***************************************************************************)
(* What ModelsOf computes: the valuations that satisfy the clauses, with   *)
(* FALSE for the variables that are not free.                              *)
(***************************************************************************)
FreeOf(C, vars0) == vars0 \cup {Var(x) : x \in UNION C}

\* The clauses about the variables 1..i.
UpTo(C, i) == {c \in C : \A x \in c : Var(x) <= i}

Partly(C, free, i) ==
  {v \in [1 .. i -> BOOLEAN] :
     (\A k \in 1 .. i : k \notin free => ~v[k]) /\ SatisfiesAll(v, UpTo(C, i))}

LEMMA VarFacts ==
  ASSUME NEW n \in Nat, NEW c, IsClause(c, n), NEW x \in c
  PROVE  Var(x) \in 1 .. n /\ (\A i \in Nat : Var(x) = i <=> x = i \/ x = -i)
BY DEF IsClause, Var

LEMMA UpToStep ==
  ASSUME NEW n \in Nat, NEW C, \A c \in C : IsClause(c, n), NEW i \in 1 .. n
  PROVE  /\ UpTo(C, i) = UpTo(C, i - 1) \cup Closing(C, i)
         /\ \A c \in UpTo(C, i - 1) : IsClause(c, i - 1)
<1>1. ASSUME NEW c \in UpTo(C, i)
      PROVE  c \in UpTo(C, i - 1) \cup Closing(C, i)
  <2>1. c \in C /\ IsClause(c, n) /\ \A x \in c : Var(x) <= i
    BY DEF UpTo
  <2>2. CASE i \in c \/ -i \in c
    BY <2>1, <2>2 DEF Closing
  <2>3. CASE ~(i \in c \/ -i \in c)
    <3>1. ASSUME NEW x \in c PROVE Var(x) <= i - 1
      <4>1. Var(x) \in 1 .. n /\ Var(x) <= i /\ Var(x) # i
        BY <2>1, <2>3, VarFacts
      <4> QED BY <4>1
    <3> QED BY <2>1, <3>1 DEF UpTo
  <2> QED BY <2>2, <2>3
<1>2. ASSUME NEW c \in UpTo(C, i - 1)
      PROVE  c \in UpTo(C, i) /\ IsClause(c, i - 1)
  <2>1. c \in C /\ IsClause(c, n) /\ \A x \in c : Var(x) <= i - 1
    BY DEF UpTo
  <2>2. ASSUME NEW x \in c
        PROVE  Var(x) <= i /\ x \in Int /\ x # 0 /\ -(i - 1) <= x /\ x <= i - 1
    <3>1. Var(x) \in 1 .. n /\ Var(x) <= i - 1 /\ x \in Int /\ x # 0
      BY <2>1, VarFacts DEF IsClause
    <3> QED BY <3>1 DEF Var
  <2> QED BY <2>1, <2>2 DEF UpTo, IsClause
<1>3. Closing(C, i) \subseteq UpTo(C, i)
  BY DEF Closing, UpTo
<1> QED BY <1>1, <1>2, <1>3

Joins(u, b) == Append(u, b)
Longer(P, B) == {Joins(u, b) : u \in P, b \in B}

Prolongs(v, u, b, i) ==
  v \in [1 .. i -> BOOLEAN] /\ v[i] = b /\ \A k \in 1 .. (i - 1) : v[k] = u[k]

LEMMA Prolonged ==
  ASSUME NEW i \in Nat \ {0}, NEW u \in [1 .. (i - 1) -> BOOLEAN], NEW b \in BOOLEAN
  PROVE  Prolongs(Joins(u, b), u, b, i)
<1> DEFINE j == i - 1
           v == Joins(u, b)
<1>1. j \in Nat /\ i = j + 1
  OBVIOUS
<1>2. u \in [1 .. j -> BOOLEAN]
  OBVIOUS
<1> HIDE DEF j
<1>3. u \in Seq(BOOLEAN) /\ Len(u) = j
  BY <1>1, <1>2
<1>4. v \in Seq(BOOLEAN) /\ Len(v) = i /\ v[i] = b /\ \A k \in 1 .. j : v[k] = u[k]
  BY <1>1, <1>3 DEF Joins
<1> HIDE DEF v
<1>5. v \in [1 .. i -> BOOLEAN]
  BY <1>1, <1>4
<1>6. Prolongs(v, u, b, i)
  BY <1>4, <1>5 DEF Prolongs, j
<1> QED BY <1>6 DEF v

Choices(i, free) == IF i \in free THEN BOOLEAN ELSE {FALSE}

LEMMA PartlyStep ==
  ASSUME NEW n \in Nat, NEW C, \A c \in C : IsClause(c, n), NEW free, NEW i \in 1 .. n
  PROVE  Partly(C, free, i) =
           {v \in Longer(Partly(C, free, i - 1), Choices(i, free)) : SatisfiesAll(v, Closing(C, i))}
<1> DEFINE P == Partly(C, free, i - 1)
           B == Choices(i, free)
<1>0. i - 1 \in Nat /\ B \subseteq BOOLEAN
  <2>1. B = BOOLEAN \/ B = {FALSE}
    BY DEF Choices
  <2>2. i - 1 \in Nat
    OBVIOUS
  <2> QED BY <2>1, <2>2
<1>1. \A v : v \in Longer(P, B) <=> \E u \in P : \E b \in B : v = Joins(u, b)
  <2> HIDE DEF P
  <2> QED BY DEF Longer
<1>2. ASSUME NEW v \in [1 .. i -> BOOLEAN], NEW u \in [1 .. (i - 1) -> BOOLEAN],
             \A k \in 1 .. (i - 1) : v[k] = u[k]
      PROVE  v \in Partly(C, free, i)
               <=> u \in P /\ v[i] \in B /\ SatisfiesAll(v, Closing(C, i))
  <2>1. SatisfiesAll(u, UpTo(C, i - 1)) <=> SatisfiesAll(v, UpTo(C, i - 1))
    <3> DEFINE j == i - 1
               D == UpTo(C, j)
    <3>1. j \in Nat /\ (\A c \in D : IsClause(c, j)) /\ \A k \in 1 .. j : u[k] = v[k]
      BY <1>0, <1>2, UpToStep
    <3> HIDE DEF j, D
    <3>2. SatisfiesAll(u, D) <=> SatisfiesAll(v, D)
      BY <3>1, SameClauses
    <3> QED BY <3>2 DEF D, j
  <2>2. SatisfiesAll(v, UpTo(C, i)) <=> SatisfiesAll(v, UpTo(C, i - 1)) /\ SatisfiesAll(v, Closing(C, i))
    <3>1. UpTo(C, i) = UpTo(C, i - 1) \cup Closing(C, i)
      BY UpToStep
    <3> QED BY <3>1 DEF SatisfiesAll
  <2>3. (\A k \in 1 .. i : k \notin free => ~v[k])
          <=> (\A k \in 1 .. (i - 1) : k \notin free => ~u[k]) /\ v[i] \in B
    <3>1. \A k \in 1 .. i : k = i \/ k \in 1 .. (i - 1)
      OBVIOUS
    <3>2. i \in 1 .. i /\ \A k \in 1 .. (i - 1) : k \in 1 .. i
      OBVIOUS
    <3>3. v[i] \in B <=> (i \notin free => ~v[i])
      <4>1. v[i] \in BOOLEAN
        BY <3>2
      <4> QED BY <4>1 DEF Choices
    <3> QED BY <1>2, <3>1, <3>2, <3>3
  <2> QED BY <1>2, <2>1, <2>2, <2>3 DEF Partly
<1>3. ASSUME NEW v \in Partly(C, free, i)
      PROVE  v \in Longer(P, B) /\ SatisfiesAll(v, Closing(C, i))
  <2> DEFINE u == [k \in 1 .. (i - 1) |-> v[k]]
             b == v[i]
             t == Joins(u, b)
  <2>1. v \in [1 .. i -> BOOLEAN]
    BY DEF Partly
  <2>2. u \in [1 .. (i - 1) -> BOOLEAN] /\ \A k \in 1 .. (i - 1) : v[k] = u[k]
    BY <2>1
  <2> HIDE DEF u
  <2>3. u \in P /\ b \in B /\ SatisfiesAll(v, Closing(C, i))
    BY <1>2, <1>3, <2>1, <2>2
  <2>4. b \in BOOLEAN
    BY <2>1
  <2> HIDE DEF b
  <2>5. Prolongs(t, u, b, i)
    BY <2>2, <2>4, Prolonged
  <2>6. t = v
    <3> HIDE DEF t
    <3>1. \A k \in 1 .. i : k = i \/ k \in 1 .. (i - 1)
      OBVIOUS
    <3>2. \A k \in 1 .. i : t[k] = v[k]
      BY <2>2, <2>5, <3>1 DEF Prolongs, b
    <3> QED BY <2>1, <2>5, <3>2 DEF Prolongs
  <2> HIDE DEF P
  <2>7. v \in Longer(P, B)
    BY <1>1, <2>3, <2>6
  <2> QED BY <2>3, <2>7
<1>4. ASSUME NEW v \in Longer(P, B), SatisfiesAll(v, Closing(C, i))
      PROVE  v \in Partly(C, free, i)
  <2>1. PICK u \in P : \E b \in B : v = Joins(u, b)
    <3> HIDE DEF P
    <3> QED BY <1>1
  <2>2. PICK b \in B : v = Joins(u, b)
    BY <2>1
  <2>3. u \in [1 .. (i - 1) -> BOOLEAN] /\ b \in BOOLEAN
    BY <1>0 DEF Partly
  <2>4. Prolongs(v, u, b, i)
    BY <2>2, <2>3, Prolonged
  <2> QED BY <1>2, <1>4, <2>3, <2>4 DEF Prolongs
<1> HIDE DEF P, B
<1>5. Partly(C, free, i) = {v \in Longer(P, B) : SatisfiesAll(v, Closing(C, i))}
  BY <1>3, <1>4
<1> QED BY <1>5 DEF P, B

LEMMA ModelsMeaning ==
  ASSUME NEW n \in Nat, NEW C, \A c \in C : IsClause(c, n), NEW vars0
  PROVE  ModelsOf(C, vars0, n) = Partly(C, FreeOf(C, vars0), n)
<1> DEFINE free == vars0 \cup {Var(x) : x \in UNION C}
           values == [i \in 1 .. n |-> IF i \in free THEN BOOLEAN ELSE {FALSE}]
           closing == [i \in 1 .. n |-> Closing(C, i)]
           G(f) == [i \in 0 .. n |->
                      IF i = 0 THEN {v \in {<<>>} : {} \notin C}
                      ELSE {v \in {Append(u, b) : u \in f[i - 1], b \in values[i]} :
                              SatisfiesAll(v, closing[i])}]
           models == CHOOSE f : f = G(f)
           w == [i \in 0 .. n |-> Partly(C, free, i)]
<1>1. ModelsOf(C, vars0, n) = models[n]
  BY DEF ModelsOf
<1>2. Partly(C, free, 0) = {v \in {<<>>} : {} \notin C}
  <2>1. \A v : v \in [1 .. 0 -> BOOLEAN] <=> v = <<>>
    <3>1. <<>> \in [1 .. 0 -> BOOLEAN] /\ DOMAIN <<>> = 1 .. 0
      OBVIOUS
    <3>2. ASSUME NEW v \in [1 .. 0 -> BOOLEAN] PROVE v = <<>>
      <4>1. v \in Seq(BOOLEAN) /\ Len(v) = 0
        OBVIOUS
      <4> QED BY <4>1
    <3> QED BY <3>1, <3>2
  <2>2. UpTo(C, 0) = {c \in C : c = {}}
    <3>1. ASSUME NEW c \in C, NEW x \in c PROVE ~(Var(x) <= 0)
      <4>1. IsClause(c, n)
        OBVIOUS
      <4>2. Var(x) \in 1 .. n
        BY <4>1, VarFacts
      <4> QED BY <4>2
    <3> QED BY <3>1 DEF UpTo
  <2>3. \A v : SatisfiesAll(v, UpTo(C, 0)) <=> {} \notin C
    BY <2>2 DEF SatisfiesAll, Satisfies
  <2> HIDE DEF free
  <2>4. \A v : v \in Partly(C, free, 0) <=> v = <<>> /\ {} \notin C
    <3>1. \A k \in 1 .. 0 : FALSE
      OBVIOUS
    <3> QED BY <2>1, <2>3, <3>1 DEF Partly
  <2> QED BY <2>4
<1> DEFINE first == {v \in {<<>>} : {} \notin C}
           next(i, S) == {v \in Longer(S, values[i]) : SatisfiesAll(v, closing[i])}
<1>3. ASSUME NEW i \in 1 .. n
      PROVE  Partly(C, free, i) = next(i, Partly(C, free, i - 1))
  <2>1. values[i] = Choices(i, free) /\ closing[i] = Closing(C, i)
    BY DEF Choices
  <2> HIDE DEF values, free, closing
  <2>3. Partly(C, free, i) =
          {v \in Longer(Partly(C, free, i - 1), Choices(i, free)) : SatisfiesAll(v, Closing(C, i))}
    BY PartlyStep
  <2> QED BY <2>1, <2>3
<1> HIDE DEF values, closing, free
<1>4. \A f : G(f) = [i \in 0 .. n |-> IF i = 0 THEN first ELSE next(i, f[i - 1])]
  BY DEF Longer, Joins
<1>5. w[0] = first /\ \A i \in 1 .. n : w[i] = next(i, w[i - 1])
  <2>1. \A i \in 0 .. n : w[i] = Partly(C, free, i)
    OBVIOUS
  <2>2. 0 \in 0 .. n
    OBVIOUS
  <2> HIDE DEF w
  <2>3. ASSUME NEW i \in 1 .. n PROVE w[i] = next(i, w[i - 1])
    <3>1. Partly(C, free, i) = next(i, Partly(C, free, i - 1))
      BY <1>3
    <3>2. i - 1 \in 0 .. n /\ i \in 0 .. n
      OBVIOUS
    <3> HIDE DEF next
    <3> QED BY <2>1, <3>1, <3>2
  <2>4. Partly(C, free, 0) = first
    BY <1>2
  <2> HIDE DEF first, next
  <2> QED BY <2>1, <2>2, <2>3, <2>4
<1>6. w = G(w)
  <2>1. \A i \in 0 .. n : i = 0 \/ i \in 1 .. n
    OBVIOUS
  <2> HIDE DEF first, next, G
  <2>2. \A i \in 0 .. n : w[i] = (IF i = 0 THEN first ELSE next(i, w[i - 1]))
    BY <1>5, <2>1
  <2>3. w = [i \in 0 .. n |-> w[i]]
    OBVIOUS
  <2> HIDE DEF w
  <2> QED BY <1>4, <2>2, <2>3
<1>7. models = G(models)
  <2> HIDE DEF G, w
  <2> QED BY <1>6
<1> HIDE DEF models
<1>8. models[0] = first /\ \A i \in 1 .. n : models[i] = next(i, models[i - 1])
  <2> HIDE DEF first, next, G
  <2>1. \A i \in 0 .. n : G(models)[i] = IF i = 0 THEN first ELSE next(i, models[i - 1])
    BY <1>4
  <2>2. 0 \in 0 .. n /\ \A i \in 1 .. n : i \in 0 .. n /\ i # 0
    OBVIOUS
  <2> QED BY <1>7, <2>1, <2>2
<1>9. models[n] = w[n]
  <2> DEFINE S == {i \in Nat : i <= n => models[i] = w[i]}
  <2> HIDE DEF first, next, w
  <2>1. 0 \in S
    BY <1>5, <1>8
  <2>2. ASSUME NEW i \in Nat, i \in S PROVE i + 1 \in S
    <3>1. SUFFICES ASSUME i + 1 <= n PROVE models[i + 1] = w[i + 1]
      OBVIOUS
    <3>2. i + 1 \in 1 .. n /\ (i + 1) - 1 = i /\ models[i] = w[i]
      BY <2>2, <3>1
    <3> QED BY <1>5, <1>8, <3>2
  <2> HIDE DEF S
  <2>3. \A i \in Nat : i \in S
    BY <2>1, <2>2, Induction
  <2>4. n \in S
    BY <2>3
  <2> QED BY <2>4 DEF S
<1>10. w[n] = Partly(C, free, n)
  OBVIOUS
<1> QED BY <1>1, <1>9, <1>10 DEF free, FreeOf

-----------------------------------------------------------------------------
(***************************************************************************)
(* The runs of the encoder, by their frames.                               *)
(***************************************************************************)
OneModel(i) == {u \in [1 .. (i.final_index_oneinst - 2) -> BOOLEAN] : SatisfiesAll(u, i.clause_list)}
Transition(i, v, k) == <<StateIn(i, v, k), BitsIn(i, i.instr, v, k)>>
Transitions(i) == i.encoder.states \X i.encoder.inputs

LEMMA EncoderFacts ==
  ASSUME NEW i \in Instances
  PROVE  /\ i.encoder.nxt \in [Transitions(i) -> i.encoder.states]
         /\ \A x \in Transitions(i) : \E u \in OneModel(i) : Transition(i, u, 0) = x
         /\ \A u \in OneModel(i) :
              /\ Transition(i, u, 0) \in Transitions(i)
              /\ i.encoder.nxt[Transition(i, u, 0)] = NextIn(i, u, 0)
              /\ i.encoder.out[Transition(i, u, 0)] = BitsIn(i, i.outstr, u, 0)
              /\ i.encoder.ok[Transition(i, u, 0)] = AssertedIn(i, u, 0)
BY EncoderAssumption DEF OneModel, Transition, Transitions

\* The states of frames 0..m, if s and the inputs are given.
Chain(u, m, s, inputs) ==
  /\ u \in [0 .. m -> enc.states] /\ u[0] = s
  /\ \A k \in 1 .. m : u[k] = enc.nxt[<<u[k - 1], inputs[k - 1]>>]

LEMMA ChainGrows ==
  ASSUME inst \in Instances, NEW n \in Nat, NEW s \in enc.states, NEW inputs \in [0 .. n -> enc.inputs]
  PROVE  \E u : Chain(u, n, s, inputs)
<1> DEFINE S == {m \in Nat : m <= n => \E y : Chain(y, m, s, inputs)}
<1>1. 0 \in S
  <2> DEFINE x == [k \in 0 .. 0 |-> s]
  <2>1. x \in [0 .. 0 -> enc.states] /\ x[0] = s /\ \A k \in 1 .. 0 : FALSE
    OBVIOUS
  <2> HIDE DEF x
  <2>2. Chain(x, 0, s, inputs)
    BY <2>1 DEF Chain
  <2> QED BY <2>2
<1>2. ASSUME NEW m \in Nat, m \in S PROVE m + 1 \in S
  <2>1. SUFFICES ASSUME m + 1 <= n
                 PROVE  \E y : Chain(y, m + 1, s, inputs)
    OBVIOUS
  <2>2. PICK u : Chain(u, m, s, inputs)
    BY <1>2, <2>1
  <2> DEFINE next == enc.nxt[<<u[m], inputs[m]>>]
             t == [k \in 0 .. m + 1 |-> IF k = m + 1 THEN next ELSE u[k]]
  <2>3. next \in enc.states
    <3>1. u[m] \in enc.states /\ inputs[m] \in enc.inputs
      BY <2>1, <2>2 DEF Chain
    <3>2. enc.nxt \in [enc.states \X enc.inputs -> enc.states]
      BY EncoderFacts DEF Transitions, enc
    <3> QED BY <3>1, <3>2
  <2>4. \A k \in 0 .. m + 1 : k = m + 1 \/ k \in 0 .. m
    OBVIOUS
  <2>5. t \in [0 .. m + 1 -> enc.states]
    <3> HIDE DEF next
    <3> QED BY <2>2, <2>3, <2>4 DEF Chain
  <2>6. t[0] = s
    BY <2>2 DEF Chain
  <2>7. ASSUME NEW k \in 1 .. m + 1 PROVE t[k] = enc.nxt[<<t[k - 1], inputs[k - 1]>>]
    <3>1. CASE k = m + 1
      <4>1. t[k] = next /\ t[k - 1] = u[m] /\ k - 1 = m
        BY <3>1
      <4> QED BY <4>1
    <3>2. CASE k # m + 1
      <4>1. k \in 1 .. m /\ t[k] = u[k] /\ t[k - 1] = u[k - 1]
        BY <3>2
      <4> QED BY <2>2, <4>1 DEF Chain
    <3> QED BY <3>1, <3>2
  <2> HIDE DEF t
  <2>8. Chain(t, m + 1, s, inputs)
    BY <2>5, <2>6, <2>7 DEF Chain
  <2> QED BY <2>8
<1> HIDE DEF S
<1>3. \A m \in Nat : m \in S
  BY <1>1, <1>2, Induction
<1>4. n \in S
  BY <1>3
<1> QED BY <1>4 DEF S

LEMMA StatesAre ==
  ASSUME NEW s, NEW inputs, last \in Nat, NEW u, Chain(u, last, s, inputs)
  PROVE  States(s, inputs) = u
<1> DEFINE n == last
           first == s
           next(k, x) == enc.nxt[<<x, inputs[k - 1]>>]
           G(f) == [k \in 0 .. n |-> IF k = 0 THEN first ELSE next(k, f[k - 1])]
           at == CHOOSE f : f = G(f)
<1>1. States(s, inputs) = at
  BY DEF States
<1>2. n \in Nat /\ DOMAIN u = 0 .. n /\ u[0] = first /\ \A k \in 1 .. n : u[k] = next(k, u[k - 1])
  BY DEF Chain
<1>3. u = [k \in 0 .. n |-> u[k]]
  BY DEF Chain
<1> HIDE DEF next, n
<1>4. u = G(u)
  <2>1. \A k \in 0 .. n : k = 0 \/ k \in 1 .. n
    BY <1>2
  <2>2. \A k \in 0 .. n : u[k] = IF k = 0 THEN first ELSE next(k, u[k - 1])
    BY <1>2, <2>1
  <2> QED BY <1>3, <2>2
<1>5. at = G(at)
  <2> HIDE DEF G
  <2> QED BY <1>4
<1> HIDE DEF at
<1>6. at[0] = first /\ \A k \in 1 .. n : at[k] = next(k, at[k - 1])
  <2>1. 0 \in 0 .. n /\ \A k \in 1 .. n : k \in 0 .. n /\ k # 0
    BY <1>2
  <2>2. \A k \in 0 .. n : G(at)[k] = IF k = 0 THEN first ELSE next(k, at[k - 1])
    OBVIOUS
  <2> HIDE DEF G
  <2> QED BY <1>5, <2>1, <2>2
<1>7. \A k \in 0 .. n : at[k] = u[k]
  <2> DEFINE S == {k \in Nat : k <= n => at[k] = u[k]}
  <2>1. 0 \in S
    BY <1>2, <1>6
  <2>2. ASSUME NEW k \in Nat, k \in S PROVE k + 1 \in S
    <3>1. SUFFICES ASSUME k + 1 <= n PROVE at[k + 1] = u[k + 1]
      OBVIOUS
    <3>2. k + 1 \in 1 .. n /\ (k + 1) - 1 = k /\ at[k] = u[k]
      BY <1>2, <2>2, <3>1
    <3> QED BY <1>2, <1>6, <3>2
  <2> HIDE DEF S
  <2>3. \A k \in Nat : k \in S
    BY <2>1, <2>2, Induction
  <2> QED BY <2>3 DEF S
<1>8. at = u
  <2>1. at = [k \in 0 .. n |-> at[k]]
    BY <1>5
  <2> QED BY <1>3, <1>7, <2>1
<1> QED BY <1>1, <1>8

(***************************************************************************)
(* The pairs of runs, frame by frame: the frames of an unrolling, each     *)
(* linked to the next.                                                     *)
(***************************************************************************)
IsRun(x) ==
  /\ x \in [0 .. last -> Transitions(inst)]
  /\ \A k \in 0 .. last : enc.ok[x[k]]
  /\ \A k \in 0 .. (last - 1) : x[k + 1][1] = enc.nxt[x[k]]

LEMMA RunsMeaning ==
  ASSUME inst \in Instances, last \in Nat, NEW x
  PROVE  x \in Runs <=> IsRun(x)
<1>1. ASSUME NEW s \in enc.states, NEW inputs \in [0 .. last -> enc.inputs]
      PROVE  \E u : Chain(u, last, s, inputs) /\ Run(s, inputs) = [k \in 0 .. last |-> <<u[k], inputs[k]>>]
  <2>1. PICK u : Chain(u, last, s, inputs)
    BY ChainGrows
  <2>2. States(s, inputs) = u
    BY <2>1, StatesAre
  <2> QED BY <2>1, <2>2 DEF Run
<1>2. ASSUME NEW s \in enc.states, NEW inputs \in [0 .. last -> enc.inputs], x = Run(s, inputs),
             \A k \in 0 .. last : enc.ok[x[k]]
      PROVE  IsRun(x)
  <2>1. PICK u : Chain(u, last, s, inputs) /\ x = [k \in 0 .. last |-> <<u[k], inputs[k]>>]
    BY <1>1, <1>2
  <2>2. \A k \in 0 .. last : x[k] = <<u[k], inputs[k]>> /\ u[k] \in enc.states /\ inputs[k] \in enc.inputs
    BY <2>1 DEF Chain
  <2>3. x \in [0 .. last -> Transitions(inst)]
    BY <2>1, <2>2 DEF Transitions, enc
  <2>4. ASSUME NEW k \in 0 .. (last - 1) PROVE x[k + 1][1] = enc.nxt[x[k]]
    <3>1. k \in 0 .. last /\ k + 1 \in 0 .. last /\ k + 1 \in 1 .. last /\ (k + 1) - 1 = k
      OBVIOUS
    <3>2. u[k + 1] = enc.nxt[<<u[k], inputs[k]>>]
      BY <2>1, <3>1 DEF Chain
    <3> QED BY <2>2, <3>1, <3>2
  <2> QED BY <1>2, <2>3, <2>4 DEF IsRun
<1>3. ASSUME IsRun(x)
      PROVE  \E s \in enc.states, inputs \in [0 .. last -> enc.inputs] : x = Run(s, inputs)
  <2> DEFINE u == [k \in 0 .. last |-> x[k][1]]
             inputs == [k \in 0 .. last |-> x[k][2]]
             s == u[0]
  <2>1. \A k \in 0 .. last : x[k] \in Transitions(inst)
    BY <1>3 DEF IsRun
  <2>2. \A k \in 0 .. last : x[k][1] \in enc.states /\ x[k][2] \in enc.inputs /\ x[k] = <<x[k][1], x[k][2]>>
    BY <2>1 DEF Transitions, enc
  <2>3. /\ u \in [0 .. last -> enc.states] /\ inputs \in [0 .. last -> enc.inputs]
        /\ \A k \in 0 .. last : x[k] = <<u[k], inputs[k]>> /\ u[k] = x[k][1]
    BY <2>2
  <2> HIDE DEF u, inputs
  <2>4. ASSUME NEW k \in 1 .. last PROVE u[k] = enc.nxt[<<u[k - 1], inputs[k - 1]>>]
    <3>1. k - 1 \in 0 .. (last - 1) /\ k - 1 \in 0 .. last /\ (k - 1) + 1 = k /\ k \in 0 .. last
      OBVIOUS
    <3>2. x[k][1] = enc.nxt[x[k - 1]]
      <4> DEFINE j == k - 1
      <4>1. j \in 0 .. (last - 1) /\ j + 1 = k
        BY <3>1
      <4> HIDE DEF j
      <4>2. x[j + 1][1] = enc.nxt[x[j]]
        BY <1>3, <4>1 DEF IsRun
      <4> QED BY <4>1, <4>2 DEF j
    <3> QED BY <2>3, <3>1, <3>2
  <2>5. s \in enc.states
    BY <2>3
  <2> DEFINE s0 == s
  <2>6. Chain(u, last, s0, inputs)
    BY <2>3, <2>4 DEF Chain
  <2>7. States(s0, inputs) = u
    BY <2>6, StatesAre
  <2>8. Run(s0, inputs) = [k \in 0 .. last |-> <<u[k], inputs[k]>>]
    BY <2>7 DEF Run
  <2>9. x = [k \in 0 .. last |-> x[k]]
    BY <1>3 DEF IsRun
  <2>10. x = Run(s0, inputs)
    BY <2>3, <2>8, <2>9
  <2> QED BY <2>3, <2>5, <2>10
<1>4. ASSUME IsRun(x) PROVE \A k \in 0 .. last : enc.ok[x[k]]
  BY <1>4 DEF IsRun
<1>5. x \in Runs <=> /\ \E s \in enc.states, inputs \in [0 .. last -> enc.inputs] : x = Run(s, inputs)
                    /\ \A k \in 0 .. last : enc.ok[x[k]]
  <2> DEFINE X == enc.states
             Y == [0 .. last -> enc.inputs]
  <2> HIDE DEF X, Y
  <2>1. Runs = {y \in {Run(s, inputs) : s \in X, inputs \in Y} : \A k \in 0 .. last : enc.ok[y[k]]}
    BY DEF Runs, X, Y
  <2>2. x \in Runs <=> /\ \E s \in X, inputs \in Y : x = Run(s, inputs)
                      /\ \A k \in 0 .. last : enc.ok[x[k]]
    BY <2>1
  <2> QED BY <2>2 DEF X, Y
<1> QED BY <1>2, <1>3, <1>4, <1>5

Beside(x, y) ==
  [k \in 0 .. last |-> [s1 |-> x[k][1], i1 |-> x[k][2], s2 |-> y[k][1], i2 |-> y[k][2]]]

IsPair(z) ==
  /\ z \in [0 .. last -> Enc!Frames(enc)]
  /\ \A k \in 0 .. (last - 1) : Enc!Linked(enc, z[k], z[k + 1])

LEMMA TwoRunsMeaning ==
  ASSUME inst \in Instances, last \in Nat, NEW z
  PROVE  z \in TwoRuns <=> IsPair(z)
<1>1. z \in TwoRuns <=> \E x \in Runs, y \in Runs : z = Beside(x, y)
  BY DEF TwoRuns, Beside
<1>2. ASSUME NEW x, NEW y, IsRun(x), IsRun(y), z = Beside(x, y)
      PROVE  IsPair(z)
  <2>1. ASSUME NEW k \in 0 .. last
        PROVE  /\ z[k] = [s1 |-> x[k][1], i1 |-> x[k][2], s2 |-> y[k][1], i2 |-> y[k][2]]
               /\ x[k] = <<z[k].s1, z[k].i1>> /\ y[k] = <<z[k].s2, z[k].i2>>
               /\ x[k] \in Transitions(inst) /\ y[k] \in Transitions(inst)
    <3>1. x[k] \in Transitions(inst) /\ y[k] \in Transitions(inst)
      BY <1>2 DEF IsRun
    <3>2. z[k] = [s1 |-> x[k][1], i1 |-> x[k][2], s2 |-> y[k][1], i2 |-> y[k][2]]
      BY <1>2 DEF Beside
    <3> QED BY <3>1, <3>2 DEF Transitions
  <2>2. ASSUME NEW k \in 0 .. last PROVE z[k] \in Enc!Frames(enc)
    <3> DEFINE S == enc.states
               I == enc.inputs
               f == z[k]
    <3>1. x[k] \in S \X I /\ y[k] \in S \X I
      BY <2>1 DEF Transitions, enc
    <3>2. enc.ok[<<f.s1, f.i1>>] /\ enc.ok[<<f.s2, f.i2>>]
      BY <1>2, <2>1, ZenonT(60) DEF IsRun
    <3>3. f \in [s1 : S, i1 : I, s2 : S, i2 : I]
      <4>1. /\ f = [s1 |-> x[k][1], i1 |-> x[k][2], s2 |-> y[k][1], i2 |-> y[k][2]]
            /\ x[k][1] \in S /\ x[k][2] \in I /\ y[k][1] \in S /\ y[k][2] \in I
        BY <2>1, <3>1
      <4> HIDE DEF S, I, f
      <4> QED BY <4>1
    <3> QED BY <3>2, <3>3 DEF Enc!Frames
  <2>3. ASSUME NEW k \in 0 .. (last - 1) PROVE Enc!Linked(enc, z[k], z[k + 1])
    <3>1. k \in 0 .. last /\ k + 1 \in 0 .. last
      OBVIOUS
    <3>2. x[k + 1][1] = enc.nxt[x[k]] /\ y[k + 1][1] = enc.nxt[y[k]]
      BY <1>2 DEF IsRun
    <3>3. z[k + 1].s1 = x[k + 1][1] /\ z[k + 1].s2 = y[k + 1][1]
      <4> DEFINE j == k + 1
      <4>1. j \in 0 .. last
        BY <3>1
      <4> HIDE DEF j
      <4>2. z[j] = [s1 |-> x[j][1], i1 |-> x[j][2], s2 |-> y[j][1], i2 |-> y[j][2]]
        BY <2>1, <4>1
      <4>3. z[j].s1 = x[j][1] /\ z[j].s2 = y[j][1]
        BY <4>2
      <4> QED BY <4>3 DEF j
    <3> QED BY <2>1, <3>1, <3>2, <3>3 DEF Enc!Linked
  <2>4. z = [k \in 0 .. last |-> z[k]]
    BY <1>2 DEF Beside
  <2> QED BY <2>2, <2>3, <2>4 DEF IsPair
<1>3. ASSUME IsPair(z)
      PROVE  \E x, y : IsRun(x) /\ IsRun(y) /\ z = Beside(x, y)
  <2> DEFINE x == [k \in 0 .. last |-> <<z[k].s1, z[k].i1>>]
             y == [k \in 0 .. last |-> <<z[k].s2, z[k].i2>>]
             S == enc.states
             I == enc.inputs
  <2>1. \A k \in 0 .. last : z[k] \in Enc!Frames(enc)
    BY <1>3 DEF IsPair
  <2>2. ASSUME NEW k \in 0 .. last
        PROVE  /\ z[k] \in [s1 : S, i1 : I, s2 : S, i2 : I]
               /\ enc.ok[<<z[k].s1, z[k].i1>>] /\ enc.ok[<<z[k].s2, z[k].i2>>]
    BY <2>1 DEF Enc!Frames
  <2>3. ASSUME NEW k \in 0 .. last
        PROVE  /\ x[k] = <<z[k].s1, z[k].i1>> /\ y[k] = <<z[k].s2, z[k].i2>>
               /\ x[k] \in S \X I /\ y[k] \in S \X I
               /\ z[k] = [s1 |-> z[k].s1, i1 |-> z[k].i1, s2 |-> z[k].s2, i2 |-> z[k].i2]
    <3> HIDE DEF S, I
    <3> QED BY <2>2
  <2>4. x \in [0 .. last -> S \X I] /\ y \in [0 .. last -> S \X I]
    <3> HIDE DEF S, I
    <3> QED BY <2>3
  <2>5. z = Beside(x, y)
    <3>1. z = [k \in 0 .. last |-> z[k]]
      BY <1>3 DEF IsPair
    <3>2. \A k \in 0 .. last : x[k][1] = z[k].s1 /\ x[k][2] = z[k].i1 /\ y[k][1] = z[k].s2 /\ y[k][2] = z[k].i2
      BY <2>3
    <3> HIDE DEF x, y
    <3>3. \A k \in 0 .. last : z[k] = [s1 |-> x[k][1], i1 |-> x[k][2], s2 |-> y[k][1], i2 |-> y[k][2]]
      BY <2>3, <3>2
    <3> QED BY <3>1, <3>3 DEF Beside
  <2>6. ASSUME NEW k \in 0 .. (last - 1) PROVE x[k + 1][1] = enc.nxt[x[k]] /\ y[k + 1][1] = enc.nxt[y[k]]
    <3>1. k \in 0 .. last /\ k + 1 \in 0 .. last
      OBVIOUS
    <3>2. x[k + 1][1] = z[k + 1].s1 /\ y[k + 1][1] = z[k + 1].s2
      BY <3>1
    <3>3. z[k + 1].s1 = enc.nxt[<<z[k].s1, z[k].i1>>] /\ z[k + 1].s2 = enc.nxt[<<z[k].s2, z[k].i2>>]
      BY <1>3 DEF IsPair, Enc!Linked
    <3>4. x[k] = <<z[k].s1, z[k].i1>> /\ y[k] = <<z[k].s2, z[k].i2>>
      BY <3>1
    <3> HIDE DEF x, y
    <3> QED BY <3>2, <3>3, <3>4
  <2>7. \A k \in 0 .. last : enc.ok[x[k]] /\ enc.ok[y[k]]
    BY <2>2, <2>3
  <2> HIDE DEF x, y
  <2>8. IsRun(x) /\ IsRun(y)
    BY <2>4, <2>6, <2>7 DEF IsRun, Transitions, enc
  <2> QED BY <2>5, <2>8
<1>4. \A x : x \in Runs <=> IsRun(x)
  BY RunsMeaning
<1> QED BY <1>1, <1>2, <1>3, <1>4

-----------------------------------------------------------------------------
(***************************************************************************)
(* The frames of a valuation.                                              *)
(***************************************************************************)
LEMMA SliceFacts ==
  ASSUME NEW i \in Instances, NEW v, NEW k \in Nat, NEW u, u = Slice(i, v, k)
  PROVE  /\ StateIn(i, u, 0) = StateIn(i, v, k)
         /\ NextIn(i, u, 0) = NextIn(i, v, k)
         /\ BitsIn(i, i.instr, u, 0) = BitsIn(i, i.instr, v, k)
         /\ BitsIn(i, i.outstr, u, 0) = BitsIn(i, i.outstr, v, k)
         /\ AssertedIn(i, u, 0) = AssertedIn(i, v, k)
<1> DEFINE f == i.final_index_oneinst
<1>1. f \in Nat /\ f > 3 /\ 0 * f = 0
  BY InstanceFacts
<1>2. ASSUME NEW x \in 1 .. (f - 2)
      PROVE  u[x + 0 * f] = v[x + k * f] /\ x + 0 * f = x
  <2>1. x + 0 * f = x
    BY <1>1
  <2>2. u[x] = v[x + k * f]
    BY DEF Slice
  <2> HIDE DEF f
  <2> QED BY <2>1, <2>2
<1>3. ASSUME NEW s \in Seq(1 .. (f - 2)), NEW n \in DOMAIN s
      PROVE  u[s[n] + 0 * f] = v[s[n] + k * f]
  <2> DEFINE S == 1 .. (f - 2)
             x == s[n]
  <2>1. x \in S
    <3>1. s \in Seq(S)
      OBVIOUS
    <3> HIDE DEF S
    <3> QED BY <3>1
  <2> HIDE DEF x
  <2>2. u[x + 0 * f] = v[x + k * f]
    BY <1>2, <2>1
  <2> QED BY <2>2 DEF x
<1>4. ASSUME NEW n \in DOMAIN i.dffs
      PROVE  /\ Register(i, n, 0, u, 0) = Register(i, n, 0, v, k)
             /\ Register(i, n, i.dffs[n].width, u, 0) = Register(i, n, i.dffs[n].width, v, k)
  <2> DEFINE c == i.dffs[n].current
             d == i.dffs[n].width
  <2>1. d \in Nat \ {0} /\ c \in Nat \ {0} /\ c + 2 * d <= f - 1
    BY RegisterFacts
  <2>2. ASSUME NEW b \in 1 .. d
        PROVE  /\ u[c + 0 + b - 1 + 0 * f] = v[c + 0 + b - 1 + k * f]
               /\ u[c + d + b - 1 + 0 * f] = v[c + d + b - 1 + k * f]
    <3> DEFINE x == c + 0 + b - 1
               y == c + d + b - 1
    <3> HIDE DEF c, d, f
    <3>1. x \in 1 .. (f - 2) /\ y \in 1 .. (f - 2)
      BY <1>1, <2>1
    <3> HIDE DEF x, y
    <3>2. u[x + 0 * f] = v[x + k * f] /\ u[y + 0 * f] = v[y + k * f]
      BY <1>2, <3>1
    <3> QED BY <3>2 DEF x, y
  <2> QED BY <2>2 DEF Register
<1>5. StateIn(i, u, 0) = StateIn(i, v, k) /\ NextIn(i, u, 0) = NextIn(i, v, k)
  BY <1>4 DEF StateIn, NextIn
<1>6. i.instr \in Seq(1 .. (f - 2)) /\ i.outstr \in Seq(1 .. (f - 2)) /\ i.assertion \in Seq(1 .. (f - 2))
  BY InstanceFacts
<1>7. /\ \A n \in DOMAIN i.instr : u[i.instr[n] + 0 * f] = v[i.instr[n] + k * f]
      /\ \A n \in DOMAIN i.outstr : u[i.outstr[n] + 0 * f] = v[i.outstr[n] + k * f]
      /\ \A n \in DOMAIN i.assertion : u[i.assertion[n] + 0 * f] = v[i.assertion[n] + k * f]
  <2> HIDE DEF f
  <2> QED BY <1>3, <1>6
<1>8. /\ BitsIn(i, i.instr, u, 0) = BitsIn(i, i.instr, v, k)
      /\ BitsIn(i, i.outstr, u, 0) = BitsIn(i, i.outstr, v, k)
      /\ AssertedIn(i, u, 0) = AssertedIn(i, v, k)
  BY <1>7 DEF BitsIn, AssertedIn
<1> QED BY <1>5, <1>8

LEMMA TransitionFacts ==
  ASSUME NEW i \in Instances, NEW v, NEW k \in Nat, Slice(i, v, k) \in OneModel(i)
  PROVE  /\ Transition(i, v, k) \in Transitions(i)
         /\ i.encoder.nxt[Transition(i, v, k)] = NextIn(i, v, k)
         /\ i.encoder.out[Transition(i, v, k)] = BitsIn(i, i.outstr, v, k)
         /\ i.encoder.ok[Transition(i, v, k)] = AssertedIn(i, v, k)
<1> DEFINE u == Slice(i, v, k)
<1>1. u \in OneModel(i)
  OBVIOUS
<1>2. /\ StateIn(i, u, 0) = StateIn(i, v, k)
      /\ NextIn(i, u, 0) = NextIn(i, v, k)
      /\ BitsIn(i, i.instr, u, 0) = BitsIn(i, i.instr, v, k)
      /\ BitsIn(i, i.outstr, u, 0) = BitsIn(i, i.outstr, v, k)
      /\ AssertedIn(i, u, 0) = AssertedIn(i, v, k)
  BY SliceFacts
<1> HIDE DEF u
<1>3. Transition(i, u, 0) = Transition(i, v, k)
  BY <1>2 DEF Transition
<1>4. /\ Transition(i, u, 0) \in Transitions(i)
      /\ i.encoder.nxt[Transition(i, u, 0)] = NextIn(i, u, 0)
      /\ i.encoder.out[Transition(i, u, 0)] = BitsIn(i, i.outstr, u, 0)
      /\ i.encoder.ok[Transition(i, u, 0)] = AssertedIn(i, u, 0)
  BY <1>1, EncoderFacts
<1> QED BY <1>2, <1>3, <1>4

\* The valuations of all the variables that the frames use.
Covers(v, m) == m \in Nat /\ v \in [1 .. m -> BOOLEAN] /\ 2 * size * F <= m

LEMMA FrameVariable ==
  ASSUME IInv, Built, NEW v, NEW m, Covers(v, m), NEW x \in 1 .. (F - 2), NEW k \in 0 .. (2 * size - 1)
  PROVE  x + k * F \in 1 .. (2 * size * F) /\ x + k * F \in 1 .. m /\ v[x + k * F] \in BOOLEAN
<1> DEFINE n == 2 * size
           y == x + k * F
<1>1. F \in Nat /\ size \in Nat /\ n \in Nat /\ k \in Nat /\ k < n /\ x \in 1 .. F
  BY SizeFacts
<1>2. y \in 1 .. (n * F)
  <2> HIDE DEF n
  <2> QED BY <1>1, Offset
<1>3. n * F \in Nat /\ n * F <= m /\ n * F = 2 * size * F
  BY <1>1 DEF Covers
<1> HIDE DEF n, y
<1>4. y \in 1 .. m
  BY <1>2, <1>3 DEF Covers
<1>5. v[y] \in BOOLEAN
  BY <1>4 DEF Covers
<1> QED BY <1>2, <1>3, <1>4, <1>5 DEF y

LEMMA SliceModel ==
  ASSUME IInv, Built, NEW v, NEW m, Covers(v, m), Instanced(v), NEW k \in 0 .. (2 * size - 1)
  PROVE  Slice(inst, v, k) \in OneModel(inst) /\ k \in Nat
<1>1. F \in Nat /\ size \in Nat /\ F = inst.final_index_oneinst
  BY SizeFacts
<1>2. k \in Nat
  BY <1>1
<1>3. \A x \in 1 .. (F - 2) : v[x + k * F] \in BOOLEAN
  BY FrameVariable
<1>4. Slice(inst, v, k) \in [1 .. (F - 2) -> BOOLEAN]
  BY <1>1, <1>3 DEF Slice
<1> QED BY <1>1, <1>2, <1>4 DEF OneModel, Instanced

\* What frame k of a valuation says of the encoder.
LEMMA FrameFacts ==
  ASSUME IInv, Built, NEW v, NEW m, Covers(v, m), Instanced(v), NEW k \in 0 .. (2 * size - 1)
  PROVE  /\ <<StateAt(v, k), InputAt(v, k)>> \in Transitions(inst)
         /\ enc.nxt[<<StateAt(v, k), InputAt(v, k)>>] = NextIn(inst, v, k)
         /\ enc.out[<<StateAt(v, k), InputAt(v, k)>>] = BitsIn(inst, inst.outstr, v, k)
         /\ enc.ok[<<StateAt(v, k), InputAt(v, k)>>] = AssertedIn(inst, v, k)
<1>1. inst \in Instances
  BY SizeFacts
<1>2. Slice(inst, v, k) \in OneModel(inst) /\ k \in Nat
  BY SliceModel
<1>3. Transition(inst, v, k) = <<StateAt(v, k), InputAt(v, k)>>
  BY DEF Transition, StateAt, InputAt
<1> QED BY <1>1, <1>2, <1>3, TransitionFacts DEF enc

\* A valuation that satisfies the instances and the connections is a pair of runs.
LEMMA DecodedRuns ==
  ASSUME IInv, Built, NEW v, NEW m, Covers(v, m), Instanced(v), Connected(v)
  PROVE  IsPair(Decode(v))
<1>1. /\ inst \in Instances /\ size \in Nat /\ last \in Nat /\ size = last + 1
  BY SizeFacts
<1>2. ASSUME NEW k \in 0 .. last
      PROVE  /\ k \in 0 .. (2 * size - 1) /\ k + size \in 0 .. (2 * size - 1)
             /\ Decode(v)[k] = FrameAt(v, k)
  BY <1>1 DEF Decode
<1>3. ASSUME NEW k \in 0 .. last PROVE FrameAt(v, k) \in Enc!Frames(enc)
  <2> DEFINE S == enc.states
             I == enc.inputs
             f == FrameAt(v, k)
  <2>1. <<f.s1, f.i1>> = <<StateAt(v, k), InputAt(v, k)>> /\ <<f.s2, f.i2>> = <<StateAt(v, k + size), InputAt(v, k + size)>>
    BY DEF FrameAt
  <2>2. enc.ok[<<f.s1, f.i1>>] /\ enc.ok[<<f.s2, f.i2>>]
    <3>1. AssertedIn(inst, v, k) /\ AssertedIn(inst, v, k + size)
      BY <1>2 DEF Connected
    <3>2. enc.ok[<<f.s1, f.i1>>] = AssertedIn(inst, v, k)
      BY <1>2, <2>1, FrameFacts
    <3>3. enc.ok[<<f.s2, f.i2>>] = AssertedIn(inst, v, k + size)
      <4> DEFINE j == k + size
      <4>1. j \in 0 .. (2 * size - 1)
        BY <1>2
      <4> HIDE DEF j
      <4>2. enc.ok[<<StateAt(v, j), InputAt(v, j)>>] = AssertedIn(inst, v, j)
        BY <4>1, FrameFacts
      <4> QED BY <2>1, <4>2 DEF j
    <3> QED BY <3>1, <3>2, <3>3
  <2>3. f \in [s1 : S, i1 : I, s2 : S, i2 : I]
    <3> DEFINE j == k + size
    <3>1. j \in 0 .. (2 * size - 1)
      BY <1>2
    <3>2. <<StateAt(v, k), InputAt(v, k)>> \in S \X I
      BY <1>2, FrameFacts DEF Transitions, enc
    <3>3. <<StateAt(v, j), InputAt(v, j)>> \in S \X I
      <4> HIDE DEF j
      <4> QED BY <3>1, FrameFacts DEF Transitions, enc
    <3>4. f = [s1 |-> StateAt(v, k), i1 |-> InputAt(v, k), s2 |-> StateAt(v, j), i2 |-> InputAt(v, j)]
      BY DEF FrameAt
    <3> HIDE DEF f, S, I, j
    <3> QED BY <3>2, <3>3, <3>4
  <2> QED BY <2>2, <2>3 DEF Enc!Frames
<1>4. ASSUME NEW k \in 0 .. (last - 1) PROVE Enc!Linked(enc, FrameAt(v, k), FrameAt(v, k + 1))
  <2> DEFINE j == k + size
  <2>1. /\ k \in 0 .. last /\ j \in 0 .. (2 * size - 1) /\ k \in 0 .. (2 * size - 1)
        /\ j \in size .. (size + last - 1) /\ (k + 1) + size = j + 1
    BY <1>1
  <2>2. NextIn(inst, v, k) = StateIn(inst, v, k + 1)
    BY DEF Connected, Linked
  <2>3. NextIn(inst, v, j) = StateIn(inst, v, j + 1)
    <3>1. \A y \in size .. ((size + last) - 1) : NextIn(inst, v, y) = StateIn(inst, v, y + 1)
      BY DEF Connected, Linked
    <3>2. j \in size .. ((size + last) - 1)
      BY <1>1
    <3> HIDE DEF j
    <3> QED BY <3>1, <3>2
  <2>4. /\ FrameAt(v, k + 1).s1 = StateIn(inst, v, k + 1)
        /\ FrameAt(v, k + 1).s2 = StateIn(inst, v, j + 1)
    BY <2>1 DEF FrameAt, StateAt
  <2>5. /\ enc.nxt[<<FrameAt(v, k).s1, FrameAt(v, k).i1>>] = NextIn(inst, v, k)
        /\ enc.nxt[<<FrameAt(v, k).s2, FrameAt(v, k).i2>>] = NextIn(inst, v, j)
    <3>1. /\ FrameAt(v, k).s1 = StateAt(v, k) /\ FrameAt(v, k).i1 = InputAt(v, k)
          /\ FrameAt(v, k).s2 = StateAt(v, j) /\ FrameAt(v, k).i2 = InputAt(v, j)
      BY DEF FrameAt
    <3> HIDE DEF j
    <3>2. /\ enc.nxt[<<StateAt(v, k), InputAt(v, k)>>] = NextIn(inst, v, k)
          /\ enc.nxt[<<StateAt(v, j), InputAt(v, j)>>] = NextIn(inst, v, j)
      BY <2>1, FrameFacts
    <3> QED BY <3>1, <3>2
  <2> HIDE DEF j
  <2> QED BY <2>2, <2>3, <2>4, <2>5 DEF Enc!Linked
<1>5. Decode(v) \in [0 .. last -> Enc!Frames(enc)]
  BY <1>3 DEF Decode
<1>6. ASSUME NEW k \in 0 .. (last - 1) PROVE Enc!Linked(enc, Decode(v)[k], Decode(v)[k + 1])
  <2> DEFINE j == k + 1
  <2>1. k \in 0 .. last /\ j \in 0 .. last
    BY <1>1
  <2>2. Decode(v)[k] = FrameAt(v, k) /\ Decode(v)[j] = FrameAt(v, j)
    <3> HIDE DEF j
    <3> QED BY <1>2, <2>1
  <2>3. Enc!Linked(enc, FrameAt(v, k), FrameAt(v, j))
    BY <1>4
  <2> QED BY <2>2, <2>3
<1> QED BY <1>5, <1>6 DEF IsPair

-----------------------------------------------------------------------------
(***************************************************************************)
(* What the comparisons of vectors say of the frames.                      *)
(***************************************************************************)
LEMMA DivideUnique ==
  ASSUME NEW w \in Nat \ {0}, NEW q \in Nat, NEW d \in 0 .. (w - 1), NEW a, a = q * w + d
  PROVE  a \div w = q /\ a % w = d
<1> DEFINE x == a \div w
           y == a % w
<1>1. a \in Nat
  OBVIOUS
<1>2. x \in Nat /\ y \in 0 .. (w - 1) /\ a = x * w + y
  BY <1>1
<1> HIDE DEF x, y
<1>3. ASSUME q < x PROVE FALSE
  <2>1. q + 1 \in Nat /\ q + 1 <= x
    BY <1>2, <1>3
  <2>2. (q + 1) * w <= x * w
    BY <1>2, <2>1, Product
  <2>3. (q + 1) * w = q * w + w /\ q * w \in Nat /\ x * w \in Nat
    BY <1>2
  <2> QED BY <1>2, <2>2, <2>3
<1>4. ASSUME x < q PROVE FALSE
  <2>1. x + 1 \in Nat /\ x + 1 <= q
    BY <1>2, <1>4
  <2>2. (x + 1) * w <= q * w
    BY <1>2, <2>1, Product
  <2>3. (x + 1) * w = x * w + w /\ q * w \in Nat /\ x * w \in Nat
    BY <1>2
  <2> QED BY <1>2, <2>2, <2>3
<1>5. x = q
  BY <1>2, <1>3, <1>4
<1>6. y = d
  <2>1. q * w \in Nat
    OBVIOUS
  <2> QED BY <1>2, <1>5, <2>1
<1> QED BY <1>5, <1>6 DEF x, y

\* The numbers 1..c*w are c rows of w.
LEMMA Rows ==
  ASSUME NEW c \in Nat, NEW w \in Nat, NEW Q
  PROVE  (\A n \in 1 .. c * w : <<(n - 1) \div w, ((n - 1) % w) + 1>> \in Q)
           <=> \A q \in 0 .. (c - 1) : \A b \in 1 .. w : <<q, b>> \in Q
<1>1. CASE w = 0
  <2>1. c * w = 0
    BY <1>1
  <2>2. \A n \in 1 .. 0 : FALSE
    OBVIOUS
  <2> QED BY <1>1, <2>1, <2>2
<1>2. CASE w # 0
  <2>1. w \in Nat \ {0}
    BY <1>2
  <2>2. ASSUME NEW n \in 1 .. c * w
        PROVE  (n - 1) \div w \in 0 .. (c - 1) /\ ((n - 1) % w) + 1 \in 1 .. w
    <3> DEFINE i == n - 1
               q == i \div w
               x == i % w
    <3>1. i \in Nat /\ i < c * w
      OBVIOUS
    <3> HIDE DEF i
    <3>2. q \in Nat /\ q < c /\ x \in 0 .. (w - 1)
      BY <2>1, <3>1, Quotient
    <3> HIDE DEF q, x
    <3>3. q \in 0 .. (c - 1) /\ x + 1 \in 1 .. w
      BY <2>1, <3>2
    <3> QED BY <3>3 DEF q, x, i
  <2>3. ASSUME NEW q \in 0 .. (c - 1), NEW b \in 1 .. w
        PROVE  \E n \in 1 .. c * w : (n - 1) \div w = q /\ ((n - 1) % w) + 1 = b
    <3> DEFINE d == b - 1
               a == q * w + d
    <3>1. q \in Nat /\ q + 1 \in Nat /\ q + 1 <= c /\ d \in 0 .. (w - 1) /\ d + 1 = b
      BY <2>1
    <3> HIDE DEF d
    <3>2. a \div w = q /\ a % w = d
      BY <2>1, <3>1, DivideUnique
    <3>3. (q + 1) * w <= c * w
      BY <2>1, <3>1, Product
    <3>4. a \in Nat /\ a + 1 <= c * w /\ c * w \in Nat
      <4>1. (q + 1) * w = q * w + w /\ q * w \in Nat /\ c * w \in Nat
        BY <2>1, <3>1
      <4> QED BY <2>1, <3>1, <3>3, <4>1
    <3> HIDE DEF a
    <3>5. a + 1 \in 1 .. c * w /\ (a + 1) - 1 = a
      BY <3>4
    <3> QED BY <3>1, <3>2, <3>5
  <2> QED BY <2>2, <2>3
<1> QED BY <1>1, <1>2

LEMMA Distributed ==
  ASSUME NEW k \in Nat, NEW n \in Nat, NEW f \in Nat
  PROVE  (k + n) * f = k * f + n * f /\ k * f \in Nat /\ n * f \in Nat /\ (k + n) * f \in Nat
OBVIOUS

LEMMA OutputsMeaning ==
  ASSUME IInv, Built, NEW v, NEW m, Covers(v, m)
  PROVE  SameOutputs(v) <=> \A k \in p .. last : BitsIn(inst, inst.outstr, v, k) = BitsIn(inst, inst.outstr, v, k + size)
<1> DEFINE s == inst.outstr
           w == Len(s)
           c == last - p + 1
           y(b, q) == s[b] + (p + q) * F
           z(b, q) == s[b] + ((p + q) + size) * F
           Q == {x \in Nat \X Nat : v[y(x[2], x[1])] = v[z(x[2], x[1])]}
<1>1. /\ inst \in Instances /\ F \in Nat /\ size \in Nat /\ last \in Nat /\ p \in Nat /\ p <= last /\ size = last + 1
      /\ F = inst.final_index_oneinst /\ c \in Nat /\ w \in Nat
      /\ s \in Seq(1 .. (F - 2))
  <2>1. /\ inst \in Instances /\ F \in Nat /\ F = inst.final_index_oneinst
        /\ p \in Nat /\ l \in Nat /\ r \in Nat /\ size = p + l + 1 + r /\ last = p + l + r
    BY SizeFacts
  <2>2. s \in Seq(1 .. (F - 2))
    BY <2>1, InstanceFacts
  <2>3. w \in Nat
    BY <2>2
  <2>4. size \in Nat /\ last \in Nat /\ p <= last /\ size = last + 1 /\ c \in Nat
    BY <2>1
  <2> QED BY <2>1, <2>2, <2>3, <2>4
<1>2. DOMAIN s = 1 .. w /\ \A b \in 1 .. w : s[b] \in 1 .. (F - 2)
  <2> HIDE DEF s
  <2> QED BY <1>1
<1>3. ASSUME NEW b \in 1 .. w, NEW q \in 0 .. (c - 1)
      PROVE  v[y(b, q)] \in BOOLEAN /\ v[z(b, q)] \in BOOLEAN /\ z(b, q) = y(b, q) + size * F
  <2> DEFINE k == p + q
             x == s[b]
  <2>1. k \in 0 .. (2 * size - 1) /\ k + size \in 0 .. (2 * size - 1) /\ k \in Nat
    BY <1>1
  <2>2. x \in 1 .. (F - 2)
    BY <1>2
  <2> HIDE DEF k, x
  <2>3. v[x + k * F] \in BOOLEAN
    BY <2>1, <2>2, FrameVariable
  <2>4. v[x + (k + size) * F] \in BOOLEAN
    <3> DEFINE j == k + size
    <3>1. j \in 0 .. (2 * size - 1)
      BY <2>1
    <3> HIDE DEF j
    <3>2. v[x + j * F] \in BOOLEAN
      BY <2>2, <3>1, FrameVariable
    <3> QED BY <3>2 DEF j
  <2>5. x + (k + size) * F = x + k * F + size * F
    <3>1. (k + size) * F = k * F + size * F /\ k * F \in Nat /\ size * F \in Nat /\ (k + size) * F \in Nat
      <4>1. k \in Nat /\ size \in Nat /\ F \in Nat
        BY <1>1, <2>1
      <4> QED BY ONLY <4>1, Distributed, Zenon
    <3>2. x \in Nat
      BY <1>1, <2>2
    <3> QED BY <3>1, <3>2
  <2> QED BY <2>3, <2>4, <2>5 DEF k, x
<1>4. SameOutputs(v) <=> \A n \in 1 .. c * w : <<(n - 1) \div w, ((n - 1) % w) + 1>> \in Q
  <2> DEFINE t == AtFrames(inst, s, p, last)
             a == Outputs(inst, p, last, 0)
             e == Outputs(inst, p, last, size)
  <2>1. DOMAIN a = 1 .. c * w
    BY DEF Outputs, AtFrame, AtFrames
  <2>2. ASSUME NEW n \in 1 .. c * w
        PROVE  (v[a[n]] <=> v[e[n]]) <=> <<(n - 1) \div w, ((n - 1) % w) + 1>> \in Q
    <3> DEFINE i == n - 1
               q == i \div w
               b == (i % w) + 1
    <3>1. w # 0
      <4>1. c * w # 0
        OBVIOUS
      <4>2. w = 0 => c * w = 0
        BY <1>1
      <4> QED BY <4>1, <4>2
    <3>2. q \in 0 .. (c - 1) /\ b \in 1 .. w /\ q \in Nat
      <4> DEFINE g == i % w
      <4>1. i \in Nat /\ i < c * w /\ w \in Nat \ {0}
        <5>1. c \in Nat /\ w \in Nat /\ w # 0
          BY <1>1, <3>1
        <5> HIDE DEF c, w
        <5>2. c * w \in Nat /\ n \in 1 .. c * w
          BY <5>1
        <5> QED BY <5>1, <5>2
      <4> HIDE DEF i, c, w
      <4>2. q \in Nat /\ q < c /\ g \in 0 .. (w - 1)
        BY <1>1, <4>1, Quotient
      <4> HIDE DEF g, q
      <4>3. q \in 0 .. (c - 1) /\ g + 1 \in 1 .. w
        BY <1>1, <4>1, <4>2
      <4> QED BY <4>2, <4>3 DEF g
    <3>3. t[n] = y(b, q)
      BY <1>1 DEF AtFrames, F
    <3>4. a[n] = t[n] + 0 * F /\ e[n] = t[n] + size * F
      BY <2>1 DEF Outputs, AtFrame, AtFrames, F
    <3> HIDE DEF q, b, t, a, e, c, w
    <3>5. v[y(b, q)] \in BOOLEAN /\ v[z(b, q)] \in BOOLEAN /\ z(b, q) = y(b, q) + size * F
      BY <1>3, <3>2
    <3>6. y(b, q) + 0 * F = y(b, q)
      <4>1. s[b] \in Nat /\ (p + q) * F \in Nat /\ 0 * F = 0
        BY <1>1, <1>2, <3>2
      <4> QED BY <4>1
    <3>7. <<q, b>> \in Q <=> v[y(b, q)] = v[z(b, q)]
      <4> HIDE DEF y, z
      <4>1. b \in Nat
        BY <1>1, <3>2
      <4> QED BY <3>2, <4>1
    <3>8. (v[a[n]] <=> v[e[n]]) <=> v[y(b, q)] = v[z(b, q)]
      <4> HIDE DEF y, z
      <4> QED BY <3>3, <3>4, <3>5, <3>6
    <3> HIDE DEF Q
    <3>9. (v[a[n]] <=> v[e[n]]) <=> <<q, b>> \in Q
      BY <3>7, <3>8
    <3> QED BY <3>9 DEF q, b, i
  <2> HIDE DEF a, e, Q, c, w
  <2>3. SameOutputs(v) <=> \A n \in DOMAIN a : v[a[n]] <=> v[e[n]]
    BY DEF SameOutputs, Equal, a, e
  <2> QED BY <2>1, <2>2, <2>3
<1>5. SameOutputs(v) <=> \A q \in 0 .. (c - 1) : \A b \in 1 .. w : <<q, b>> \in Q
  <2> HIDE DEF Q, c, w
  <2> QED BY <1>1, <1>4, Rows
<1>6. ASSUME NEW q \in 0 .. (c - 1)
      PROVE  (\A b \in 1 .. w : <<q, b>> \in Q)
               <=> BitsIn(inst, s, v, p + q) = BitsIn(inst, s, v, (p + q) + size)
  <2>1. \A b \in 1 .. w : <<q, b>> \in Q <=> v[y(b, q)] = v[z(b, q)]
    <3>1. q \in Nat /\ \A b \in 1 .. w : b \in Nat
      BY <1>1
    <3> HIDE DEF y, z, w
    <3> QED BY <3>1
  <2>2. BitsIn(inst, s, v, p + q) = BitsIn(inst, s, v, (p + q) + size)
          <=> \A b \in 1 .. w : v[y(b, q)] = v[z(b, q)]
    <3> HIDE DEF s, w
    <3> QED BY <1>2 DEF BitsIn, F
  <2> HIDE DEF Q, y, z
  <2> QED BY <2>1, <2>2
<1>7. ASSUME NEW k \in p .. last PROVE k - p \in 0 .. (c - 1) /\ p + (k - p) = k
  BY <1>1
<1>8. ASSUME NEW q \in 0 .. (c - 1) PROVE p + q \in p .. last
  BY <1>1
<1> HIDE DEF Q, y, z, c, w, s
<1>9. SameOutputs(v) <=> \A q \in 0 .. (c - 1) : BitsIn(inst, s, v, p + q) = BitsIn(inst, s, v, (p + q) + size)
  BY <1>5, <1>6
<1>10. (\A q \in 0 .. (c - 1) : BitsIn(inst, s, v, p + q) = BitsIn(inst, s, v, (p + q) + size))
         <=> \A k \in p .. last : BitsIn(inst, s, v, k) = BitsIn(inst, s, v, k + size)
  BY <1>7, <1>8
<1> QED BY <1>9, <1>10 DEF s

LEMMA InputsMeaning ==
  ASSUME IInv, Built, NEW v, NEW m, Covers(v, m), NEW s \in Seq(1 .. (F - 2)),
         \A n \in DOMAIN s : \E j \in DOMAIN inst.instr : s[n] = inst.instr[j]
  PROVE  SameInputs(v, s) <=> \A n \in PlacesOf(s) : Decode(v)[p + l].i1[n] = Decode(v)[p + l].i2[n]
<1> DEFINE c == p + l
           t == inst.instr
           y(x) == x + c * F
           z(x) == x + (c + size) * F
<1>0. /\ F \in Nat /\ size \in Nat /\ last \in Nat /\ size = last + 1 /\ F = inst.final_index_oneinst
      /\ p \in Nat /\ l \in Nat /\ p + l <= last
  BY SizeFacts
<1>1. /\ c \in 0 .. last
      /\ c \in 0 .. (2 * size - 1) /\ c + size \in 0 .. (2 * size - 1)
      /\ size + p + l = c + size /\ 0 + p + l = c
  BY <1>0
<1>2. ASSUME NEW x \in 1 .. (F - 2)
      PROVE  v[y(x)] \in BOOLEAN /\ v[z(x)] \in BOOLEAN
  <2> DEFINE d == c + size
  <2>1. d \in 0 .. (2 * size - 1)
    BY <1>0, <1>1
  <2> HIDE DEF c, d
  <2>2. v[x + c * F] \in BOOLEAN /\ v[x + d * F] \in BOOLEAN
    BY <1>0, <1>1, <2>1, FrameVariable
  <2> QED BY <2>2 DEF d
<1>3. \A n \in DOMAIN s : s[n] \in 1 .. (F - 2)
  <2> DEFINE S == 1 .. (F - 2)
  <2>1. s \in Seq(S)
    OBVIOUS
  <2> HIDE DEF S
  <2>2. \A n \in DOMAIN s : s[n] \in S
    BY <2>1
  <2> QED BY <2>2 DEF S
<1>4. SameInputs(v, s) <=> \A n \in DOMAIN s : v[y(s[n])] <=> v[z(s[n])]
  BY <1>0, <1>1 DEF SameInputs, Equal, AtFrame, F
<1>5. SameInputs(v, s) <=> \A n \in DOMAIN s : v[y(s[n])] = v[z(s[n])]
  <2> HIDE DEF y, z
  <2> QED BY <1>2, <1>3, <1>4
<1>6. /\ \A j \in DOMAIN t : Decode(v)[c].i1[j] = v[y(t[j])]
      /\ \A j \in DOMAIN t : Decode(v)[c].i2[j] = v[z(t[j])]
  <2>1. Decode(v)[c] = FrameAt(v, c)
    BY <1>0, <1>1 DEF Decode
  <2> HIDE DEF c
  <2>2. FrameAt(v, c).i1 = InputAt(v, c) /\ FrameAt(v, c).i2 = InputAt(v, c + size)
    BY DEF FrameAt
  <2>3. \A k : \A j \in DOMAIN t : InputAt(v, k)[j] = v[t[j] + k * F]
    BY DEF InputAt, BitsIn, F
  <2> QED BY <2>1, <2>2, <2>3
<1>7. /\ \A j \in PlacesOf(s) : j \in DOMAIN t /\ \E n \in DOMAIN s : s[n] = t[j]
      /\ \A n \in DOMAIN s : \E j \in PlacesOf(s) : s[n] = t[j]
  BY DEF PlacesOf
<1>8. (\A n \in DOMAIN s : v[y(s[n])] = v[z(s[n])]) <=> \A j \in PlacesOf(s) : v[y(t[j])] = v[z(t[j])]
  <2> HIDE DEF y, z, t
  <2> QED BY <1>7
<1> HIDE DEF y, z, t, c
<1>9. SameInputs(v, s) <=> \A j \in PlacesOf(s) : Decode(v)[c].i1[j] = Decode(v)[c].i2[j]
  BY <1>5, <1>6, <1>7, <1>8
<1> QED BY <1>9 DEF c

LEMMA OnSplitMeaning ==
  ASSUME IInv, Progress, Built, NEW v, NEW m, Covers(v, m)
  PROVE  OnSplit(Decode(v)) <=> (split # <<>> => SameInputs(v, split[1]) /\ ~SameInputs(v, split[2]))
<1> SUFFICES ASSUME split # <<>>
             PROVE  OnSplit(Decode(v)) <=> SameInputs(v, split[1]) /\ ~SameInputs(v, split[2])
  BY DEF OnSplit
<1>1. inst \in Instances /\ split \in Splits(inst) /\ F = inst.final_index_oneinst
  BY SizeFacts DEF Progress
<1>2. split[1] \in Seq(1 .. (F - 2)) /\ split[2] \in Seq(1 .. (F - 2))
  BY <1>1, SplitAssumption
<1>3. ASSUME NEW k \in 1 .. 2
      PROVE  \A n \in DOMAIN split[k] : \E j \in DOMAIN inst.instr : split[k][n] = inst.instr[j]
  BY <1>1, PartitionAssumption
<1> DEFINE s1 == split[1]
           s2 == split[2]
<1>4. /\ s1 \in Seq(1 .. (F - 2)) /\ s2 \in Seq(1 .. (F - 2))
      /\ \A n \in DOMAIN s1 : \E j \in DOMAIN inst.instr : s1[n] = inst.instr[j]
      /\ \A n \in DOMAIN s2 : \E j \in DOMAIN inst.instr : s2[n] = inst.instr[j]
  BY <1>2, <1>3
<1>5. OnSplit(Decode(v)) <=> /\ \A n \in PlacesOf(s1) : Decode(v)[p + l].i1[n] = Decode(v)[p + l].i2[n]
                             /\ ~\A n \in PlacesOf(s2) : Decode(v)[p + l].i1[n] = Decode(v)[p + l].i2[n]
  BY DEF OnSplit
<1> HIDE DEF s1, s2
<1>6. /\ SameInputs(v, s1) <=> \A n \in PlacesOf(s1) : Decode(v)[p + l].i1[n] = Decode(v)[p + l].i2[n]
      /\ SameInputs(v, s2) <=> \A n \in PlacesOf(s2) : Decode(v)[p + l].i1[n] = Decode(v)[p + l].i2[n]
  BY <1>4, InputsMeaning
<1>7. OnSplit(Decode(v)) <=> SameInputs(v, s1) /\ ~SameInputs(v, s2)
  BY <1>5, <1>6
<1> QED BY <1>7 DEF s1, s2

-----------------------------------------------------------------------------
(***************************************************************************)
(* What the comparisons of states say of the frames.                       *)
(***************************************************************************)
\* Vector q is a and then b.
Halves(q, a, b) ==
  /\ DOMAIN q = 1 .. (Len(a) + Len(b))
  /\ \A n \in 1 .. Len(a) : q[n] = a[n]
  /\ \A n \in 1 .. Len(b) : q[Len(a) + n] = b[n]

LEMMA ConcatFacts ==
  ASSUME NEW S, NEW a \in Seq(S), NEW b \in Seq(S)
  PROVE  Halves(a \o b, a, b)
<1>1. Len(a \o b) = Len(a) + Len(b) /\ a \o b \in Seq(S)
  OBVIOUS
<1>2. DOMAIN (a \o b) = 1 .. (Len(a) + Len(b))
  BY <1>1
<1>3. \A n \in 1 .. Len(a) : (a \o b)[n] = a[n]
  OBVIOUS
<1>4. \A n \in 1 .. Len(b) : (a \o b)[Len(a) + n] = b[n]
  OBVIOUS
<1> QED BY <1>2, <1>3, <1>4 DEF Halves

\* Vectors that are compared in two halves.
LEMMA EqualHalves ==
  ASSUME NEW S, NEW v, NEW a1 \in Seq(S), NEW a2 \in Seq(S), NEW b1 \in Seq(S), NEW b2 \in Seq(S),
         Len(a1) = Len(b1), Len(a2) = Len(b2)
  PROVE  Equal(v, a1 \o a2, b1 \o b2) <=> Equal(v, a1, b1) /\ Equal(v, a2, b2)
<1> DEFINE a == a1 \o a2
           b == b1 \o b2
           g == Len(a1)
           h == Len(a2)
<1>0. g \in Nat /\ h \in Nat /\ DOMAIN a1 = 1 .. g /\ DOMAIN a2 = 1 .. h
  OBVIOUS
<1>1a. Halves(a, a1, a2) /\ Halves(b, b1, b2)
  BY ConcatFacts
<1>2. /\ \A n \in 1 .. g : b[n] = b1[n]
      /\ \A n \in 1 .. h : b[g + n] = b2[n]
  <2> HIDE DEF b
  <2> QED BY <1>1a DEF Halves
<1>1. /\ g \in Nat /\ h \in Nat /\ DOMAIN a1 = 1 .. g /\ DOMAIN a2 = 1 .. h
      /\ DOMAIN a = 1 .. (g + h)
      /\ \A n \in 1 .. g : a[n] = a1[n]
      /\ \A n \in 1 .. h : a[g + n] = a2[n]
  <2> HIDE DEF a
  <2> QED BY <1>0, <1>1a DEF Halves
<1> HIDE DEF a, b, g, h
<1>3. ASSUME Equal(v, a, b)
      PROVE  Equal(v, a1, b1) /\ Equal(v, a2, b2)
  <2>1. ASSUME NEW n \in DOMAIN a1 PROVE v[a1[n]] <=> v[b1[n]]
    <3>1. n \in 1 .. g /\ n \in DOMAIN a
      BY <1>1
    <3> QED BY <1>1, <1>2, <1>3, <3>1 DEF Equal
  <2>2. ASSUME NEW n \in DOMAIN a2 PROVE v[a2[n]] <=> v[b2[n]]
    <3>1. n \in 1 .. h /\ g + n \in DOMAIN a
      BY <1>1
    <3> DEFINE x == g + n
    <3>2. x \in DOMAIN a /\ a[x] = a2[n] /\ b[x] = b2[n]
      BY <1>1, <1>2, <3>1
    <3> HIDE DEF x
    <3> QED BY <1>3, <3>2 DEF Equal
  <2> QED BY <2>1, <2>2 DEF Equal
<1>4. ASSUME Equal(v, a1, b1), Equal(v, a2, b2)
      PROVE  Equal(v, a, b)
  <2>1. SUFFICES ASSUME NEW n \in DOMAIN a PROVE v[a[n]] <=> v[b[n]]
    BY DEF Equal
  <2>2. CASE n <= g
    <3>1. n \in 1 .. g
      BY <1>1, <2>2
    <3> QED BY <1>1, <1>2, <1>4, <3>1 DEF Equal
  <2>3. CASE ~(n <= g)
    <3> DEFINE x == n - g
    <3>1. x \in 1 .. h /\ g + x = n
      BY <1>1, <2>3
    <3> HIDE DEF x
    <3>2. a[n] = a2[x] /\ b[n] = b2[x] /\ x \in DOMAIN a2
      BY <1>1, <1>2, <3>1
    <3> QED BY <1>4, <3>2 DEF Equal
  <2> QED BY <2>2, <2>3
<1> QED BY <1>3, <1>4 DEF a, b

\* The first bit of each register.
LEMMA BaseBitFacts ==
  ASSUME IInv, Built, NEW v, NEW m, Covers(v, m), NEW k \in 0 .. (2 * size - 1)
  PROVE  /\ DOMAIN Enc!BaseBits(StateAt(v, k)) = DOMAIN inst.dffs
         /\ \A n \in DOMAIN inst.dffs : /\ Enc!BaseBits(StateAt(v, k))[n] = v[inst.dffs[n].current + k * F]
                                        /\ v[inst.dffs[n].current + k * F] \in BOOLEAN
<1>1. Enc!BaseBits(StateAt(v, k)) = [n \in DOMAIN inst.dffs |-> Register(inst, n, 0, v, k)[1]]
  BY DEF Enc!BaseBits, StateAt, StateIn
<1>2. ASSUME NEW n \in DOMAIN inst.dffs
      PROVE  /\ Register(inst, n, 0, v, k)[1] = v[inst.dffs[n].current + k * F]
             /\ v[inst.dffs[n].current + k * F] \in BOOLEAN
  <2> DEFINE d == inst.dffs[n].width
             c == inst.dffs[n].current
             x == c + 0 + 1 - 1
  <2>1. /\ inst \in Instances /\ F \in Nat /\ F = inst.final_index_oneinst
    BY SizeFacts
  <2>2. d \in Nat \ {0} /\ c \in Nat \ {0} /\ c + 2 * d <= F - 1
    BY <2>1, RegisterFacts
  <2>3. Register(inst, n, 0, v, k) = [b \in 1 .. d |-> v[c + 0 + b - 1 + k * F]]
    BY <2>1 DEF Register
  <2> HIDE DEF c, d
  <2>4. 1 \in 1 .. d /\ x = c /\ c \in 1 .. (F - 2)
    BY <2>1, <2>2
  <2>5. Register(inst, n, 0, v, k)[1] = v[x + k * F]
    BY <2>3, <2>4
  <2> HIDE DEF x
  <2>6. v[c + k * F] \in BOOLEAN
    BY <2>4, FrameVariable
  <2> QED BY <2>4, <2>5, <2>6 DEF c
<1> QED BY <1>1, <1>2

\* The first bits in frames i and j of one copy are the same.
LEMMA BasesMeaning ==
  ASSUME IInv, Built, NEW v, NEW m, Covers(v, m), NEW i \in 0 .. (2 * size - 1), NEW j \in 0 .. (2 * size - 1)
  PROVE  Equal(v, AtFrame(inst, dff_curlst(inst), i), AtFrame(inst, dff_curlst(inst), j))
           <=> Enc!BaseBits(StateAt(v, i)) = Enc!BaseBits(StateAt(v, j))
<1> DEFINE s == Enc!BaseBits(StateAt(v, i))
           t == Enc!BaseBits(StateAt(v, j))
           a == AtFrame(inst, dff_curlst(inst), i)
           b == AtFrame(inst, dff_curlst(inst), j)
           D == DOMAIN inst.dffs
           y(n) == inst.dffs[n].current + i * F
           z(n) == inst.dffs[n].current + j * F
<1>1. DOMAIN a = D /\ \A n \in D : a[n] = y(n) /\ b[n] = z(n)
  BY DEF AtFrame, dff_curlst, F
<1>2. /\ DOMAIN s = D /\ DOMAIN t = D
      /\ \A n \in D : /\ s[n] = v[y(n)] /\ v[y(n)] \in BOOLEAN
                      /\ t[n] = v[z(n)] /\ v[z(n)] \in BOOLEAN
  BY BaseBitFacts
<1>3. s = [n \in D |-> s[n]] /\ t = [n \in D |-> t[n]]
  <2>1. s = [n \in D |-> s[n]]
    BY <1>2 DEF Enc!BaseBits
  <2>2. t = [n \in D |-> t[n]]
    BY <1>2 DEF Enc!BaseBits
  <2> QED BY <2>1, <2>2
<1> HIDE DEF s, t, a, b, D, y, z
<1>4. Equal(v, a, b) <=> \A n \in D : v[y(n)] = v[z(n)]
  BY <1>1, <1>2 DEF Equal
<1>5. s = t <=> \A n \in D : s[n] = t[n]
  BY <1>3
<1>6. s = t <=> \A n \in D : v[y(n)] = v[z(n)]
  BY <1>2, <1>5
<1> QED BY <1>4, <1>6 DEF s, t, a, b

\* The first variables of the registers, in frame k.
LEMMA BaseVector ==
  ASSUME IInv, Built, NEW k \in Nat
  PROVE  /\ AtFrame(inst, dff_curlst(inst), k) \in Seq(Nat)
         /\ Len(AtFrame(inst, dff_curlst(inst), k)) = Len(inst.dffs)
<1> DEFINE D == [current : Nat \ {0}, width : Nat \ {0}]
           d == inst.dffs
           a == AtFrame(inst, dff_curlst(inst), k)
<1>1. inst \in Instances /\ F \in Nat /\ F = inst.final_index_oneinst
  BY SizeFacts
<1>2. d \in Seq(D)
  BY <1>1, InstanceFacts
<1>3. ASSUME NEW n \in DOMAIN d PROVE d[n].current + k * F \in Nat
  <2>1. inst.dffs[n].current \in Nat
    BY <1>1, RegisterFacts
  <2>2. k * F \in Nat
    BY <1>1
  <2> QED BY <2>1, <2>2
<1>4. a = [n \in DOMAIN d |-> d[n].current + k * F]
  BY DEF AtFrame, dff_curlst, F
<1> HIDE DEF a, d, D
<1>5. DOMAIN d = 1 .. Len(d) /\ Len(d) \in Nat
  BY <1>2
<1>6. a \in [1 .. Len(d) -> Nat]
  BY <1>3, <1>4, <1>5
<1>7. a \in Seq(Nat) /\ Len(a) = Len(d)
  BY <1>5, <1>6
<1> QED BY <1>7 DEF a, d

LEMMA StatesMeaning ==
  ASSUME IInv, Built, NEW v, NEW m, Covers(v, m), NEW i \in 0 .. last, NEW j \in 0 .. last
  PROVE  SameStates(v, i, j) <=> Enc!Key(Decode(v)[i]) = Enc!Key(Decode(v)[j])
<1> DEFINE a(k) == AtFrame(inst, dff_curlst(inst), k)
           b(k) == Enc!BaseBits(StateAt(v, k))
           x == i + size
           y == j + size
<1>1. /\ i \in 0 .. (2 * size - 1) /\ j \in 0 .. (2 * size - 1)
      /\ x \in 0 .. (2 * size - 1) /\ y \in 0 .. (2 * size - 1)
      /\ i \in Nat /\ j \in Nat /\ x \in Nat /\ y \in Nat
  <2>1. size \in Nat /\ last \in Nat /\ size = last + 1
    BY SizeFacts
  <2> QED BY <2>1
<1>2. SameStates(v, i, j) <=> Equal(v, a(i) \o a(x), a(j) \o a(y))
  BY DEF SameStates, Compared
<1>3. /\ Decode(v)[i] = FrameAt(v, i) /\ Decode(v)[j] = FrameAt(v, j)
      /\ Enc!Key(FrameAt(v, i)) = <<b(i), b(x)>> /\ Enc!Key(FrameAt(v, j)) = <<b(j), b(y)>>
  BY DEF Decode, FrameAt, Enc!Key
<1> HIDE DEF x, y
<1>4. /\ a(i) \in Seq(Nat) /\ a(x) \in Seq(Nat) /\ a(j) \in Seq(Nat) /\ a(y) \in Seq(Nat)
      /\ Len(a(i)) = Len(a(j)) /\ Len(a(x)) = Len(a(y))
  BY <1>1, BaseVector
<1>5. /\ Equal(v, a(i), a(j)) <=> b(i) = b(j)
      /\ Equal(v, a(x), a(y)) <=> b(x) = b(y)
  BY <1>1, BasesMeaning
<1> HIDE DEF a, b
<1>6. Equal(v, a(i) \o a(x), a(j) \o a(y)) <=> Equal(v, a(i), a(j)) /\ Equal(v, a(x), a(y))
  BY <1>4, EqualHalves
<1> QED BY <1>2, <1>3, <1>5, <1>6

LEMMA LoopMeaning ==
  ASSUME IInv, Built, NEW v, NEW m, Covers(v, m), NEW n \in 1 .. 3
  PROVE  LoopIn(v, n) <=> Enc!DoubleLoop(Decode(v), Starti(n), Endi(n))
<1> DEFINE g == Starti(n)
           h == Endi(n)
           K(k) == Enc!Key(Decode(v)[k])
<1>1. last \in Nat /\ g \in Nat /\ h \in Nat /\ h <= last
  <2>1. /\ p \in Nat /\ l \in Nat /\ r \in Nat /\ last \in Nat /\ last = p + l + r
    BY SizeFacts
  <2>2. CASE n = 1
    BY <2>1, <2>2 DEF Starti, Endi
  <2>3. CASE n = 2
    BY <2>1, <2>3 DEF Starti, Endi
  <2>4. CASE n = 3
    BY <2>1, <2>4 DEF Starti, Endi
  <2> QED BY <2>2, <2>3, <2>4
<1>2. \A i, j \in 0 .. last : SameStates(v, i, j) <=> K(i) = K(j)
  BY StatesMeaning
<1>3. LoopIn(v, n) <=> \E i, j \in Nat : g <= i /\ i < j /\ j <= h /\ SameStates(v, i, j)
  BY DEF LoopIn
<1>4. Enc!DoubleLoop(Decode(v), g, h) <=> \E i \in g .. (h - 1) : \E j \in (i + 1) .. h : K(i) = K(j)
  BY DEF Enc!DoubleLoop
<1> HIDE DEF g, h, K
<1>5. ASSUME NEW i \in Nat, NEW j \in Nat, g <= i, i < j, j <= h
      PROVE  i \in g .. (h - 1) /\ j \in (i + 1) .. h /\ i \in 0 .. last /\ j \in 0 .. last
  BY <1>1, <1>5
<1>6. ASSUME NEW i \in g .. (h - 1), NEW j \in (i + 1) .. h
      PROVE  i \in Nat /\ j \in Nat /\ g <= i /\ i < j /\ j <= h /\ i \in 0 .. last /\ j \in 0 .. last
  BY <1>1
<1>7. ASSUME \E i, j \in Nat : g <= i /\ i < j /\ j <= h /\ SameStates(v, i, j)
      PROVE  \E i \in g .. (h - 1) : \E j \in (i + 1) .. h : K(i) = K(j)
  <2>1. PICK i \in Nat, j \in Nat : g <= i /\ i < j /\ j <= h /\ SameStates(v, i, j)
    BY <1>7
  <2> QED BY <1>2, <1>5, <2>1
<1>8. ASSUME \E i \in g .. (h - 1) : \E j \in (i + 1) .. h : K(i) = K(j)
      PROVE  \E i, j \in Nat : g <= i /\ i < j /\ j <= h /\ SameStates(v, i, j)
  <2>1. PICK i \in g .. (h - 1) : \E j \in (i + 1) .. h : K(i) = K(j)
    BY <1>8
  <2>2. PICK j \in (i + 1) .. h : K(i) = K(j)
    BY <2>1
  <2> QED BY <1>2, <1>6, <2>2
<1> QED BY <1>3, <1>4, <1>7, <1>8 DEF g, h

\* The target of the clauses is the hit of the windows.
LEMMA HitMeaning ==
  ASSUME IInv, Built, NEW v, NEW m, Covers(v, m), Instanced(v), Connected(v)
  PROVE  Hit(Decode(v)) <=> SameOutputs(v) /\ (pc = "loop" => \A n \in 1 .. 3 : LoopIn(v, n))
<1> DEFINE x == Decode(v)
           B(k) == BitsIn(inst, inst.outstr, v, k)
<1>1. /\ size \in Nat /\ last \in Nat /\ p \in Nat /\ l \in Nat /\ r \in Nat /\ size = last + 1 /\ last = p + l + r
  BY SizeFacts
<1>2. IsPair(x)
  BY DecodedRuns
<1>3. ASSUME NEW k \in p .. last PROVE Enc!SameOutput(enc, x[k]) <=> B(k) = B(k + size)
  <2> DEFINE j == k + size
  <2>1. k \in 0 .. last /\ k \in 0 .. (2 * size - 1) /\ j \in 0 .. (2 * size - 1)
    BY <1>1
  <2>2. /\ x[k].s1 = StateAt(v, k) /\ x[k].i1 = InputAt(v, k)
        /\ x[k].s2 = StateAt(v, j) /\ x[k].i2 = InputAt(v, j)
    BY <2>1 DEF Decode, FrameAt
  <2> HIDE DEF j, x, B
  <2>3. /\ enc.out[<<StateAt(v, k), InputAt(v, k)>>] = BitsIn(inst, inst.outstr, v, k)
        /\ enc.out[<<StateAt(v, j), InputAt(v, j)>>] = BitsIn(inst, inst.outstr, v, j)
    BY <2>1, FrameFacts
  <2>4. Enc!SameOutput(enc, x[k]) <=> B(k) = B(j)
    BY <2>2, <2>3 DEF Enc!SameOutput, B
  <2> QED BY <2>4 DEF j
<1>4. SameOutputs(v) <=> \A k \in p .. last : B(k) = B(k + size)
  BY OutputsMeaning
<1> HIDE DEF B
<1>5. SameOutputs(v) <=> \A k \in p .. last : Enc!SameOutput(enc, x[k])
  BY <1>3, <1>4
<1>6. x \in Enc!Windows(enc, p, last) <=> SameOutputs(v)
  <2> HIDE DEF x
  <2> QED BY <1>2, <1>5 DEF IsPair, Enc!Windows
<1>7. Enc!DoubleLoop(x, 0, p) <=> LoopIn(v, 1)
  <2>1. LoopIn(v, 1) <=> Enc!DoubleLoop(Decode(v), Starti(1), Endi(1))
    BY LoopMeaning
  <2> QED BY <2>1 DEF Starti, Endi
<1>8. Enc!DoubleLoop(x, p, p + l) <=> LoopIn(v, 2)
  <2>1. LoopIn(v, 2) <=> Enc!DoubleLoop(Decode(v), Starti(2), Endi(2))
    BY LoopMeaning
  <2> QED BY <2>1 DEF Starti, Endi
<1>9. Enc!DoubleLoop(x, p + l + 1, last) <=> LoopIn(v, 3)
  <2>1. LoopIn(v, 3) <=> Enc!DoubleLoop(Decode(v), Starti(3), Endi(3))
    BY LoopMeaning
  <2> QED BY <2>1 DEF Starti, Endi
<1>10. x \in Enc!LoopWindows(enc, p, l, r) <=>
         x \in Enc!Windows(enc, p, last)
           /\ Enc!DoubleLoop(x, 0, p) /\ Enc!DoubleLoop(x, p, p + l) /\ Enc!DoubleLoop(x, p + l + 1, last)
  <2> HIDE DEF x
  <2> QED BY <1>1 DEF Enc!LoopWindows
<1>11. (\A n \in 1 .. 3 : LoopIn(v, n)) <=> LoopIn(v, 1) /\ LoopIn(v, 2) /\ LoopIn(v, 3)
  <2>1. 1 .. 3 = {1, 2, 3}
    OBVIOUS
  <2> QED BY <2>1
<1> QED BY <1>6, <1>7, <1>8, <1>9, <1>10, <1>11 DEF Hit

-----------------------------------------------------------------------------
(***************************************************************************)
(* A valuation for every pair of runs: frame by frame, the model that      *)
(* EncoderAssumption says there is.                                        *)
(***************************************************************************)
HalfAt(x, k) == IF k <= last THEN <<x[k].s1, x[k].i1>> ELSE <<x[k - size].s2, x[k - size].i2>>

ModelAt(x, k) == CHOOSE u \in OneModel(inst) : Transition(inst, u, 0) = HalfAt(x, k)

Encoded(x, m) ==
  [y \in 1 .. m |-> \E k \in 0 .. (2 * size - 1) : \E z \in 1 .. (F - 2) : y = z + k * F /\ ModelAt(x, k)[z]]

\* A variable is one of one frame.
LEMMA OneFrame ==
  ASSUME NEW f \in Nat, f > 3, NEW y \in 1 .. (f - 2), NEW z \in 1 .. (f - 2), NEW j \in Nat, NEW k \in Nat,
         y + j * f = z + k * f
  PROVE  y = z /\ j = k
<1> DEFINE a == j * f + y
<1>1. f \in Nat \ {0} /\ y \in 0 .. (f - 1) /\ z \in 0 .. (f - 1) /\ a = j * f + y
  OBVIOUS
<1>2. a = k * f + z
  <2>1. j * f \in Nat /\ k * f \in Nat /\ y \in Nat /\ z \in Nat
    OBVIOUS
  <2> QED BY <2>1
<1> HIDE DEF a
<1>3. a \div f = j /\ a % f = y
  BY <1>1, DivideUnique
<1>4. a \div f = k /\ a % f = z
  BY <1>1, <1>2, DivideUnique
<1> QED BY <1>3, <1>4

LEMMA HalfFacts ==
  ASSUME IInv, Built, NEW x, IsPair(x), NEW k \in 0 .. (2 * size - 1)
  PROVE  /\ HalfAt(x, k) \in Transitions(inst)
         /\ enc.ok[HalfAt(x, k)]
         /\ k \in Nat
         /\ ModelAt(x, k) \in OneModel(inst)
         /\ Transition(inst, ModelAt(x, k), 0) = HalfAt(x, k)
<1> DEFINE S == enc.states
           I == enc.inputs
<1>1. inst \in Instances /\ size \in Nat /\ last \in Nat /\ size = last + 1
  BY SizeFacts
<1>2. k \in Nat /\ (~(k <= last) => k - size \in 0 .. last) /\ (k <= last => k \in 0 .. last)
  BY <1>1
<1>3. ASSUME NEW j \in 0 .. last
      PROVE  /\ <<x[j].s1, x[j].i1>> \in S \X I /\ enc.ok[<<x[j].s1, x[j].i1>>]
             /\ <<x[j].s2, x[j].i2>> \in S \X I /\ enc.ok[<<x[j].s2, x[j].i2>>]
  <2>1. x[j] \in Enc!Frames(enc)
    BY DEF IsPair
  <2>2. /\ x[j] \in [s1 : S, i1 : I, s2 : S, i2 : I]
        /\ enc.ok[<<x[j].s1, x[j].i1>>] /\ enc.ok[<<x[j].s2, x[j].i2>>]
    BY <2>1 DEF Enc!Frames
  <2> HIDE DEF S, I
  <2> QED BY <2>2
<1>4. HalfAt(x, k) \in S \X I /\ enc.ok[HalfAt(x, k)]
  <2> HIDE DEF S, I
  <2>1. CASE k <= last
    <3>1. HalfAt(x, k) = <<x[k].s1, x[k].i1>>
      BY <2>1 DEF HalfAt
    <3> QED BY <1>2, <1>3, <2>1, <3>1
  <2>2. CASE ~(k <= last)
    <3> DEFINE j == k - size
    <3>1. HalfAt(x, k) = <<x[j].s2, x[j].i2>>
      BY <2>2 DEF HalfAt
    <3>2. j \in 0 .. last
      BY <1>2, <2>2
    <3> HIDE DEF j
    <3> QED BY <1>3, <3>1, <3>2
  <2> QED BY <2>1, <2>2
<1>5. HalfAt(x, k) \in Transitions(inst)
  BY <1>4 DEF Transitions, enc
<1>6. \E u \in OneModel(inst) : Transition(inst, u, 0) = HalfAt(x, k)
  BY <1>1, <1>5, EncoderFacts
<1>7. ModelAt(x, k) \in OneModel(inst) /\ Transition(inst, ModelAt(x, k), 0) = HalfAt(x, k)
  BY <1>6 DEF ModelAt
<1> QED BY <1>2, <1>4, <1>5, <1>7

LEMMA EncodedSlice ==
  ASSUME IInv, Built, NEW m \in Nat, 2 * size * F <= m, NEW x, IsPair(x), NEW k \in 0 .. (2 * size - 1)
  PROVE  Slice(inst, Encoded(x, m), k) = ModelAt(x, k)
<1> DEFINE n == 2 * size
           w == Encoded(x, m)
           u == ModelAt(x, k)
<1>1. F \in Nat /\ F > 3 /\ size \in Nat /\ n \in Nat /\ F = inst.final_index_oneinst /\ k \in Nat /\ k < n
  BY SizeFacts
<1>2. u \in [1 .. (F - 2) -> BOOLEAN]
  BY <1>1, HalfFacts DEF OneModel
<1>3. ASSUME NEW z \in 1 .. (F - 2)
      PROVE  w[z + k * F] = u[z]
  <2> DEFINE y == z + k * F
  <2>1. y \in 1 .. m
    <3>1. y \in 1 .. (n * F)
      <4>1. z \in 1 .. F
        BY <1>1
      <4> HIDE DEF n
      <4> QED BY <1>1, <4>1, Offset
    <3>2. n * F \in Nat /\ n * F <= m
      BY <1>1
    <3> HIDE DEF y, n
    <3> QED BY <3>1, <3>2
  <2>2. w[y] = (\E j \in 0 .. (n - 1) : \E t \in 1 .. (F - 2) : y = t + j * F /\ ModelAt(x, j)[t])
    <3> HIDE DEF y
    <3> QED BY <2>1 DEF Encoded
  <2>3. ASSUME NEW j \in 0 .. (n - 1), NEW t \in 1 .. (F - 2), y = t + j * F
        PROVE  t = z /\ j = k
    <3>1. j \in Nat
      BY <1>1
    <3>2. z + k * F = t + j * F
      BY <2>3
    <3> HIDE DEF n, y
    <3>3. z = t /\ k = j
      BY <1>1, <3>1, <3>2, OneFrame
    <3> QED BY <3>3
  <2>4. (\E j \in 0 .. (n - 1) : \E t \in 1 .. (F - 2) : y = t + j * F /\ ModelAt(x, j)[t]) <=> u[z]
    <3>1. k \in 0 .. (n - 1) /\ y = z + k * F
      OBVIOUS
    <3> HIDE DEF y, n
    <3> QED BY <2>3, <3>1
  <2>5. u[z] \in BOOLEAN
    BY <1>2
  <2> HIDE DEF w, y, u
  <2>6. w[y] = u[z]
    BY <2>2, <2>4, <2>5
  <2> QED BY <2>6 DEF y
<1> HIDE DEF w, u
<1>4. Slice(inst, w, k) = [z \in 1 .. (F - 2) |-> w[z + k * F]]
  BY <1>1 DEF Slice
<1>5. u = [z \in 1 .. (F - 2) |-> u[z]]
  BY <1>2
<1>6. Slice(inst, w, k) = u
  BY <1>3, <1>4, <1>5
<1> QED BY <1>6 DEF w, u

\* What frame k of that valuation says.
LEMMA EncodedFacts ==
  ASSUME IInv, Built, NEW m \in Nat, 2 * size * F <= m, NEW x, IsPair(x), NEW k \in 0 .. (2 * size - 1),
         NEW w, w = Encoded(x, m)
  PROVE  /\ SatisfiesAll(Slice(inst, w, k), inst.clause_list)
         /\ <<StateIn(inst, w, k), InputAt(w, k)>> = HalfAt(x, k)
         /\ enc.nxt[HalfAt(x, k)] = NextIn(inst, w, k)
         /\ AssertedIn(inst, w, k)
<1>1. Slice(inst, w, k) = ModelAt(x, k) /\ inst \in Instances
  BY EncodedSlice, SizeFacts
<1>2. /\ ModelAt(x, k) \in OneModel(inst) /\ Transition(inst, ModelAt(x, k), 0) = HalfAt(x, k)
      /\ k \in Nat /\ enc.ok[HalfAt(x, k)]
  BY HalfFacts
<1>3. SatisfiesAll(Slice(inst, w, k), inst.clause_list)
  BY <1>1, <1>2 DEF OneModel
<1>4. /\ StateIn(inst, ModelAt(x, k), 0) = StateIn(inst, w, k)
      /\ BitsIn(inst, inst.instr, ModelAt(x, k), 0) = BitsIn(inst, inst.instr, w, k)
  BY <1>1, <1>2, SliceFacts
<1>5. Transition(inst, w, k) = HalfAt(x, k)
  BY <1>2, <1>4 DEF Transition
<1>6. /\ inst.encoder.nxt[Transition(inst, w, k)] = NextIn(inst, w, k)
      /\ inst.encoder.ok[Transition(inst, w, k)] = AssertedIn(inst, w, k)
  BY <1>1, <1>2, TransitionFacts
<1>7. AssertedIn(inst, w, k)
  BY <1>2, <1>5, <1>6 DEF enc
<1>8. <<StateIn(inst, w, k), InputAt(w, k)>> = HalfAt(x, k)
  BY <1>5 DEF Transition, InputAt
<1> QED BY <1>3, <1>5, <1>6, <1>7, <1>8 DEF enc

LEMMA EncodedRuns ==
  ASSUME IInv, Built, NEW m \in Nat, 2 * size * F <= m, NEW x, IsPair(x),
         NEW w, w = Encoded(x, m)
  PROVE  Covers(w, m) /\ Instanced(w) /\ Connected(w) /\ Decode(w) = x
<1>1. inst \in Instances /\ size \in Nat /\ last \in Nat /\ size = last + 1
  BY SizeFacts
<1>2. Covers(w, m)
  BY DEF Covers, Encoded
<1>3. Instanced(w) /\ \A k \in 0 .. (2 * size - 1) : AssertedIn(inst, w, k)
  BY EncodedFacts DEF Instanced
<1>4. ASSUME NEW k \in 0 .. last
      PROVE  /\ StateIn(inst, w, k) = x[k].s1 /\ InputAt(w, k) = x[k].i1
             /\ NextIn(inst, w, k) = enc.nxt[<<x[k].s1, x[k].i1>>]
  <2>1. k \in 0 .. (2 * size - 1) /\ k <= last
    BY <1>1
  <2>2. HalfAt(x, k) = <<x[k].s1, x[k].i1>>
    BY <2>1 DEF HalfAt
  <2>3. /\ <<StateIn(inst, w, k), InputAt(w, k)>> = HalfAt(x, k)
        /\ enc.nxt[HalfAt(x, k)] = NextIn(inst, w, k)
    BY <2>1, EncodedFacts
  <2> QED BY <2>2, <2>3
<1>5. ASSUME NEW k \in 0 .. last
      PROVE  /\ StateIn(inst, w, k + size) = x[k].s2 /\ InputAt(w, k + size) = x[k].i2
             /\ NextIn(inst, w, k + size) = enc.nxt[<<x[k].s2, x[k].i2>>]
  <2> DEFINE j == k + size
  <2>1. j \in 0 .. (2 * size - 1) /\ ~(j <= last) /\ j - size = k
    BY <1>1
  <2> HIDE DEF j
  <2>2. HalfAt(x, j) = <<x[k].s2, x[k].i2>>
    BY <2>1 DEF HalfAt
  <2>3. /\ <<StateIn(inst, w, j), InputAt(w, j)>> = HalfAt(x, j)
        /\ enc.nxt[HalfAt(x, j)] = NextIn(inst, w, j)
    BY <2>1, EncodedFacts
  <2> QED BY <2>2, <2>3 DEF j
<1>6. ASSUME NEW k \in 0 .. (last - 1)
      PROVE  /\ k \in 0 .. last /\ k + 1 \in 0 .. last
             /\ enc.nxt[<<x[k].s1, x[k].i1>>] = x[k + 1].s1
             /\ enc.nxt[<<x[k].s2, x[k].i2>>] = x[k + 1].s2
  <2>1. k \in 0 .. last /\ k + 1 \in 0 .. last
    BY <1>1
  <2>2. Enc!Linked(enc, x[k], x[k + 1])
    BY DEF IsPair
  <2> QED BY <2>1, <2>2 DEF Enc!Linked
<1>7. Linked(inst, w, 0, last)
  <2>1. SUFFICES ASSUME NEW k \in 0 .. (last - 1) PROVE NextIn(inst, w, k) = StateIn(inst, w, k + 1)
    BY DEF Linked
  <2> DEFINE j == k + 1
  <2>2. k \in 0 .. last /\ j \in 0 .. last /\ enc.nxt[<<x[k].s1, x[k].i1>>] = x[j].s1
    BY <1>6
  <2> HIDE DEF j
  <2>3. NextIn(inst, w, k) = StateIn(inst, w, j)
    BY <1>4, <2>2
  <2> QED BY <2>3 DEF j
<1>8. Linked(inst, w, size, size + last)
  <2>1. SUFFICES ASSUME NEW i \in size .. ((size + last) - 1) PROVE NextIn(inst, w, i) = StateIn(inst, w, i + 1)
    BY DEF Linked
  <2> DEFINE k == i - size
             j == k + 1
  <2>2. k \in 0 .. (last - 1) /\ k + size = i /\ j + size = i + 1
    BY <1>1
  <2> HIDE DEF k
  <2>3. k \in 0 .. last /\ j \in 0 .. last /\ enc.nxt[<<x[k].s2, x[k].i2>>] = x[j].s2
    BY <1>6, <2>2
  <2> HIDE DEF j
  <2>4. NextIn(inst, w, k + size) = StateIn(inst, w, j + size)
    BY <1>5, <2>3
  <2> QED BY <2>2, <2>4
<1>9. Connected(w)
  BY <1>3, <1>7, <1>8 DEF Connected
<1>10. ASSUME NEW k \in 0 .. last
       PROVE  FrameAt(w, k) = x[k]
  <2> DEFINE S == enc.states
             I == enc.inputs
             f == x[k]
  <2>1. f \in [s1 : S, i1 : I, s2 : S, i2 : I]
    <3>1. f \in Enc!Frames(enc)
      BY DEF IsPair
    <3> QED BY <3>1 DEF Enc!Frames
  <2>2. FrameAt(w, k) = [s1 |-> f.s1, i1 |-> f.i1, s2 |-> f.s2, i2 |-> f.i2]
    BY <1>4, <1>5 DEF FrameAt, StateAt
  <2> HIDE DEF f, S, I
  <2>3. f = [s1 |-> f.s1, i1 |-> f.i1, s2 |-> f.s2, i2 |-> f.i2]
    BY <2>1
  <2> QED BY <2>2, <2>3 DEF f
<1>11. Decode(w) = x
  <2>1. x = [k \in 0 .. last |-> x[k]]
    BY DEF IsPair
  <2> QED BY <1>10, <2>1 DEF Decode
<1> QED BY <1>2, <1>3, <1>9, <1>11

-----------------------------------------------------------------------------
(***************************************************************************)
(* The answers of the solver, which only looks at the variables that are   *)
(* free.                                                                   *)
(***************************************************************************)
LEMMA FreeFacts ==
  ASSUME IInv, Built, NEW k \in 0 .. (2 * size - 1)
  PROVE  /\ FreeVars \subseteq 1 .. (2 * size * F)
         /\ \A n \in DOMAIN inst.instr : inst.instr[n] + k * F \in FreeVars
         /\ \A n \in DOMAIN inst.dffs : \A b \in 1 .. inst.dffs[n].width :
              inst.dffs[n].current + 0 + b - 1 + k * F \in FreeVars
<1> DEFINE K == 0 .. (2 * size - 1)
           s == inst.instr
           D == {inst.dffs[n] : n \in DOMAIN inst.dffs}
           I == {s[n] + j * F : n \in DOMAIN s, j \in K}
           B(d) == d.current .. (d.current + d.width - 1)
           V(d, j) == {x + j * F : x \in B(d)}
           U == UNION {V(d, j) : d \in D, j \in K}
<1>1. inst \in Instances /\ F \in Nat /\ size \in Nat /\ F = inst.final_index_oneinst /\ F > 3
  BY SizeFacts
<1>2. FreeVars = I \cup U
  BY DEF FreeVars
<1>3. ASSUME NEW x \in 1 .. (F - 2), NEW j \in K
      PROVE  x + j * F \in 1 .. (2 * size * F)
  <2> DEFINE n == 2 * size
  <2>1. n \in Nat /\ j \in Nat /\ j < n /\ x \in 1 .. F
    BY <1>1
  <2> HIDE DEF n
  <2>2. x + j * F \in 1 .. (n * F)
    BY <1>1, <2>1, Offset
  <2> QED BY <2>2 DEF n
<1>4. \A n \in DOMAIN s : s[n] \in 1 .. (F - 2)
  <2> DEFINE S == 1 .. (F - 2)
  <2>1. s \in Seq(S)
    BY <1>1, InstanceFacts
  <2> HIDE DEF S, s
  <2>2. \A n \in DOMAIN s : s[n] \in S
    BY <2>1
  <2> QED BY <2>2 DEF S
<1>5. ASSUME NEW d \in D
      PROVE  /\ d.current \in Nat \ {0} /\ d.width \in Nat \ {0} /\ B(d) \subseteq 1 .. (F - 2)
             /\ \A b \in 1 .. d.width : d.current + 0 + b - 1 \in B(d)
  <2> DEFINE c == d.current
             w == d.width
  <2>1. PICK n \in DOMAIN inst.dffs : d = inst.dffs[n]
    OBVIOUS
  <2>2. c \in Nat \ {0} /\ w \in Nat \ {0} /\ c + 2 * w <= F - 1
    BY <1>1, <2>1, RegisterFacts
  <2> HIDE DEF c, w
  <2>3. c .. (c + w - 1) \subseteq 1 .. (F - 2)
    BY <1>1, <2>2
  <2>4. \A b \in 1 .. w : c + 0 + b - 1 \in c .. (c + w - 1)
    BY <2>2
  <2> QED BY <2>2, <2>3, <2>4 DEF c, w
<1> HIDE DEF K, D, s, B
<1>6. I \subseteq 1 .. (2 * size * F)
  BY <1>3, <1>4
<1>7. U \subseteq 1 .. (2 * size * F)
  BY <1>3, <1>5
<1>8. k \in K
  BY DEF K
<1>9. \A n \in DOMAIN s : s[n] + k * F \in I
  BY <1>8
<1>10. ASSUME NEW d \in D, NEW x \in B(d)
       PROVE  x + k * F \in U
  <2>1. x + k * F \in V(d, k)
    OBVIOUS
  <2> HIDE DEF V
  <2>2. V(d, k) \in {V(f, j) : f \in D, j \in K}
    BY <1>8
  <2> QED BY <2>1, <2>2
<1> HIDE DEF I, U
<1>11. ASSUME NEW n \in DOMAIN inst.dffs, NEW b \in 1 .. inst.dffs[n].width
       PROVE  inst.dffs[n].current + 0 + b - 1 + k * F \in U
  <2> DEFINE d == inst.dffs[n]
             x == d.current + 0 + b - 1
  <2>1. d \in D
    BY DEF D
  <2>2. x \in B(d)
    BY <1>5, <2>1
  <2> HIDE DEF d, x
  <2>3. x + k * F \in U
    BY <1>10, <2>1, <2>2
  <2> QED BY <2>3 DEF x, d
<1> QED BY <1>2, <1>6, <1>7, <1>9, <1>11 DEF s

LEMMA DecodeKept ==
  ASSUME IInv, Built, NEW u, NEW v, \A y \in FreeVars : u[y] = v[y]
  PROVE  Decode(u) = Decode(v)
<1>1. size \in Nat /\ last \in Nat /\ size = last + 1
  BY SizeFacts
<1>2. ASSUME NEW k \in 0 .. (2 * size - 1)
      PROVE  StateAt(u, k) = StateAt(v, k) /\ InputAt(u, k) = InputAt(v, k)
  <2>1. ASSUME NEW n \in DOMAIN inst.dffs
        PROVE  Register(inst, n, 0, u, k) = Register(inst, n, 0, v, k)
    <3>1. \A b \in 1 .. inst.dffs[n].width :
             u[inst.dffs[n].current + 0 + b - 1 + k * F] = v[inst.dffs[n].current + 0 + b - 1 + k * F]
      BY FreeFacts
    <3> QED BY <3>1 DEF Register, F
  <2>2. \A n \in DOMAIN inst.instr : u[inst.instr[n] + k * F] = v[inst.instr[n] + k * F]
    BY FreeFacts
  <2>3. StateAt(u, k) = StateAt(v, k)
    BY <2>1 DEF StateAt, StateIn
  <2>4. InputAt(u, k) = InputAt(v, k)
    BY <2>2 DEF InputAt, BitsIn, F
  <2> QED BY <2>3, <2>4
<1>3. ASSUME NEW k \in 0 .. last
      PROVE  FrameAt(u, k) = FrameAt(v, k)
  <2> DEFINE j == k + size
  <2>1. k \in 0 .. (2 * size - 1) /\ j \in 0 .. (2 * size - 1)
    BY <1>1
  <2> HIDE DEF j
  <2>2. /\ StateAt(u, k) = StateAt(v, k) /\ InputAt(u, k) = InputAt(v, k)
        /\ StateAt(u, j) = StateAt(v, j) /\ InputAt(u, j) = InputAt(v, j)
    BY <1>2, <2>1
  <2> QED BY <2>2 DEF FrameAt, j
<1> QED BY <1>3 DEF Decode

\* The same model, with FALSE for the variables that are not free.
LEMMA Cleaned ==
  ASSUME NEW n \in Nat, NEW C, \A c \in C : IsClause(c, n), NEW vars0,
         NEW u \in [1 .. n -> BOOLEAN], SatisfiesAll(u, C)
  PROVE  \E t \in Partly(C, FreeOf(C, vars0), n) : \A y \in 1 .. n : y \in vars0 => t[y] = u[y]
<1> DEFINE free == FreeOf(C, vars0)
           t == [y \in 1 .. n |-> y \in free /\ u[y]]
<1>1. t \in [1 .. n -> BOOLEAN] /\ \A y \in 1 .. n : t[y] = (y \in free /\ u[y])
  OBVIOUS
<1>2. ASSUME NEW y \in 1 .. n, y \in free PROVE t[y] = u[y]
  BY <1>1, <1>2
<1> HIDE DEF t
<1>3. ASSUME NEW c \in C PROVE Satisfies(t, c)
  <2>1. PICK x \in c : True(u, x)
    BY DEF SatisfiesAll, Satisfies
  <2>2. Var(x) \in 1 .. n /\ Var(x) \in free
    BY VarFacts DEF FreeOf
  <2>3. t[Var(x)] = u[Var(x)]
    BY <1>2, <2>2
  <2>4. True(t, x)
    BY <2>1, <2>3 DEF True, Var
  <2> QED BY <2>4 DEF Satisfies
<1>4. SatisfiesAll(t, UpTo(C, n))
  BY <1>3 DEF SatisfiesAll, UpTo
<1>5. \A y \in 1 .. n : y \notin free => ~t[y]
  BY <1>1
<1>6. t \in Partly(C, free, n)
  BY <1>1, <1>4, <1>5 DEF Partly
<1>7. vars0 \subseteq free
  BY DEF FreeOf
<1> QED BY <1>2, <1>6, <1>7

\* A model is a pair of runs as asked for, and its target says whether they are a hit.
LEMMA ModelAnswers ==
  ASSUME IInv, Progress, Means, Built, Compare, NEW n, n = last_index - 1,
         NEW v \in [1 .. n -> BOOLEAN], SatisfiesAll(v, clause_list_multiple)
  PROVE  Decode(v) \in TwoRuns /\ OnSplit(Decode(v)) /\ v[target] = Hit(Decode(v))
<1>1. /\ n \in Nat /\ 2 * size * F <= n /\ target \in 1 .. n
      /\ inst \in Instances /\ last \in Nat
  <2>0. last_index \in Nat /\ 2 * size * F < last_index /\ target \in 1 .. (last_index - 1)
    BY DEF IInv, TypeOK, Allocated
  <2>1. inst \in Instances /\ last \in Nat /\ 2 * size * F \in Nat
    BY SizeFacts
  <2> DEFINE x == 2 * size * F
  <2> HIDE DEF x
  <2>2. n \in Nat /\ x <= n /\ target \in 1 .. n
    BY <2>0, <2>1 DEF x
  <2> QED BY <2>1, <2>2 DEF x
<1>2. Covers(v, n)
  BY <1>1 DEF Covers
<1>3. Meaning(v)
  <2>1. last_index - 1 <= n
    BY <1>1
  <2> QED BY <1>1, <2>1 DEF Means
<1>4. Asked(v) /\ Instanced(v) /\ Connected(v)
  BY <1>3 DEF Meaning, Asked, Compare
<1>5. Decode(v) \in TwoRuns
  BY <1>1, <1>2, <1>4, DecodedRuns, TwoRunsMeaning
<1>6. OnSplit(Decode(v))
  BY <1>2, <1>4, OnSplitMeaning DEF Asked
<1>7. v[target] <=> Hit(Decode(v))
  <2>1. v[target] <=> SameOutputs(v) /\ (pc = "loop" => \A k \in 1 .. 3 : LoopIn(v, k))
    BY <1>3 DEF Meaning
  <2>2. Hit(Decode(v)) <=> SameOutputs(v) /\ (pc = "loop" => \A k \in 1 .. 3 : LoopIn(v, k))
    BY <1>2, <1>4, HitMeaning
  <2> QED BY <2>1, <2>2
<1>8. v[target] \in BOOLEAN /\ Hit(Decode(v)) \in BOOLEAN
  <2>1. v[target] \in BOOLEAN
    BY <1>1
  <2>2. Hit(Decode(v)) \in BOOLEAN
    <3>1. CASE pc = "loop"
      BY <3>1 DEF Hit
    <3>2. CASE pc # "loop"
      BY <3>2 DEF Hit
    <3> QED BY <3>1, <3>2
  <2> QED BY <2>1, <2>2
<1> QED BY <1>5, <1>6, <1>7, <1>8

\* Every pair of runs that is asked for is a model.
LEMMA AnswerModels ==
  ASSUME IInv, Progress, Means, Built, Compare, NEW n, n = last_index - 1,
         NEW x \in TwoRuns, OnSplit(x)
  PROVE  \E v \in Partly(clause_list_multiple, FreeOf(clause_list_multiple, FreeVars), n) : Decode(v) = x
<1> DEFINE w == Encoded(x, n)
           C == clause_list_multiple
           max == 2 * size * F
<1>1. n \in Nat /\ max \in Nat /\ max <= n /\ inst \in Instances /\ last \in Nat /\ last_index - 1 <= n
  <2>0. last_index \in Nat /\ max < last_index
    BY DEF IInv, TypeOK, Allocated
  <2>1. inst \in Instances /\ last \in Nat /\ max \in Nat
    BY SizeFacts
  <2> HIDE DEF max
  <2> QED BY <2>0, <2>1
<1>2. IsPair(x)
  BY <1>1, TwoRunsMeaning
<1>3. Covers(w, n) /\ Instanced(w) /\ Connected(w) /\ Decode(w) = x
  BY <1>1, <1>2, EncodedRuns
<1>4. w \in [1 .. n -> BOOLEAN]
  BY <1>3 DEF Covers
<1> HIDE DEF w
<1>5. Asked(w)
  <2>1. split # <<>> => SameInputs(w, split[1]) /\ ~SameInputs(w, split[2])
    BY <1>3, OnSplitMeaning
  <2> QED BY <1>3, <2>1 DEF Asked
<1>6. PICK u : Extends(u, w, n) /\ SatisfiesAll(u, C)
  BY <1>1, <1>4, <1>5 DEF Means
<1>7. u \in [1 .. n -> BOOLEAN] /\ \A y \in 1 .. max : u[y] = w[y]
  BY <1>6 DEF Extends
<1>8. \A c \in C : IsClause(c, n)
  BY DEF IInv, TypeOK
<1>9. PICK t \in Partly(C, FreeOf(C, FreeVars), n) : \A y \in 1 .. n : y \in FreeVars => t[y] = u[y]
  <2> HIDE DEF C, max
  <2> QED BY <1>1, <1>6, <1>7, <1>8, Cleaned
<1>10. FreeVars \subseteq 1 .. max
  <2>1. 0 \in 0 .. (2 * size - 1)
    BY SizeFacts
  <2> QED BY <2>1, FreeFacts
<1>11. \A y \in FreeVars : t[y] = w[y]
  <2> HIDE DEF max, C
  <2> QED BY <1>1, <1>7, <1>9, <1>10
<1>12. Decode(t) = Decode(w)
  BY <1>11, DecodeKept
<1> QED BY <1>3, <1>9, <1>12

\* The answers are the pairs of runs that are asked for, with their hits.
LEMMA AnswersMeaning ==
  ASSUME IInv, Progress, Means, AtRest, pc # "start"
  PROVE  Answers = {<<x, Hit(x)>> : x \in {y \in TwoRuns : OnSplit(y)}}
<1> DEFINE n == last_index - 1
           C == clause_list_multiple
           P == Partly(C, FreeOf(C, FreeVars), n)
           Q == {y \in TwoRuns : OnSplit(y)}
<1>1. Built /\ Compare
  BY DEF AtRest, Built, Compare
<1>2. n \in Nat /\ \A c \in C : IsClause(c, n)
  <2>1. last_index \in Nat /\ target \in 1 .. (last_index - 1)
    BY <1>1 DEF IInv, TypeOK, Allocated
  <2> QED BY <2>1 DEF IInv, TypeOK
<1>3. Answers = {<<Decode(v), v[target]>> : v \in P}
  BY <1>2, ModelsMeaning DEF Answers
<1>4. ASSUME NEW v \in P PROVE Decode(v) \in Q /\ v[target] = Hit(Decode(v))
  <2>1. v \in [1 .. n -> BOOLEAN] /\ SatisfiesAll(v, UpTo(C, n))
    BY DEF Partly
  <2>2. UpTo(C, n) = C
    <3>1. ASSUME NEW c \in C, NEW x \in c PROVE Var(x) <= n
      BY <1>2, VarFacts
    <3> QED BY <3>1 DEF UpTo
  <2>3. SatisfiesAll(v, C)
    BY <2>1, <2>2
  <2> QED BY <1>1, <2>1, <2>3, ModelAnswers
<1>5. ASSUME NEW x \in Q PROVE \E v \in P : Decode(v) = x
  BY <1>1, AnswerModels
<1> HIDE DEF P, Q
<1>6. {<<Decode(v), v[target]>> : v \in P} = {<<x, Hit(x)>> : x \in Q}
  BY <1>4, <1>5
<1> QED BY <1>3, <1>6 DEF Q

(***************************************************************************)
(* The clauses that construct_nonloop, construct_nonloop_bitIs and         *)
(* construct_loop write mean the query, for every encoder and every        *)
(* window: their models are the pairs of runs that are asked for, and the  *)
(* target is true in those that are a hit.                                 *)
(***************************************************************************)
THEOREM SpecMeansTheQuery == Spec => []MeansTheQuery
<1>1. IInv /\ Progress /\ Means => MeansTheQuery
  BY AnswersMeaning DEF MeansTheQuery
<1> QED BY <1>1, SpecMeans, PTL
=============================================================================
