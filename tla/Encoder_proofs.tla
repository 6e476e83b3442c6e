--------------------------- MODULE Encoder_proofs ---------------------------
(***************************************************************************)
(* Facts about the unrollings of every encoder: the ones UniqueInputs and  *)
(* MinimizeWindow rely on, why a loop shows that a bit is lost, and what   *)
(* InferPredicate assumes of the contexts cut from them.                   *)
(***************************************************************************)
EXTENDS Predicate, FiniteSetTheorems, WellFoundedInduction, TLAPS

(***************************************************************************)
(* More context never adds an ambiguity: dropping the frames a larger      *)
(* window has before and after a smaller one leaves a smaller window.      *)
(***************************************************************************)
THEOREM MoreContext ==
  ASSUME NEW e, NEW c \in Nat, NEW first \in Nat, NEW last \in Nat,
         NEW d \in Nat, NEW first2 \in Nat, NEW last2 \in Nat,
         c <= last, first2 <= first + d, last + d <= last2
  PROVE  Ambiguity(e, c + d, first2, last2) \subseteq Ambiguity(e, c, first, last)
<1> SUFFICES ASSUME NEW x \in Windows(e, first2, last2)
             PROVE  Current(x, c + d) \in Ambiguity(e, c, first, last)
  BY DEF Ambiguity
<1> DEFINE y == [k \in 0 .. last |-> x[k + d]]
<1>1. x \in [0 .. last2 -> Frames(e)]
  BY DEF Windows
<1>2. y \in [0 .. last -> Frames(e)]
  BY <1>1
<1>3. \A k \in 0 .. (last - 1) : Linked(e, y[k], y[k + 1])
  <2> SUFFICES ASSUME NEW k \in 0 .. (last - 1)
               PROVE  Linked(e, y[k], y[k + 1])
    OBVIOUS
  <2>1. k + d \in 0 .. (last2 - 1) /\ (k + 1) + d = (k + d) + 1
    OBVIOUS
  <2>2. y[k] = x[k + d] /\ y[k + 1] = x[(k + 1) + d]
    OBVIOUS
  <2>3. Linked(e, x[k + d], x[(k + d) + 1])
    BY <2>1 DEF Windows
  <2>4. QED
    BY <2>1, <2>2, <2>3
<1>4. \A k \in first .. last : SameOutput(e, y[k])
  <2> SUFFICES ASSUME NEW k \in first .. last
               PROVE  SameOutput(e, y[k])
    OBVIOUS
  <2>1. k + d \in first2 .. last2 /\ y[k] = x[k + d]
    OBVIOUS
  <2>2. QED
    BY <2>1 DEF Windows
<1>5. y \in Windows(e, first, last)
  BY <1>2, <1>3, <1>4 DEF Windows
<1>6. Current(y, c) = Current(x, c + d)
  BY DEF Current
<1>7. QED
  BY <1>5, <1>6 DEF Ambiguity

(***************************************************************************)
(* construct_nonloop with a larger bound: what the next round of           *)
(* procDetermineUniqueInputs asks about is among what this round asked.    *)
(***************************************************************************)
THEOREM NonloopShrinks ==
  ASSUME NEW e, NEW b \in Nat
  PROVE  Nonloop(e, b + 1, b + 1, b + 1) \subseteq Nonloop(e, b, b, b)
<1>1. Ambiguity(e, (b + b) + 2, b + 1, (b + b + b) + 3)
        \subseteq Ambiguity(e, b + b, b, b + b + b)
  BY MoreContext
<1>2. (b + 1) + (b + 1) = (b + b) + 2 /\ (b + 1) + (b + 1) + (b + 1) = (b + b + b) + 3
  OBVIOUS
<1>3. QED
  BY <1>1, <1>2 DEF Nonloop

(***************************************************************************)
(* minimizeL trades a frame of equal outputs for a free one: that can only *)
(* add ambiguity, so it must ask the solver again.                         *)
(***************************************************************************)
THEOREM TradeLeftForPrefix ==
  ASSUME NEW e, NEW p \in Nat, NEW l \in Nat, NEW r \in Nat, l > 0
  PROVE  Nonloop(e, p, l, r) \subseteq Nonloop(e, p + 1, l - 1, r)
<1>1. (p + 1) + (l - 1) = p + l
  OBVIOUS
<1>2. ASSUME NEW n \in Nat
      PROVE  Windows(e, p, n) \subseteq Windows(e, p + 1, n)
  BY DEF Windows
<1>3. Windows(e, p, p + l + r) \subseteq Windows(e, p + 1, p + l + r)
  BY <1>2
<1>4. QED
  BY <1>1, <1>3 DEF Nonloop, Ambiguity

\* A loop window is a window.
THEOREM LoopIsNonloop ==
  ASSUME NEW e, NEW p, NEW l, NEW r
  PROVE  Loop(e, p, l, r) \subseteq Nonloop(e, p, l, r)
  BY DEF Loop, LoopWindows, Nonloop, Ambiguity

(***************************************************************************)
(* Exchanging the copies of a window gives a window, so that asking for a  *)
(* bit that is 0 in copy 1 and 1 in copy 2 asks for any difference.        *)
(***************************************************************************)
THEOREM CopiesExchange ==
  ASSUME NEW e, NEW c \in Nat, NEW first \in Nat, NEW last \in Nat, c <= last,
         NEW m \in Ambiguity(e, c, first, last)
  PROVE  <<m[2], m[1]>> \in Ambiguity(e, c, first, last)
<1>1. PICK x \in Windows(e, first, last) : m = Current(x, c)
  BY DEF Ambiguity
<1> DEFINE swap(f) == [s1 |-> f.s2, i1 |-> f.i2, s2 |-> f.s1, i2 |-> f.i1]
           y == [k \in 0 .. last |-> swap(x[k])]
<1>2. x \in [0 .. last -> Frames(e)]
  BY DEF Windows
<1>3. \A f \in Frames(e) : swap(f) \in Frames(e)
  BY DEF Frames
<1>4. y \in [0 .. last -> Frames(e)]
  BY <1>2, <1>3
<1>a. \A k \in 0 .. last : /\ y[k].s1 = x[k].s2 /\ y[k].i1 = x[k].i2
                          /\ y[k].s2 = x[k].s1 /\ y[k].i2 = x[k].i1
  OBVIOUS
<1> HIDE DEF y
<1>5. \A k \in 0 .. (last - 1) : Linked(e, y[k], y[k + 1])
  <2> SUFFICES ASSUME NEW k \in 0 .. (last - 1)
               PROVE  Linked(e, y[k], y[k + 1])
    OBVIOUS
  <2>1. Linked(e, x[k], x[k + 1])
    BY DEF Windows
  <2>2. k \in 0 .. last /\ k + 1 \in 0 .. last
    OBVIOUS
  <2>3. QED
    BY <2>1, <2>2, <1>a DEF Linked
<1>6. \A k \in first .. last : SameOutput(e, y[k])
  <2> SUFFICES ASSUME NEW k \in first .. last
               PROVE  SameOutput(e, y[k])
    OBVIOUS
  <2>1. SameOutput(e, x[k])
    BY DEF Windows
  <2>2. QED
    BY <2>1, <1>a DEF SameOutput
<1>7. y \in Windows(e, first, last)
  BY <1>4, <1>5, <1>6 DEF Windows
<1>8. Current(y, c) = <<m[2], m[1]>>
  BY <1>1, <1>a DEF Current
<1>9. QED
  BY <1>7, <1>8 DEF Ambiguity

-----------------------------------------------------------------------------
(***************************************************************************)
(* Going round a loop once more.  Frames i and j = i + d have the same     *)
(* states; the frames i..j-1 are repeated in front of frame j, the frames  *)
(* before j stay and those from j on move by d.                            *)
(***************************************************************************)
Repeat(x, j, d, last2) ==
  [k \in 0 .. last2 |-> IF k < j THEN x[k] ELSE x[k - d]]

\* The repetition is an unrolling of the same encoder.
LEMMA RepeatWindow ==
  ASSUME NEW e, NEW first \in Nat, NEW last \in Nat, NEW x \in Windows(e, first, last),
         NEW i \in Nat, NEW j \in Nat, NEW d \in Nat, d > 0, j = i + d, j <= last,
         x[i].s1 = x[j].s1, x[i].s2 = x[j].s2,
         NEW first2 \in Nat,
         (j <= first /\ first2 = first + d) \/ (first <= i /\ first2 = first),
         NEW last2 \in Nat, last2 = last + d
  PROVE  Repeat(x, j, d, last2) \in Windows(e, first2, last2)
<1> DEFINE y == Repeat(x, j, d, last2)
<1>2. x \in [0 .. last -> Frames(e)]
  BY DEF Windows
<1>3. \A k \in 0 .. last2 : /\ k < j => y[k] = x[k] /\ k \in 0 .. last
                            /\ ~(k < j) => y[k] = x[k - d] /\ k - d \in 0 .. last
  BY DEF Repeat
<1>4. y \in [0 .. last2 -> Frames(e)]
  BY <1>2, <1>3 DEF Repeat
<1> HIDE DEF y
<1>5. ASSUME NEW k \in 0 .. (last2 - 1)
      PROVE  Linked(e, y[k], y[k + 1])
  <2>1. \A n \in 0 .. (last - 1) : Linked(e, x[n], x[n + 1])
    BY DEF Windows
  <2>2. CASE k + 1 < j
    <3>1. y[k] = x[k] /\ y[k + 1] = x[k + 1] /\ k \in 0 .. (last - 1)
      BY <2>2, <1>3
    <3>2. QED
      BY <3>1, <2>1
  <2>3. CASE k + 1 = j
    <3>1. y[k] = x[k] /\ k \in 0 .. (last - 1)
      BY <2>3, <1>3
    <3>2. y[j] = x[j - d] /\ j - d = i
      BY <2>3, <1>3
    <3>3. Linked(e, x[k], x[j])
      BY <3>1, <2>1, <2>3
    <3>4. QED
      BY <3>1, <3>2, <3>3, <2>3 DEF Linked
  <2>4. CASE k >= j
    <3>1. y[k] = x[k - d] /\ y[k + 1] = x[(k + 1) - d] /\ k - d \in 0 .. (last - 1)
      BY <2>4, <1>3
    <3>2. (k + 1) - d = (k - d) + 1
      OBVIOUS
    <3>3. QED
      BY <3>1, <3>2, <2>1
  <2>5. QED
    BY <2>2, <2>3, <2>4
<1>6. ASSUME NEW k \in first2 .. last2
      PROVE  SameOutput(e, y[k])
  <2>1. \A n \in first .. last : SameOutput(e, x[n])
    BY DEF Windows
  <2>2. CASE k < j
    <3>1. y[k] = x[k] /\ k \in first .. last
      BY <2>2, <1>3
    <3>2. QED
      BY <3>1, <2>1
  <2>3. CASE ~(k < j)
    <3>1. y[k] = x[k - d] /\ k - d \in first .. last
      BY <2>3, <1>3
    <3>2. QED
      BY <3>1, <2>1
  <2>4. QED
    BY <2>2, <2>3
<1>7. y \in Windows(e, first2, last2)
  BY <1>4, <1>5, <1>6 DEF Windows
<1>8. QED
  BY <1>7 DEF y

\* There is an unrolling that goes round once more and keeps all frames of x.
GoneRound(e, first2, last2, x, last, i, j, d) ==
  \E y \in Windows(e, first2, last2) :
    /\ \A k \in 0 .. (j - 1) : y[k] = x[k]
    /\ y[j] = x[i]
    /\ \A k \in j .. last : y[k + d] = x[k]

\* Repeat is such an unrolling.
LEMMA GoRound ==
  ASSUME NEW e, NEW first \in Nat, NEW last \in Nat, NEW x \in Windows(e, first, last),
         NEW i \in Nat, NEW j \in Nat, NEW d \in Nat, d > 0, j = i + d, j <= last,
         x[i].s1 = x[j].s1, x[i].s2 = x[j].s2,
         NEW first2 \in Nat,
         (j <= first /\ first2 = first + d) \/ (first <= i /\ first2 = first),
         NEW last2 \in Nat, last2 = last + d
  PROVE  GoneRound(e, first2, last2, x, last, i, j, d)
<1> DEFINE y == Repeat(x, j, d, last2)
<1>1. y \in Windows(e, first2, last2)
  BY RepeatWindow
<1>2. \A k \in 0 .. (j - 1) : y[k] = x[k]
  BY DEF Repeat
<1>3. y[j] = x[i]
  BY DEF Repeat
<1>4. \A k \in j .. last : y[k + d] = x[k]
  <2> SUFFICES ASSUME NEW k \in j .. last PROVE y[k + d] = x[k]
    OBVIOUS
  <2>1. k + d \in 0 .. last2 /\ ~(k + d < j) /\ (k + d) - d = k
    OBVIOUS
  <2>2. QED
    BY <2>1 DEF Repeat
<1>5. QED
  BY <1>1, <1>2, <1>3, <1>4 DEF GoneRound

\* Going round a loop in the frames whose outputs are free.
LEMMA GoRoundBefore ==
  ASSUME NEW e, NEW first \in Nat, NEW last \in Nat, NEW x \in Windows(e, first, last),
         NEW i \in Nat, NEW j \in Nat, NEW d \in Nat, d > 0, j = i + d, j <= last,
         x[i].s1 = x[j].s1, x[i].s2 = x[j].s2,
         j <= first, NEW first2 \in Nat, first2 = first + d,
         NEW last2 \in Nat, last2 = last + d
  PROVE  GoneRound(e, first2, last2, x, last, i, j, d)
<1>1. (j <= first /\ first2 = first + d) \/ (first <= i /\ first2 = first)
  OBVIOUS
<1>2. QED
  BY <1>1, GoRound

\* Going round a loop in the frames whose outputs are equal.
LEMMA GoRoundAfter ==
  ASSUME NEW e, NEW first \in Nat, NEW last \in Nat, NEW x \in Windows(e, first, last),
         NEW i \in Nat, NEW j \in Nat, NEW d \in Nat, d > 0, j = i + d, j <= last,
         x[i].s1 = x[j].s1, x[i].s2 = x[j].s2,
         first <= i, NEW last2 \in Nat, last2 = last + d
  PROVE  GoneRound(e, first, last2, x, last, i, j, d)
<1>1. (j <= first /\ first = first + d) \/ (first <= i /\ first = first)
  OBVIOUS
<1>2. QED
  BY <1>1, GoRound

\* Every register of the encoder is one bit wide.
OneBitRegisters(e) ==
  \A s, t \in e.states : BaseBits(s) = BaseBits(t) => s = t

LEMMA LoopFrames ==
  ASSUME NEW e, NEW first \in Nat, NEW last \in Nat, NEW x \in Windows(e, first, last),
         OneBitRegisters(e), NEW a \in Nat, NEW b \in Nat, b <= last, DoubleLoop(x, a, b)
  PROVE  \E i, j \in Nat : /\ a <= i /\ i < j /\ j <= b
                           /\ x[i].s1 = x[j].s1 /\ x[i].s2 = x[j].s2
<1>1. PICK i \in a .. (b - 1) : \E j \in (i + 1) .. b : Key(x[i]) = Key(x[j])
  BY DEF DoubleLoop
<1>2. PICK j \in (i + 1) .. b : Key(x[i]) = Key(x[j])
  BY <1>1
<1>3. i \in 0 .. last /\ j \in 0 .. last /\ i < j /\ i \in Nat /\ j \in Nat /\ a <= i /\ j <= b
  OBVIOUS
<1>4. x[i] \in Frames(e) /\ x[j] \in Frames(e)
  BY <1>3 DEF Windows
<1>5. /\ x[i].s1 \in e.states /\ x[j].s1 \in e.states
      /\ x[i].s2 \in e.states /\ x[j].s2 \in e.states
  BY <1>4 DEF Frames
<1>6. /\ BaseBits(x[i].s1) = BaseBits(x[j].s1)
      /\ BaseBits(x[i].s2) = BaseBits(x[j].s2)
  BY <1>2 DEF Key
<1>7. x[i].s1 = x[j].s1 /\ x[i].s2 = x[j].s2
  BY <1>5, <1>6 DEF OneBitRegisters
<1>8. QED
  BY <1>3, <1>7

\* A loop of x is one of y if y has the frames of x, moved by d.
LEMMA MovedLoop ==
  ASSUME NEW x, NEW y, NEW a \in Nat, NEW b \in Nat, NEW d \in Nat,
         NEW a2 \in Nat, NEW b2 \in Nat, a2 = a + d, b2 = b + d,
         \A k \in a .. b : y[k + d] = x[k], DoubleLoop(x, a, b)
  PROVE  DoubleLoop(y, a2, b2)
<1>1. PICK i \in a .. (b - 1) : \E j \in (i + 1) .. b : Key(x[i]) = Key(x[j])
  BY DEF DoubleLoop
<1>2. PICK j \in (i + 1) .. b : Key(x[i]) = Key(x[j])
  BY <1>1
<1>3. y[i + d] = x[i] /\ y[j + d] = x[j]
  OBVIOUS
<1>4. i + d \in a2 .. (b2 - 1) /\ j + d \in (i + d + 1) .. b2
  OBVIOUS
<1>5. QED
  BY <1>2, <1>3, <1>4 DEF DoubleLoop

\* The same frames have the same loop.
LEMMA SameLoop ==
  ASSUME NEW x, NEW y, NEW a \in Nat, NEW b \in Nat,
         \A k \in a .. b : y[k] = x[k], DoubleLoop(x, a, b)
  PROVE  DoubleLoop(y, a, b)
<1>1. PICK i \in a .. (b - 1) : \E j \in (i + 1) .. b : Key(x[i]) = Key(x[j])
  BY DEF DoubleLoop
<1>2. PICK j \in (i + 1) .. b : Key(x[i]) = Key(x[j])
  BY <1>1
<1>3. y[i] = x[i] /\ y[j] = x[j]
  OBVIOUS
<1>4. QED
  BY <1>2, <1>3 DEF DoubleLoop

\* Two equal frames are a loop.
LEMMA TwoFrames ==
  ASSUME NEW y, NEW a \in Nat, NEW b \in Nat, NEW i \in Nat, NEW j \in Nat,
         a <= i, i < j, j <= b, y[i] = y[j]
  PROVE  DoubleLoop(y, a, b)
<1>1. i \in a .. (b - 1) /\ j \in (i + 1) .. b
  OBVIOUS
<1>2. QED
  BY <1>1 DEF DoubleLoop

(***************************************************************************)
(* The three segments of a loop window, by the frames at their ends: the   *)
(* prefix ends at p, the current frame is c, and n is the last.            *)
(***************************************************************************)
Segments(e, p, c, n) ==
  {x \in Windows(e, p, n) : /\ DoubleLoop(x, 0, p)
                            /\ DoubleLoop(x, p, c)
                            /\ DoubleLoop(x, c + 1, n)}

LEMMA SegmentsOfLoop ==
  ASSUME NEW e, NEW p \in Nat, NEW l \in Nat, NEW r \in Nat
  PROVE  LoopWindows(e, p, l, r) = Segments(e, p, p + l, p + l + r)
  BY DEF LoopWindows, Segments

\* Going round the loop after the current frame.
GrowsRight(e, p, c, n, x) ==
  \E d, n2 \in Nat : \E y \in Segments(e, p, c, n2) :
    d > 0 /\ n2 = n + d /\ Current(y, c) = Current(x, c)

\* It is always possible.
LEMMA GrowRight ==
  ASSUME NEW e, NEW p \in Nat, NEW c \in Nat, NEW n \in Nat, p <= c, c <= n,
         OneBitRegisters(e), NEW x \in Segments(e, p, c, n)
  PROVE  GrowsRight(e, p, c, n, x)
<1>1. /\ x \in Windows(e, p, n)
      /\ DoubleLoop(x, 0, p)
      /\ DoubleLoop(x, p, c)
      /\ DoubleLoop(x, c + 1, n)
  BY DEF Segments
<1>2. PICK i \in Nat, j \in Nat : /\ c + 1 <= i /\ i < j /\ j <= n
                                  /\ x[i].s1 = x[j].s1 /\ x[i].s2 = x[j].s2
  BY <1>1, LoopFrames
<1>3. PICK d \in Nat : d > 0 /\ j = i + d
  BY <1>2
<1>4. PICK n2 \in Nat : n2 = n + d
  OBVIOUS
<1>5. PICK y \in Windows(e, p, n2) : /\ \A k \in 0 .. (j - 1) : y[k] = x[k]
                                     /\ y[j] = x[i]
  <2>1. j <= n /\ p <= i /\ n2 = n + d
    BY <1>2, <1>4
  <2>2. GoneRound(e, p, n2, x, n, i, j, d)
    BY <2>1, <1>1, <1>2, <1>3, GoRoundAfter
  <2>3. QED
    BY <2>2 DEF GoneRound
<1>6. DoubleLoop(y, 0, p)
  BY <1>1, <1>2, <1>5, SameLoop
<1>7. DoubleLoop(y, p, c)
  BY <1>1, <1>2, <1>5, SameLoop
<1>8. DoubleLoop(y, c + 1, n2)
  <2>1. y[i] = y[j]
    BY <1>2, <1>5
  <2>2. PICK a \in Nat : a = c + 1
    OBVIOUS
  <2>3. a <= i /\ i < j /\ j <= n2
    BY <1>2, <1>3, <1>4, <2>2
  <2>4. DoubleLoop(y, a, n2)
    BY <2>1, <2>3, TwoFrames
  <2>5. QED
    BY <2>2, <2>4
<1>9. Current(y, c) = Current(x, c)
  BY <1>2, <1>5 DEF Current
<1>10. QED
  BY <1>3, <1>4, <1>5, <1>6, <1>7, <1>8, <1>9 DEF Segments, GrowsRight

\* Going round the loop between the prefix and the current frame.
GrowsLeft(e, p, c, n, x) ==
  \E d, c2, n2 \in Nat : \E y \in Segments(e, p, c2, n2) :
    d > 0 /\ c2 = c + d /\ n2 = n + d /\ Current(y, c2) = Current(x, c)

\* It is always possible.
LEMMA GrowLeft ==
  ASSUME NEW e, NEW p \in Nat, NEW c \in Nat, NEW n \in Nat, p <= c, c <= n,
         OneBitRegisters(e), NEW x \in Segments(e, p, c, n)
  PROVE  GrowsLeft(e, p, c, n, x)
<1>1. /\ x \in Windows(e, p, n)
      /\ DoubleLoop(x, 0, p)
      /\ DoubleLoop(x, p, c)
      /\ DoubleLoop(x, c + 1, n)
  BY DEF Segments
<1>2. PICK i \in Nat, j \in Nat : /\ p <= i /\ i < j /\ j <= c
                                  /\ x[i].s1 = x[j].s1 /\ x[i].s2 = x[j].s2
  BY <1>1, LoopFrames
<1>3. PICK d \in Nat : d > 0 /\ j = i + d
  BY <1>2
<1>4. PICK n2 \in Nat : n2 = n + d
  OBVIOUS
<1>5. PICK y \in Windows(e, p, n2) : /\ \A k \in 0 .. (j - 1) : y[k] = x[k]
                                     /\ y[j] = x[i]
                                     /\ \A k \in j .. n : y[k + d] = x[k]
  <2>1. j <= n /\ p <= i /\ n2 = n + d
    BY <1>2, <1>4
  <2>2. GoneRound(e, p, n2, x, n, i, j, d)
    BY <2>1, <1>1, <1>2, <1>3, GoRoundAfter
  <2>3. QED
    BY <2>2 DEF GoneRound
<1>c. PICK c2 \in Nat : c2 = c + d
  OBVIOUS
<1>6. DoubleLoop(y, 0, p)
  BY <1>1, <1>2, <1>5, SameLoop
<1>7. DoubleLoop(y, p, c2)
  <2>1. y[i] = x[i] /\ y[j] = x[i]
    BY <1>2, <1>5
  <2>2. p <= i /\ i < j /\ j <= c2
    BY <1>2, <1>c
  <2>3. QED
    BY <2>1, <2>2, TwoFrames
<1>8. DoubleLoop(y, c2 + 1, n2)
  <2>1. \A k \in (c + 1) .. n : y[k + d] = x[k]
    BY <1>2, <1>5
  <2>2. PICK a \in Nat, a2 \in Nat : a = c + 1 /\ a2 = c2 + 1
    OBVIOUS
  <2>3. a2 = a + d
    BY <2>2, <1>c
  <2>4. DoubleLoop(y, a2, n2)
    BY <1>1, <1>4, <2>1, <2>2, <2>3, MovedLoop
  <2>5. QED
    BY <2>2, <2>4
<1>9. Current(y, c2) = Current(x, c)
  BY <1>2, <1>5, <1>c DEF Current
<1>10. QED
  BY <1>3, <1>4, <1>c, <1>5, <1>6, <1>7, <1>8, <1>9 DEF Segments, GrowsLeft

\* Going round the loop in the prefix.
GrowsPrefix(e, p, c, n, x) ==
  \E d, p2, c2, n2 \in Nat : \E y \in Segments(e, p2, c2, n2) :
    /\ d > 0 /\ p2 = p + d /\ c2 = c + d /\ n2 = n + d
    /\ Current(y, c2) = Current(x, c)

\* It is always possible.
LEMMA GrowPrefix ==
  ASSUME NEW e, NEW p \in Nat, NEW c \in Nat, NEW n \in Nat, p <= c, c <= n,
         OneBitRegisters(e), NEW x \in Segments(e, p, c, n)
  PROVE  GrowsPrefix(e, p, c, n, x)
<1>1. /\ x \in Windows(e, p, n)
      /\ DoubleLoop(x, 0, p)
      /\ DoubleLoop(x, p, c)
      /\ DoubleLoop(x, c + 1, n)
  BY DEF Segments
<1>2. PICK i \in Nat, j \in Nat : /\ 0 <= i /\ i < j /\ j <= p
                                  /\ x[i].s1 = x[j].s1 /\ x[i].s2 = x[j].s2
  BY <1>1, LoopFrames
<1>3. PICK d \in Nat : d > 0 /\ j = i + d
  BY <1>2
<1>4. PICK n2 \in Nat : n2 = n + d
  OBVIOUS
<1>p. PICK p2 \in Nat : p2 = p + d
  OBVIOUS
<1>c. PICK c2 \in Nat : c2 = c + d
  OBVIOUS
<1>5. PICK y \in Windows(e, p2, n2) : /\ \A k \in 0 .. (j - 1) : y[k] = x[k]
                                      /\ y[j] = x[i]
                                      /\ \A k \in j .. n : y[k + d] = x[k]
  <2>1. j <= n /\ n2 = n + d
    BY <1>2, <1>4
  <2>2. GoneRound(e, p2, n2, x, n, i, j, d)
    BY <2>1, <1>1, <1>2, <1>3, <1>p, GoRoundBefore
  <2>3. QED
    BY <2>2 DEF GoneRound
<1>6. DoubleLoop(y, 0, p2)
  <2>1. y[i] = x[i] /\ y[j] = x[i]
    BY <1>2, <1>5
  <2>2. 0 <= i /\ i < j /\ j <= p2
    BY <1>2, <1>p
  <2>3. QED
    BY <2>1, <2>2, TwoFrames
<1>7. DoubleLoop(y, p2, c2)
  <2>1. \A k \in p .. c : y[k + d] = x[k]
    BY <1>2, <1>5
  <2>2. QED
    <3>1. DoubleLoop(x, p, c)
      BY <1>1
    <3>2. QED
      BY <2>1, <3>1, <1>p, <1>c, MovedLoop
<1>8. DoubleLoop(y, c2 + 1, n2)
  <2>1. \A k \in (c + 1) .. n : y[k + d] = x[k]
    BY <1>2, <1>5
  <2>2. PICK a \in Nat, a2 \in Nat : a = c + 1 /\ a2 = c2 + 1
    OBVIOUS
  <2>3. a2 = a + d
    BY <2>2, <1>c
  <2>4. DoubleLoop(y, a2, n2)
    BY <1>1, <1>4, <2>1, <2>2, <2>3, MovedLoop
  <2>5. QED
    BY <2>2, <2>4
<1>9. Current(y, c2) = Current(x, c)
  BY <1>2, <1>5, <1>c DEF Current
<1>10. QED
  BY <1>3, <1>4, <1>p, <1>c, <1>5, <1>6, <1>7, <1>8, <1>9 DEF Segments, GrowsPrefix

(***************************************************************************)
(* Why the loop pass of procDetermineUniqueInputs may give a bit up: if    *)
(* every register is one bit wide, what a window with loops confuses is    *)
(* confused by one with more prefix, more left and more right context, and *)
(* that one has loops again.                                               *)
(***************************************************************************)
THEOREM LoopPumps ==
  ASSUME NEW e, NEW p \in Nat, NEW l \in Nat, NEW r \in Nat, OneBitRegisters(e),
         NEW m \in Loop(e, p, l, r)
  PROVE  \E p2, l2, r2 \in Nat : p2 > p /\ l2 > l /\ r2 > r /\ m \in Loop(e, p2, l2, r2)
<1>1. PICK c \in Nat, n \in Nat : c = p + l /\ n = p + l + r
  OBVIOUS
<1>a. p <= c /\ c <= n
  BY <1>1
<1>2. PICK x \in Segments(e, p, c, n) : m = Current(x, c)
  BY <1>1, SegmentsOfLoop DEF Loop
<1>3. PICK dr \in Nat, n1 \in Nat : \E y \in Segments(e, p, c, n1) :
         dr > 0 /\ n1 = n + dr /\ Current(y, c) = Current(x, c)
  <2>1. GrowsRight(e, p, c, n, x)
    BY <1>a, GrowRight
  <2>2. QED
    BY <2>1 DEF GrowsRight
<1>4. PICK y \in Segments(e, p, c, n1) :
         dr > 0 /\ n1 = n + dr /\ Current(y, c) = Current(x, c)
  BY <1>3
<1>b. p <= c /\ c <= n1
  BY <1>a, <1>4
<1>5. PICK dl \in Nat, c1 \in Nat, n2 \in Nat : \E z \in Segments(e, p, c1, n2) :
         dl > 0 /\ c1 = c + dl /\ n2 = n1 + dl /\ Current(z, c1) = Current(y, c)
  <2>1. GrowsLeft(e, p, c, n1, y)
    BY <1>b, GrowLeft
  <2>2. QED
    BY <2>1 DEF GrowsLeft
<1>6. PICK z \in Segments(e, p, c1, n2) :
         dl > 0 /\ c1 = c + dl /\ n2 = n1 + dl /\ Current(z, c1) = Current(y, c)
  BY <1>5
<1>d. p <= c1 /\ c1 <= n2
  BY <1>b, <1>6
<1>7. PICK dp \in Nat, p2 \in Nat, c2 \in Nat, n3 \in Nat : \E w \in Segments(e, p2, c2, n3) :
         /\ dp > 0 /\ p2 = p + dp /\ c2 = c1 + dp /\ n3 = n2 + dp
         /\ Current(w, c2) = Current(z, c1)
  <2>1. GrowsPrefix(e, p, c1, n2, z)
    BY <1>d, GrowPrefix
  <2>2. QED
    BY <2>1 DEF GrowsPrefix
<1>8. PICK w \in Segments(e, p2, c2, n3) :
         /\ dp > 0 /\ p2 = p + dp /\ c2 = c1 + dp /\ n3 = n2 + dp
         /\ Current(w, c2) = Current(z, c1)
  BY <1>7
<1>9. PICK l2 \in Nat, r2 \in Nat : c2 = p2 + l2 /\ n3 = p2 + l2 + r2 /\ l2 > l /\ r2 > r
  <2>1. c2 = p2 + (l + dl) /\ n3 = p2 + (l + dl) + (r + dr) /\ l + dl > l /\ r + dr > r
    BY <1>1, <1>4, <1>6, <1>8
  <2>2. QED
    BY <2>1
<1>10. m = Current(w, c2)
  BY <1>2, <1>4, <1>6, <1>8
<1>11. m \in Loop(e, p2, l2, r2)
  BY <1>9, <1>10, SegmentsOfLoop DEF Loop
<1>12. p2 > p
  BY <1>8
<1>13. QED
  BY <1>9, <1>11, <1>12

(***************************************************************************)
(* A set of natural numbers has a least one: of the intervals that end in  *)
(* its members one is minimal by inclusion.                                *)
(***************************************************************************)
LEMMA Least ==
  ASSUME NEW T \in SUBSET Nat, T # {}
  PROVE  \E m \in T : \A n \in T : m <= n
<1> DEFINE I == {0 .. n : n \in T}
<1>1. I \subseteq FiniteSubsetsOf(Nat) /\ I # {}
  <2>1. ASSUME NEW n \in T PROVE IsFiniteSet(0 .. n) /\ 0 .. n \subseteq Nat
    BY FS_Interval
  <2>2. QED
    BY <2>1 DEF FiniteSubsetsOf
<1>2. \E x \in I : \A y \in I : ~(<<y, x>> \in StrictSubsetOrdering(Nat))
  BY <1>1, FS_StrictSubsetOrderingWellFounded, WFMin
<1>3. PICK m \in T : \A n \in T : ~(<<0 .. n, 0 .. m>> \in StrictSubsetOrdering(Nat))
  BY <1>2
<1>4. ASSUME NEW n \in T PROVE m <= n
  <2>1. SUFFICES ASSUME n < m PROVE FALSE
    OBVIOUS
  <2>2. 0 .. n \subseteq 0 .. m /\ m \in 0 .. m /\ m \notin 0 .. n
    BY <2>1
  <2>3. <<0 .. n, 0 .. m>> \in (SUBSET Nat) \X (SUBSET Nat)
    OBVIOUS
  <2>4. QED
    BY <1>3, <2>2, <2>3 DEF StrictSubsetOrdering
<1>5. QED
  BY <1>4

(***************************************************************************)
(* And so the bit is lost for good: what a window with loops confuses, the *)
(* nonloop pass confuses at every bound it will ever try.                  *)
(***************************************************************************)
THEOREM GivenUpRightly ==
  ASSUME NEW e, NEW p \in Nat, NEW l \in Nat, NEW r \in Nat, OneBitRegisters(e),
         NEW m \in Loop(e, p, l, r), NEW b \in Nat
  PROVE  m \in Nonloop(e, b, b, b)
<1> DEFINE Reached(n) == \E p2, l2, r2 \in Nat : p2 >= n /\ l2 >= n /\ r2 >= n /\ m \in Loop(e, p2, l2, r2)
           T == {n \in Nat : ~Reached(n)}
<1>1. Reached(0)
  OBVIOUS
<1>2. ASSUME NEW n \in Nat, Reached(n) PROVE Reached(n + 1)
  <2>1. PICK p1, l1, r1 \in Nat : p1 >= n /\ l1 >= n /\ r1 >= n /\ m \in Loop(e, p1, l1, r1)
    BY <1>2
  <2>2. PICK p2, l2, r2 \in Nat : p2 > p1 /\ l2 > l1 /\ r2 > r1 /\ m \in Loop(e, p2, l2, r2)
    BY <2>1, LoopPumps
  <2>3. p2 >= n + 1 /\ l2 >= n + 1 /\ r2 >= n + 1
    BY <2>1, <2>2
  <2>4. QED
    BY <2>2, <2>3
<1> HIDE DEF Reached
<1>3. T = {}
  <2>1. SUFFICES ASSUME T # {} PROVE FALSE
    OBVIOUS
  <2>2. PICK n \in T : \A k \in T : n <= k
    <3>1. T \in SUBSET Nat
      OBVIOUS
    <3> HIDE DEF T
    <3>2. QED
      BY <2>1, <3>1, Least
  <2>3. n # 0
    BY <1>1
  <2>4. n - 1 \in Nat /\ Reached(n - 1)
    BY <2>2, <2>3
  <2>5. Reached((n - 1) + 1)
    BY <1>2, <2>4
  <2>6. QED
    BY <2>2, <2>5
<1>4. PICK p2, l2, r2 \in Nat : p2 >= b /\ l2 >= b /\ r2 >= b /\ m \in Loop(e, p2, l2, r2)
  BY <1>3 DEF Reached
<1>5. m \in Nonloop(e, p2, l2, r2)
  BY <1>4, LoopIsNonloop
<1>6. PICK d \in Nat, c \in Nat, last \in Nat, last2 \in Nat :
        c = b + b /\ d = p2 + l2 - c /\ last = b + b + b /\ last2 = p2 + l2 + r2
  <2>1. p2 + l2 - (b + b) \in Nat
    BY <1>4
  <2>2. QED
    BY <2>1
<1>7. c <= last /\ p2 <= b + d /\ last + d <= last2 /\ c + d = p2 + l2
  BY <1>4, <1>6
<1>8. Ambiguity(e, c + d, p2, last2) \subseteq Ambiguity(e, c, b, last)
  BY <1>7, MoreContext
<1>9. QED
  BY <1>5, <1>6, <1>7, <1>8 DEF Nonloop

(***************************************************************************)
(* findUniqDecidedList chains: what bits that follow from U determine,     *)
(* wherever they are, U determines.                                        *)
(***************************************************************************)
THEOREM DecidedChain ==
  ASSUME NEW e, NEW valid, NEW p \in Int, NEW r \in Int, NEW U, NEW V,
         NEW i \in Int, NEW j \in Int, NEW k \in Int, NEW d,
         \A v \in V : Decided(e, valid, p, r, U, i, v, j),
         Decided(e, valid, p, r, V, j, d, k)
  PROVE  Decided(e, valid, p, r, U, i, d, k)
BY DEF Decided

(***************************************************************************)
(* The query of minimizeL2Right with one output frame left, no valid input *)
(* confused, is the query of findUniqDecidedList for every bit of the      *)
(* input.                                                                  *)
(***************************************************************************)
THEOREM LateQueryDecides ==
  ASSUME NEW e, NEW valid, NEW p \in Nat, NEW r \in Nat, NEW n,
         \A m \in Ambiguity(e, p, p + r, p + r) :
            m[1] \in valid \/ m[2] \in valid => m[1] = m[2]
  PROVE  Decided(e, valid, p, r, {OutBits}, p + r, InBit(n), p)
<1> SUFFICES ASSUME NEW x \in Windows(e, p + r + 1, p + r),
                    x[p].i1 \in valid \/ x[p].i2 \in valid,
                    \A u \in {OutBits} : Agrees(e, x[p + r], u)
             PROVE  Agrees(e, x[p], InBit(n))
  BY DEF Decided
<1>1. SameOutput(e, x[p + r])
  BY DEF Agrees, OutBits
<1>2. x \in Windows(e, p + r, p + r)
  <2>1. \A k \in p + r .. p + r : k = p + r
    OBVIOUS
  <2>2. QED
    BY <1>1, <2>1 DEF Windows
<1>3. Current(x, p) \in Ambiguity(e, p, p + r, p + r)
  BY <1>2 DEF Ambiguity
<1>4. x[p].i1 = x[p].i2
  BY <1>3 DEF Current
<1>5. QED
  BY <1>4 DEF Agrees, InBit

(***************************************************************************)
(* genDecoderFunction asks less than findUniqDecidedList did: it compares  *)
(* runs whose inputs are valid in both copies, not in one of them.         *)
(***************************************************************************)
THEOREM DecidedDetermined ==
  ASSUME NEW e, NEW valid, NEW p, NEW r, NEW U, NEW i, NEW d, NEW j,
         Decided(e, valid, p, r, U, i, d, j)
  PROVE  Determined(e, valid, p, r, U, i, d, j)
BY DEF Decided, Determined

-----------------------------------------------------------------------------
\* The valuations that some context of Q is a target for.
Targets(Q) == UNION {z.must : z \in Q}

\* Those that leave the other bits open, by the current inputs M of windows.
LeftOpen(e, U, M) ==
  {On(U, m[1]) : m \in {w \in M : /\ On(U, w[1]) = On(U, w[2])
                                  /\ On(Bits(e) \ U, w[1]) # On(Bits(e) \ U, w[2])}}

(***************************************************************************)
(* Cutting the unrollings into contexts loses no target and adds none.     *)
(***************************************************************************)
LEMMA TargetsOfContexts ==
  ASSUME NEW e, NEW U, NEW c, NEW runs, NEW X,
         \A x \in X : Known(U, c, x) \in Values(e, U)
  PROVE  Targets(Contexts(e, U, c, runs, X)) = {Known(U, c, x) : x \in X}
<1> DEFINE At(z) == [must |-> {f \in Values(e, U) : <<z, f>> \in Cut(e, U, c, X)},
                     may |-> {f \in Values(e, U) : <<z, f>> \notin Cut(e, U, c, runs \ X)}]
<1>1. Contexts(e, U, c, runs, X) = {At(z) : z \in {Context(e, U, c, x) : x \in X}}
  BY DEF Contexts
<1>2. ASSUME NEW f \in Targets(Contexts(e, U, c, runs, X))
      PROVE  f \in {Known(U, c, x) : x \in X}
  <2>1. PICK z : f \in At(z).must
    <3>1. PICK q \in Contexts(e, U, c, runs, X) : f \in q.must
      BY DEF Targets
    <3>2. PICK z \in {Context(e, U, c, x) : x \in X} : q = At(z)
      BY <1>1, <3>1
    <3> QED BY <3>1, <3>2
  <2>2. <<z, f>> \in Cut(e, U, c, X)
    BY <2>1
  <2>3. QED
    BY <2>2 DEF Cut
<1>3. ASSUME NEW x \in X
      PROVE  Known(U, c, x) \in Targets(Contexts(e, U, c, runs, X))
  <2>1. PICK z : z = Context(e, U, c, x)
    OBVIOUS
  <2>2. <<z, Known(U, c, x)>> \in Cut(e, U, c, X)
    BY <2>1 DEF Cut
  <2>3. Known(U, c, x) \in At(z).must
    BY <2>2
  <2>4. At(z) \in Contexts(e, U, c, runs, X)
    BY <1>1, <2>1
  <2>5. QED
    BY <2>3, <2>4 DEF Targets
<1>4. QED
  BY <1>2, <1>3

\* The unique bits of an unrolling have a valuation.
LEMMA KnownValue ==
  ASSUME NEW e, NEW U, NEW c \in Nat, NEW last \in Nat, c <= last,
         NEW x \in Runs(e, U, c, last)
  PROVE  Known(U, c, x) \in Values(e, U)
<1>1. x[c] \in Frames(e)
  BY DEF Runs, Windows
<1>2. x[c].i1 \in e.inputs
  BY <1>1 DEF Frames
<1>3. QED
  BY <1>2 DEF Known, Values

(***************************************************************************)
(* construct_nonloop_bitIs asks the question of construct_nonloop, with    *)
(* the unique bits equal and the others different.                         *)
(***************************************************************************)
THEOREM NonloopTargets ==
  ASSUME NEW e, NEW U, NEW p \in Nat, NEW l \in Nat, NEW r \in Nat
  PROVE  Targets(NonloopQuery(e, U, p, l, r)) = LeftOpen(e, U, Nonloop(e, p, l, r))
<1>1. PICK c \in Nat, last \in Nat : c = p + l /\ last = p + l + r
  OBVIOUS
<1>k. \A x \in Runs(e, U, c, last) : Known(U, c, x) \in Values(e, U)
  BY <1>1, KnownValue
<1> DEFINE X == Runs(e, U, c, last) \cap Windows(e, p, last)
<1>2. Targets(NonloopQuery(e, U, p, l, r)) = {Known(U, c, x) : x \in X}
  BY <1>1, <1>k, TargetsOfContexts DEF NonloopQuery
<1>3. Nonloop(e, p, l, r) = {Current(x, c) : x \in Windows(e, p, last)}
  BY <1>1 DEF Nonloop, Ambiguity
<1>4. Windows(e, p, last) \subseteq Windows(e, last + 1, last)
  BY DEF Windows
<1>5. ASSUME NEW x \in X PROVE Known(U, c, x) \in LeftOpen(e, U, Nonloop(e, p, l, r))
  <2>1. PICK m : m = Current(x, c)
    OBVIOUS
  <2>2. m \in Nonloop(e, p, l, r) /\ m[1] = x[c].i1 /\ m[2] = x[c].i2
    BY <1>3, <2>1 DEF Current
  <2>3. On(U, m[1]) = On(U, m[2]) /\ On(Bits(e) \ U, m[1]) # On(Bits(e) \ U, m[2])
    BY <2>2 DEF Runs
  <2>4. QED
    BY <2>2, <2>3 DEF LeftOpen, Known
<1>6. ASSUME NEW f \in LeftOpen(e, U, Nonloop(e, p, l, r))
      PROVE  f \in {Known(U, c, x) : x \in X}
  <2>1. PICK m \in Nonloop(e, p, l, r) :
          /\ On(U, m[1]) = On(U, m[2]) /\ On(Bits(e) \ U, m[1]) # On(Bits(e) \ U, m[2])
          /\ f = On(U, m[1])
    BY DEF LeftOpen
  <2>2. PICK x \in Windows(e, p, last) : m = Current(x, c)
    BY <1>3, <2>1
  <2>3. m[1] = x[c].i1 /\ m[2] = x[c].i2
    BY <2>2 DEF Current
  <2>4. x \in X
    BY <1>4, <2>1, <2>3 DEF Runs
  <2>5. QED
    BY <2>1, <2>3, <2>4 DEF Known
<1>7. QED
  BY <1>2, <1>5, <1>6

(***************************************************************************)
(* The second part of ContextAssumption, for every encoder: with a larger  *)
(* bound nothing is left open that was not.                                *)
(***************************************************************************)
THEOREM OpenShrinks ==
  ASSUME NEW e, NEW U, NEW n \in Nat
  PROVE  Targets(NonloopQuery(e, U, n + 1, n + 1, n + 1))
           \subseteq Targets(NonloopQuery(e, U, n, n, n))
<1>1. Nonloop(e, n + 1, n + 1, n + 1) \subseteq Nonloop(e, n, n, n)
  BY NonloopShrinks
<1>2. LeftOpen(e, U, Nonloop(e, n + 1, n + 1, n + 1)) \subseteq LeftOpen(e, U, Nonloop(e, n, n, n))
  BY <1>1 DEF LeftOpen
<1>3. n + 1 \in Nat
  OBVIOUS
<1>4. QED
  BY <1>2, <1>3, NonloopTargets

(***************************************************************************)
(* An f that a window with loops leaves open is open in a window: the loop *)
(* pass of a bound excludes nothing its nonloop pass did not see, except   *)
(* through what is up to the solver.                                       *)
(***************************************************************************)
THEOREM LoopTargetsOpen ==
  ASSUME NEW e, NEW U, NEW p \in Nat, NEW l \in Nat, NEW r \in Nat
  PROVE  Targets(LoopQuery(e, U, p, l, r)) \subseteq Targets(NonloopQuery(e, U, p, l, r))
<1>1. PICK c \in Nat, last \in Nat : c = p + l /\ last = p + l + r
  OBVIOUS
<1>k. \A x \in Runs(e, U, c, last) : Known(U, c, x) \in Values(e, U)
  BY <1>1, KnownValue
<1> DEFINE X == Runs(e, U, c, last) \cap LoopWindows(e, p, l, r)
           Y == Runs(e, U, c, last) \cap Windows(e, p, last)
<1>2. Targets(LoopQuery(e, U, p, l, r)) = {Known(U, c, x) : x \in X}
  BY <1>1, <1>k, TargetsOfContexts DEF LoopQuery
<1>3. Targets(NonloopQuery(e, U, p, l, r)) = {Known(U, c, x) : x \in Y}
  BY <1>1, <1>k, TargetsOfContexts DEF NonloopQuery
<1>4. X \subseteq Y
  BY <1>1 DEF LoopWindows
<1>5. QED
  BY <1>2, <1>3, <1>4

\* The input valuations of an encoder are functions on its bits.
InputsAreBits(e) == \A i \in e.inputs : i = [k \in Bits(e) |-> i[k]]

\* The unique bits and the others make up an input.
LEMMA InputFromParts ==
  ASSUME NEW e, InputsAreBits(e), NEW U \in SUBSET Bits(e),
         NEW i \in e.inputs, NEW j \in e.inputs,
         On(U, i) = On(U, j), On(Bits(e) \ U, i) = On(Bits(e) \ U, j)
  PROVE  i = j
<1>1. \A k \in Bits(e) : i[k] = j[k]
  BY DEF On
<1>2. i = [k \in Bits(e) |-> i[k]] /\ j = [k \in Bits(e) |-> j[k]]
  BY DEF InputsAreBits
<1>3. QED
  BY <1>1, <1>2

(***************************************************************************)
(* A context and f fix the unrolling: the inputs are all there, and the    *)
(* states follow from the first ones, frame by frame.                      *)
(***************************************************************************)
LEMMA ContextFixesRun ==
  ASSUME NEW e, InputsAreBits(e), NEW U \in SUBSET Bits(e),
         NEW last \in Nat, NEW c \in 0 .. last,
         NEW x \in Runs(e, U, c, last), NEW y \in Runs(e, U, c, last),
         Context(e, U, c, x) = Context(e, U, c, y), Known(U, c, x) = Known(U, c, y)
  PROVE  x = y
<1>1. /\ x \in [0 .. last -> Frames(e)] /\ y \in [0 .. last -> Frames(e)]
      /\ \A k \in 0 .. last - 1 : Linked(e, x[k], x[k + 1]) /\ Linked(e, y[k], y[k + 1])
      /\ On(U, x[c].i1) = On(U, x[c].i2) /\ On(U, y[c].i1) = On(U, y[c].i2)
  BY DEF Runs, Windows
<1>2. \A k \in 0 .. last : /\ x[k].i1 \in e.inputs /\ x[k].i2 \in e.inputs
                           /\ y[k].i1 \in e.inputs /\ y[k].i2 \in e.inputs
  BY <1>1 DEF Frames
<1>3. /\ x[0].s1 = y[0].s1 /\ x[0].s2 = y[0].s2
      /\ \A k \in 0 .. last : k # c => x[k].i1 = y[k].i1 /\ x[k].i2 = y[k].i2
      /\ On(Bits(e) \ U, x[c].i1) = On(Bits(e) \ U, y[c].i1)
      /\ On(Bits(e) \ U, x[c].i2) = On(Bits(e) \ U, y[c].i2)
  <2> DEFINE In(z) == [k \in DOMAIN z |->
                 IF k = c THEN <<On(Bits(e) \ U, z[k].i1), On(Bits(e) \ U, z[k].i2)>>
                          ELSE <<z[k].i1, z[k].i2>>]
  <2>1. x[0].s1 = y[0].s1 /\ x[0].s2 = y[0].s2 /\ In(x) = In(y)
    BY DEF Context
  <2>2. DOMAIN x = 0 .. last /\ DOMAIN y = 0 .. last
    BY <1>1
  <2>3. \A k \in 0 .. last : In(x)[k] = In(y)[k]
    BY <2>1
  <2>4. \A k \in 0 .. last : k # c => <<x[k].i1, x[k].i2>> = <<y[k].i1, y[k].i2>>
    BY <2>2, <2>3
  <2>5. <<On(Bits(e) \ U, x[c].i1), On(Bits(e) \ U, x[c].i2)>>
          = <<On(Bits(e) \ U, y[c].i1), On(Bits(e) \ U, y[c].i2)>>
    BY <2>2, <2>3
  <2>6. QED
    BY <2>1, <2>4, <2>5
<1>4. x[c].i1 = y[c].i1 /\ x[c].i2 = y[c].i2
  <2>1. On(U, x[c].i1) = On(U, y[c].i1) /\ On(U, x[c].i2) = On(U, y[c].i2)
    BY <1>1 DEF Known
  <2>2. QED
    BY <1>2, <1>3, <2>1, InputFromParts
<1>5. \A k \in 0 .. last : x[k].i1 = y[k].i1 /\ x[k].i2 = y[k].i2
  BY <1>3, <1>4
<1>6. \A k \in 0 .. last : x[k].s1 = y[k].s1 /\ x[k].s2 = y[k].s2
  <2> DEFINE T == {k \in 0 .. last : ~(x[k].s1 = y[k].s1 /\ x[k].s2 = y[k].s2)}
  <2>1. SUFFICES ASSUME T # {} PROVE FALSE
    OBVIOUS
  <2>2. PICK m \in T : \A n \in T : m <= n
    <3>1. T \in SUBSET Nat
      OBVIOUS
    <3> HIDE DEF T
    <3>2. QED
      BY <2>1, <3>1, Least
  <2>3. m # 0 /\ m \in 0 .. last
    BY <1>3
  <2>4. m - 1 \in 0 .. last - 1 /\ m - 1 \notin T /\ (m - 1) + 1 = m
    BY <2>2, <2>3
  <2>5. Linked(e, x[m - 1], x[m]) /\ Linked(e, y[m - 1], y[m])
    BY <1>1, <2>4
  <2>6. x[m - 1].s1 = y[m - 1].s1 /\ x[m - 1].s2 = y[m - 1].s2
        /\ x[m - 1].i1 = y[m - 1].i1 /\ x[m - 1].i2 = y[m - 1].i2
    BY <1>5, <2>4
  <2>7. x[m].s1 = y[m].s1 /\ x[m].s2 = y[m].s2
    BY <2>5, <2>6 DEF Linked
  <2>8. QED
    BY <2>7
<1>7. \A k \in 0 .. last : x[k] = y[k]
  <2>1. SUFFICES ASSUME NEW k \in 0 .. last PROVE x[k] = y[k]
    OBVIOUS
  <2>2. /\ x[k] \in [s1 : e.states, i1 : e.inputs, s2 : e.states, i2 : e.inputs]
        /\ y[k] \in [s1 : e.states, i1 : e.inputs, s2 : e.states, i2 : e.inputs]
    BY <1>1 DEF Frames
  <2>3. QED
    BY <1>5, <1>6, <2>2
<1>8. QED
  BY <1>1, <1>7

\* In every context of the query Q there is an interpolant.
Solvable(Q) == \A z \in Q : z.must \subseteq z.may

(***************************************************************************)
(* Of the unrollings of one context, no f both is a target and is not.     *)
(***************************************************************************)
LEMMA ContextsSolvable ==
  ASSUME NEW e, InputsAreBits(e), NEW U \in SUBSET Bits(e),
         NEW last \in Nat, NEW c \in 0 .. last, NEW X \in SUBSET Runs(e, U, c, last)
  PROVE  Solvable(Contexts(e, U, c, Runs(e, U, c, last), X))
<1> DEFINE runs == Runs(e, U, c, last)
           At(z) == [must |-> {f \in Values(e, U) : <<z, f>> \in Cut(e, U, c, X)},
                     may |-> {f \in Values(e, U) : <<z, f>> \notin Cut(e, U, c, runs \ X)}]
<1>1. Contexts(e, U, c, runs, X) = {At(z) : z \in {Context(e, U, c, x) : x \in X}}
  BY DEF Contexts
<1>2. ASSUME NEW z, NEW f \in At(z).must, f \notin At(z).may PROVE FALSE
  <2>1. <<z, f>> \in Cut(e, U, c, X) /\ <<z, f>> \in Cut(e, U, c, runs \ X)
    BY <1>2
  <2>2. PICK x \in X : z = Context(e, U, c, x) /\ f = Known(U, c, x)
    BY <2>1 DEF Cut
  <2>3. PICK y \in runs \ X : z = Context(e, U, c, y) /\ f = Known(U, c, y)
    BY <2>1 DEF Cut
  <2>4. x \in runs /\ y \in runs
    OBVIOUS
  <2>5. x = y
    BY <2>2, <2>3, <2>4, ContextFixesRun
  <2>6. QED
    BY <2>5
<1> HIDE DEF runs, At
<1>3. \A z : At(z).must \subseteq At(z).may
  BY <1>2
<1>4. QED
  BY <1>1, <1>3 DEF Solvable, runs

(***************************************************************************)
(* What construct_varlst2assumption takes into the context is enough: for  *)
(* every encoder, split of its bits and window, in each context of the two *)
(* queries no f has to be in the interpolant and out of it.                *)
(***************************************************************************)
THEOREM QueriesSolvable ==
  ASSUME NEW e, InputsAreBits(e), NEW U \in SUBSET Bits(e),
         NEW p \in Nat, NEW l \in Nat, NEW r \in Nat
  PROVE  Solvable(NonloopQuery(e, U, p, l, r)) /\ Solvable(LoopQuery(e, U, p, l, r))
<1>1. p + l + r \in Nat /\ p + l \in 0 .. p + l + r
  OBVIOUS
<1>2. QED
  BY <1>1, ContextsSolvable DEF NonloopQuery, LoopQuery
=============================================================================
