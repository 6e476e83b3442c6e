---------------------------- MODULE EncoderFrames ----------------------------
(***************************************************************************)
(* The answers of Encoder's queries, computed frame by frame instead of    *)
(* window by window, which is what makes windows of a dozen frames         *)
(* feasible for TLC.  MCWindow checks that the two agree.                  *)
(***************************************************************************)
EXTENDS Encoder, TLC

PairOf(f) == <<f.s1, f.s2>>

Succ(e, f) == <<e.nxt[<<f.s1, f.i1>>], e.nxt[<<f.s2, f.i2>>]>>

Pairs(e) == e.states \X e.states

\* The frames listed one by one, where TLC would hold a rule.
AllFrames(e) == {f : f \in Frames(e)}

EqualFrames(e) == {f \in AllFrames(e) : SameOutput(e, f)}

Advance(e, F, A) == {Succ(e, f) : f \in {g \in F : PairOf(g) \in A}}

FramesAt(e, first, k) == IF k >= first THEN EqualFrames(e) ELSE AllFrames(e)

\* f itself, which TLC then holds as a table and not as a rule.
Table(f) == f @@ f

\* The pairs of states that frame c may be in.
RECURSIVE PairsAt(_, _, _)
PairsAt(e, c, first) ==
  IF c = 0 THEN Pairs(e)
  ELSE Advance(e, FramesAt(e, first, c - 1), PairsAt(e, c - 1, first))

\* The pairs of states of frame c+1 from which the unrolling can be completed.
RECURSIVE PairsAfter(_, _, _, _)
PairsAfter(e, c, first, last) ==
  IF c = last THEN Pairs(e)
  ELSE LET later == PairsAfter(e, c + 1, first, last)
       IN {PairOf(f) : f \in {g \in FramesAt(e, first, c + 1) : Succ(e, g) \in later}}

AmbiguityByFrame(e, c, first, last) ==
  LET before == PairsAt(e, c, first)
      after  == PairsAfter(e, c, first, last)
  IN {<<f.i1, f.i2>> : f \in {g \in FramesAt(e, first, c) :
                                 PairOf(g) \in before /\ Succ(e, g) \in after}}

NonloopByFrame(e, p, l, r) == AmbiguityByFrame(e, p + l, p, p + l + r)

(***************************************************************************)
(* A loop is found by guessing: at some frame remember its key, at a later *)
(* one meet the key again.  A mark is <<phase, remembered keys>>, phase 0  *)
(* before the guess, 1 while a key is remembered, 2 once it was met.       *)
(***************************************************************************)
KeyOf(q) == <<BaseBits(q[1]), BaseBits(q[2])>>

NoMark == <<0, {}>>
Met    == <<2, {}>>

Marks(q, m) ==
  {m} \cup (IF m[1] = 0 THEN {<<1, {KeyOf(q)}>>} ELSE {})
      \cup (IF m[1] = 1 /\ KeyOf(q) \in m[2] THEN {Met} ELSE {})

MarkAll(M) == UNION {{<<t[1], m>> : m \in Marks(t[1], t[2])} : t \in M}

\* The successors of each pair of states over the frames F.
Succs(e, F) == Table([q \in Pairs(e) |-> {Succ(e, f) : f \in {g \in F : PairOf(g) = q}}])

\* The marked pairs at the end of n frames from the pairs A.
RECURSIVE MarkedAt(_, _, _)
MarkedAt(succs, A, n) ==
  IF n = 0 THEN MarkAll({<<q, NoMark>> : q \in A})
  ELSE MarkAll(UNION {{<<q, t[2]>> : q \in succs[t[1]]} : t \in MarkedAt(succs, A, n - 1)})

\* The pairs at the end of n frames of F from A, a loop among the n+1 states.
PairsAfterLoop(e, F, A, n) ==
  LET succs == Succs(e, F)
      end   == MarkedAt(succs, A, n)
  IN {q \in Pairs(e) : <<q, Met>> \in end}

\* The marked pairs from which n frames follow that meet what is remembered.
RECURSIVE MarkedBefore(_, _, _)
MarkedBefore(succs, marks, n) ==
  IF n = 0 THEN {<<q, Met>> : q \in DOMAIN succs}
  ELSE LET good == MarkedBefore(succs, marks, n - 1)
       IN {t \in (DOMAIN succs) \X marks :
             \E m \in Marks(t[1], t[2]) : \E q \in succs[t[1]] : <<q, m>> \in good}

\* The pairs from which r frames with equal outputs follow, a loop among them.
PairsBeforeLoop(e, r) ==
  LET marks == {NoMark, Met} \cup {<<1, {KeyOf(q)}>> : q \in Pairs(e)}
      succs == Succs(e, EqualFrames(e))
      start == MarkedBefore(succs, marks, r)
  IN {q \in Pairs(e) : <<q, NoMark>> \in start}

LoopByFrame(e, p, l, r) ==
  LET atP    == PairsAfterLoop(e, AllFrames(e), Pairs(e), p)
      before == PairsAfterLoop(e, EqualFrames(e), atP, l)
      after  == PairsBeforeLoop(e, r)
  IN {<<f.i1, f.i2>> : f \in {g \in EqualFrames(e) :
                                 PairOf(g) \in before /\ Succ(e, g) \in after}}

\* No run of the frames k..last starts from the pairs of states A.
RECURSIVE NoRun(_, _, _, _, _)
NoRun(e, frames, k, last, A) ==
  IF k > last THEN A = {}
  ELSE \A B \in {Advance(e, frames[k], A)} : NoRun(e, frames, k + 1, last, B)

(***************************************************************************)
(* In no run whose current inputs are admitted do the bits of U agree and  *)
(* d not.  A singleton makes TLC evaluate what is used often only once.    *)
(***************************************************************************)
Told(e, admitted, p, r, U, posU, d, posDiff) ==
  \A all \in {AllFrames(e)} :
    LET Admits(f, k) == /\ k = p => <<f.i1, f.i2>> \in admitted
                        /\ k = posU => \A u \in U : Agrees(e, f, u)
                        /\ k = posDiff => ~Agrees(e, f, d)
    IN  \A frames \in {Table([k \in 0 .. p + r |->
                         IF k \in {p, posU, posDiff} THEN {f \in all : Admits(f, k)} ELSE all])} :
          NoRun(e, frames, 0, p + r, Pairs(e))

DecidedByFrame(e, valid, p, r, U, posU, d, posDiff) ==
  Told(e, (valid \X e.inputs) \cup (e.inputs \X valid), p, r, U, posU, d, posDiff)

DeterminedByFrame(e, valid, p, r, U, posU, d, posDiff) ==
  Told(e, valid \X valid, p, r, U, posU, d, posDiff)
=============================================================================
