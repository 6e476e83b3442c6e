--------------------------- MODULE MinimizeWindow ---------------------------
(***************************************************************************)
(* minimizeLR and minimizeL2Right of vp/compsyn_pred/elabmod.ml, as        *)
(* relational_code runs them once the predicate valid(f) is known: shrink  *)
(* the window of outputs the decoder will look at, one solver call at a    *)
(* time, as long as it still determines the valid inputs.                  *)
(*                                                                         *)
(* A window has p frames of free output, l frames of output before the     *)
(* current frame, and r after it.  First r is reduced, then frames are     *)
(* moved from l to p, then the outputs up to p+l2right-1 are dropped from  *)
(* a window with l = 0.                                                    *)
(***************************************************************************)
EXTENDS Integers

CONSTANTS
  Encoder,            \* the encoders, each with its predicate valid(f)
  Start(_),           \* the bounds inferPredicateUniq may end with
  Lost(_, _, _, _),   \* tryPCSAT p l r of an encoder is satisfiable
  LostLate(_, _, _, _) \* trySATPC_l2right p l2right r of it is satisfiable

(***************************************************************************)
(* What the two queries have to do with each other.  The windows start     *)
(* from one that determines the inputs; fewer compared outputs never       *)
(* determine more; and with l = l2right = 0 both ask the same question.    *)
(***************************************************************************)
ASSUME StartAssumption ==
  \A e \in Encoder : Start(e) \subseteq Nat /\ \A b \in Start(e) : ~Lost(e, b, b, b)

ASSUME QueryAssumption ==
  \A e \in Encoder : \A b \in Start(e) :
    /\ \A i, k, j \in 0 .. b :
         k > 0 /\ i + k = b /\ Lost(e, b + i, k, j) => Lost(e, b + i + 1, k - 1, j)
    /\ \A j \in 0 .. b : LostLate(e, b + b, 0, j) <=> Lost(e, b + b, 0, j)

VARIABLES
  enc,      \* the encoder the program was given
  bound,    \* p_pre = l1_1 = r1_1, the window the inference ended with
  p, l, r,  \* the window in hand
  l2right,  \* how many frames of output after the current one are dropped
  pc        \* where in relational_code, or the assert it stopped at

vars == <<enc, bound, p, l, r, l2right, pc>>

Running == {"minimizeR", "minimizeL", "assert_l", "minimizeL2Right", "assert_l2right"}
Failed == {"l_not_0", "l2right_negative", "l2right_not_r"}

TypeOK ==
  /\ enc \in Encoder
  /\ bound \in Start(enc)
  /\ p \in Nat /\ l \in Nat /\ r \in Nat
  /\ p + l = bound + bound
  /\ l <= bound /\ r <= bound
  /\ l2right \in 0 .. r + 1
  /\ pc \in Running \cup Failed \cup {"done"}

Init ==
  /\ enc \in Encoder
  /\ bound \in Start(enc)
  /\ p = bound /\ l = bound /\ r = bound
  /\ l2right = 0
  /\ pc = "minimizeR"

-----------------------------------------------------------------------------
\* Mutant: the r that was tried is returned, not the one before.
MinimizeROver ==
  /\ pc = "minimizeR"
  /\ IF r >= 1 THEN r' = r - 1 /\ pc' = IF Lost(enc, p, l, r - 1) THEN "minimizeL" ELSE pc
               ELSE pc' = "minimizeL" /\ UNCHANGED r
  /\ UNCHANGED <<enc, bound, p, l, l2right>>

\* minimizeR: one frame less after the current one, unless that loses an input.
MinimizeR ==
  /\ pc = "minimizeR"
  /\ IF r >= 1 /\ ~Lost(enc, p, l, r - 1)
     THEN r' = r - 1 /\ pc' = pc
     ELSE pc' = "minimizeL" /\ UNCHANGED r
  /\ UNCHANGED <<enc, bound, p, l, l2right>>

\* Mutant: a frame is taken from the left and not added to the prefix.
MinimizeLLeak ==
  /\ pc = "minimizeL"
  /\ IF l >= 1 /\ ~Lost(enc, p + 1, l - 1, r)
     THEN l' = l - 1 /\ pc' = pc
     ELSE pc' = "assert_l" /\ UNCHANGED l
  /\ UNCHANGED <<enc, bound, p, r, l2right>>

\* Mutant: the last frame on the left is never tried.
MinimizeLShort ==
  /\ pc = "minimizeL"
  /\ IF l > 1 /\ ~Lost(enc, p + 1, l - 1, r)
     THEN p' = p + 1 /\ l' = l - 1 /\ pc' = pc
     ELSE pc' = "assert_l" /\ UNCHANGED <<p, l>>
  /\ UNCHANGED <<enc, bound, r, l2right>>

\* minimizeL: the first frame of compared output becomes one of free output.
MinimizeL ==
  /\ pc = "minimizeL"
  /\ IF l >= 1 /\ ~Lost(enc, p + 1, l - 1, r)
     THEN p' = p + 1 /\ l' = l - 1 /\ pc' = pc
     ELSE pc' = "assert_l" /\ UNCHANGED <<p, l>>
  /\ UNCHANGED <<enc, bound, r, l2right>>

\* assert (l=0), then minimizeL2Right p 0 r.
AssertL ==
  /\ pc = "assert_l"
  /\ pc' = IF l = 0 THEN "minimizeL2Right" ELSE "l_not_0"
  /\ UNCHANGED <<enc, bound, p, l, r, l2right>>

\* Mutant: the recursive call passes l2right as it is.
DropOutputAgain ==
  /\ pc = "minimizeL2Right"
  /\ l2right <= r
  /\ ~LostLate(enc, p, l2right, r)
  /\ UNCHANGED vars

\* minimizeL2Right: drop one more frame of output.
DropOutput ==
  /\ pc = "minimizeL2Right"
  /\ l2right <= r
  /\ ~LostLate(enc, p, l2right, r)
  /\ l2right' = l2right + 1
  /\ UNCHANGED <<enc, bound, p, l, r, pc>>

\* The last one dropped was one too many, or there is none left to drop.
KeepOutput ==
  /\ pc = "minimizeL2Right"
  /\ l2right > r \/ LostLate(enc, p, l2right, r)
  /\ IF l2right - 1 >= 0
     THEN l2right' = l2right - 1 /\ pc' = "assert_l2right"
     ELSE pc' = "l2right_negative" /\ UNCHANGED l2right
  /\ UNCHANGED <<enc, bound, p, l, r>>

\* assert (l2right=r)
AssertL2Right ==
  /\ pc = "assert_l2right"
  /\ pc' = IF l2right = r THEN "done" ELSE "l2right_not_r"
  /\ UNCHANGED <<enc, bound, p, l, r, l2right>>

Next ==
  \/ MinimizeR
  \/ MinimizeL
  \/ AssertL
  \/ DropOutput
  \/ KeepOutput
  \/ AssertL2Right

Spec == Init /\ [][Next]_vars

-----------------------------------------------------------------------------
(***************************************************************************)
(* The window in hand determines the valid inputs at every moment, and so  *)
(* does what is left of its outputs when minimizeL2Right returns.          *)
(***************************************************************************)
StillDetermined ==
  /\ ~Lost(enc, p, l, r)
  /\ pc \in {"assert_l2right", "l2right_not_r", "done"} => ~LostLate(enc, p, l2right, r)

(***************************************************************************)
(* The window is minimal: minimizeL and minimizeL2Right change the window  *)
(* after minimizeR returned, and yet no frame can be spared in the end.    *)
(***************************************************************************)
LocallyMinimal ==
  /\ pc \notin {"minimizeR"} => r = 0 \/ Lost(enc, p, l, r - 1)
  /\ pc \in {"assert_l", "l_not_0"} => l = 0 \/ Lost(enc, p + 1, l - 1, r)
  /\ pc \in {"assert_l2right", "l2right_not_r", "done"} =>
       l2right = r \/ LostLate(enc, p, l2right + 1, r)

(***************************************************************************)
(* minimizeL2Right never returns -1: its first query, whose unrolling is   *)
(* built by other code, agrees with the last answer of minimizeLR.         *)
(***************************************************************************)
NeverNegative == pc # "l2right_negative"

(***************************************************************************)
(* assert (l=0) of relational_code: a decoder needs no output from before  *)
(* the input it recovers.                                                  *)
(***************************************************************************)
LIsZero == pc # "l_not_0"

(***************************************************************************)
(* assert (l2right=r): a decoder needs the outputs of one frame only.      *)
(***************************************************************************)
L2RightIsR == pc # "l2right_not_r"
=============================================================================
