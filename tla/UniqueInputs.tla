---------------------------- MODULE UniqueInputs ----------------------------
(***************************************************************************)
(* procDetermineUniqueInputs of vp/compsyn_pred/elabmod.ml: sort the bits  *)
(* of the encoder's input into those a decoder can recover from a bounded  *)
(* stretch of output and those it never can.                               *)
(*                                                                         *)
(* For bound 3, 4, ... it loads two formulas into one incremental solver   *)
(* and asks about each undecided bit: no window of this size confuses the  *)
(* bit (it is recovered, RES_UNIQ), or some window with loops does (it     *)
(* never is, RES_NONU).  A model the solver returns for one bit decides    *)
(* every other undecided bit on which its two copies differ.               *)
(***************************************************************************)
EXTENDS Integers

CONSTANTS
  NumBits,             \* length of bv_instrlist, the input bits to be sorted
  Encoder,             \* the encoders a behaviour may be about
  NonloopInputs(_, _), \* the current inputs of an encoder's windows at a bound
  LoopInputs(_, _),    \* the same of its windows with loops
  MaxBnd               \* cap on the bound, for model checking only

\* An index of arrlist2, and what the array holds for it.
Bit == 1 .. NumBits
Result == {"UNK", "UNIQ", "NONU"}

\* The first bound tried is this plus one.
Bnd0 == 2

(***************************************************************************)
(* What the search relies on.  Encoder_proofs proves the second assumption *)
(* of the unrollings of every encoder.                                     *)
(***************************************************************************)
ASSUME SizeAssumption == NumBits \in Nat /\ MaxBnd \in Nat

ASSUME UnrollingAssumption ==
  \A e \in Encoder : \A b \in Bnd0 + 1 .. MaxBnd :
    /\ LoopInputs(e, b) \subseteq NonloopInputs(e, b)
    /\ b < MaxBnd => NonloopInputs(e, b + 1) \subseteq NonloopInputs(e, b)
    /\ \A m \in NonloopInputs(e, b) :
         /\ <<m[2], m[1]>> \in NonloopInputs(e, b)
         /\ \A k \in Bit : m[1][k] \in BOOLEAN /\ m[2][k] \in BOOLEAN

VARIABLES
  enc,     \* the encoder the program was given
  res,     \* arrlist2: the result of each bit
  win,     \* arrlist2: the bound p = l = r found for each bit
  bnd,     \* bndd
  idx,     \* the index Array.iteri has reached
  models,  \* what the clauses in the solver allow the current inputs to be
  pc       \* where in the loop

vars == <<enc, res, win, bnd, idx, models, pc>>

TypeOK ==
  /\ enc \in Encoder
  /\ res \in [Bit -> Result]
  /\ win \in [Bit -> Nat]
  /\ bnd \in Nat
  /\ idx \in 1 .. NumBits + 1
  /\ models \subseteq IF bnd = Bnd0 THEN {} ELSE NonloopInputs(enc, bnd)
  /\ pc \in {"while", "nonloop", "loop", "done", "assert"}

Unknown == {b \in Bit : res[b] = "UNK"}

\* Mutant: both literals are about the first copy.
ConfusingOneCopy(b) == {m \in models : ~m[1][b] /\ m[1][b]}

\* satAssumption [-o0;ob]: the models with the bit 0 in copy 1 and 1 in copy 2.
Confusing(b) == {m \in models : ~m[1][b] /\ m[2][b]}

Differing(m) == {b \in Bit : m[1][b] # m[2][b]}

Init ==
  /\ enc \in Encoder
  /\ res = [b \in Bit |-> "UNK"]
  /\ win = [b \in Bit |-> 0]
  /\ bnd = Bnd0
  /\ idx = 1
  /\ models = {}
  /\ pc = "while"

-----------------------------------------------------------------------------
\* Mutant: every second bound is tried.
NextBoundBy2 ==
  /\ pc = "while"
  /\ Unknown # {}
  /\ bnd + 1 < MaxBnd
  /\ bnd' = bnd + 2
  /\ models' = NonloopInputs(enc, bnd')
  /\ idx' = 1
  /\ pc' = "nonloop"
  /\ UNCHANGED <<enc, res, win>>

\* while some bit is RES_UNK: next bound, procClauseandAdd nonloop_clslst.
NextBound ==
  /\ pc = "while"
  /\ Unknown # {}
  /\ bnd < MaxBnd
  /\ bnd' = bnd + 1
  /\ models' = NonloopInputs(enc, bnd')
  /\ idx' = 1
  /\ pc' = "nonloop"
  /\ UNCHANGED <<enc, res, win>>

\* Mutant: the index moves on twice after a bit that no model confuses.
ProcBitNonloopSkip ==
  /\ pc = "nonloop"
  /\ idx \in Bit
  /\ IF res[idx] = "UNK" /\ Confusing(idx) = {}
     THEN /\ res' = [res EXCEPT ![idx] = "UNIQ"]
          /\ win' = [win EXCEPT ![idx] = bnd]
     ELSE UNCHANGED <<res, win>>
  /\ idx' = IF Confusing(idx) = {} THEN idx + 2 ELSE idx + 1
  /\ UNCHANGED <<enc, bnd, models, pc>>

\* procBitnonloop on the bit at idx.
ProcBitNonloop ==
  /\ pc = "nonloop"
  /\ idx \in Bit
  /\ IF res[idx] = "UNK" /\ Confusing(idx) = {}
     THEN /\ res' = [res EXCEPT ![idx] = "UNIQ"]
          /\ win' = [win EXCEPT ![idx] = bnd]
     ELSE UNCHANGED <<res, win>>
  /\ idx' = idx + 1
  /\ UNCHANGED <<enc, bnd, models, pc>>

\* Mutant: the solver keeps the nonloop formula for the loop pass.
LoadLoopStale ==
  /\ pc = "nonloop"
  /\ idx \notin Bit
  /\ pc' = IF Unknown # {} THEN "loop" ELSE "while"
  /\ idx' = 1
  /\ UNCHANGED <<enc, res, win, bnd, models>>

\* Bits are left after the nonloop pass: procClauseandAdd loop_clslst.
LoadLoop ==
  /\ pc = "nonloop"
  /\ idx \notin Bit
  /\ IF Unknown # {} THEN models' = LoopInputs(enc, bnd) /\ pc' = "loop"
                     ELSE pc' = "while" /\ UNCHANGED models
  /\ idx' = 1
  /\ UNCHANGED <<enc, res, win, bnd>>

\* procBitloop finds no loop window that confuses the bit, or skips the bit.
ProcBitLoopUnsat ==
  /\ pc = "loop"
  /\ idx \in Bit
  /\ res[idx] # "UNK" \/ Confusing(idx) = {}
  /\ idx' = idx + 1
  /\ UNCHANGED <<enc, res, win, bnd, models, pc>>

\* Mutant: procdiffv asserts of every decided bit that it does not differ.
ProcBitLoopSatAssertAll ==
  /\ pc = "loop"
  /\ idx \in Bit
  /\ res[idx] = "UNK"
  /\ \E m \in Confusing(idx) :
       LET nonu == Unknown \cap Differing(m)
       IN /\ res' = [b \in Bit |-> IF b \in nonu THEN "NONU" ELSE res[b]]
          /\ IF Differing(m) \subseteq Unknown THEN idx' = idx + 1 /\ pc' = pc
                                             ELSE idx' = idx /\ pc' = "assert"
  /\ UNCHANGED <<enc, win, bnd, models>>

(***************************************************************************)
(* procBitloop gets a model: procdiffv runs over the array from the first  *)
(* bit and stops at its assert if a bit found unique differs in the model. *)
(***************************************************************************)
ProcBitLoopSat ==
  /\ pc = "loop"
  /\ idx \in Bit
  /\ res[idx] = "UNK"
  /\ \E m \in Confusing(idx) :
       LET refuted == {b \in Differing(m) : res[b] = "UNIQ"}
           visited == {b \in Bit : \A c \in refuted : b < c}
           nonu    == {b \in Unknown \cap Differing(m) : b \in visited}
       IN /\ res' = [b \in Bit |-> IF b \in nonu THEN "NONU" ELSE res[b]]
          /\ win' = [b \in Bit |-> IF b \in nonu THEN 0 ELSE win[b]]
          /\ IF refuted = {} THEN idx' = idx + 1 /\ pc' = pc
                             ELSE idx' = idx /\ pc' = "assert"
  /\ UNCHANGED <<enc, bnd, models>>

EndLoop ==
  /\ pc = "loop"
  /\ idx \notin Bit
  /\ idx' = 1
  /\ pc' = "while"
  /\ UNCHANGED <<enc, res, win, bnd, models>>

\* No bit is RES_UNK: the array becomes the result list.
Finish ==
  /\ pc = "while"
  /\ Unknown = {}
  /\ pc' = "done"
  /\ UNCHANGED <<enc, res, win, bnd, idx, models>>

Next ==
  \/ NextBound
  \/ ProcBitNonloop
  \/ LoadLoop
  \/ ProcBitLoopUnsat
  \/ ProcBitLoopSat
  \/ EndLoop
  \/ Finish

Spec == Init /\ [][Next]_vars

\* The program is sequential: it keeps running while it can.
FairSpec == Spec /\ WF_vars(Next)

-----------------------------------------------------------------------------
(***************************************************************************)
(* What an answer of the formulas means for a bit.                         *)
(***************************************************************************)
Confuses(M, b) == \E m \in M : m[1][b] # m[2][b]

(***************************************************************************)
(* The assert of procdiffv: no window with loops confuses a bit that an    *)
(* earlier, smaller window proved unique.  The array entry and the solver  *)
(* contents it is compared with come from different bounds.                *)
(***************************************************************************)
NoAssertFailure == pc # "assert"

(***************************************************************************)
(* The final assert of the method: a finished array has no unknown bit,    *)
(* and a bit has a non-zero window exactly if it is unique.                *)
(***************************************************************************)
FinalAssert ==
  pc = "done" => /\ Unknown = {}
                 /\ \A b \in Bit : (win[b] > Bnd0) <=> (res[b] = "UNIQ")

(***************************************************************************)
(* A bit recorded as unique at a bound is confused by no window of that    *)
(* bound, in either polarity, though only one polarity was asked.          *)
(***************************************************************************)
UniqSound ==
  \A b \in Bit : res[b] = "UNIQ" => ~Confuses(NonloopInputs(enc, win[b]), b)

(***************************************************************************)
(* The bound recorded is the least one tried that decides the bit.         *)
(***************************************************************************)
UniqLeast ==
  \A b \in Bit : res[b] = "UNIQ" =>
    \A c \in (Bnd0 + 1) .. (win[b] - 1) : Confuses(NonloopInputs(enc, c), b)

-----------------------------------------------------------------------------
\* A bit is recoverable if some bound up to the cap rules confusion out.
Truth(e, b) ==
  IF \E c \in Bnd0 + 1 .. MaxBnd : ~Confuses(NonloopInputs(e, c), b) THEN "UNIQ" ELSE "NONU"

Classes == INSTANCE InputClasses

(***************************************************************************)
(* A bit given up after a window with loops is confused at every bound, so *)
(* no decoder with more context could have recovered it.                   *)
(***************************************************************************)
NonuSound ==
  \A b \in Bit : res[b] = "NONU" =>
    \A c \in Bnd0 + 1 .. MaxBnd : Confuses(NonloopInputs(enc, c), b)

(***************************************************************************)
(* The search implements the classification: whatever model the solver     *)
(* returns, every bit is decided once and rightly, and every bit is.       *)
(***************************************************************************)
Classifies == Classes!Spec
=============================================================================
