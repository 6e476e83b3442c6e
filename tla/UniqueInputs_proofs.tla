------------------------ MODULE UniqueInputs_proofs ------------------------
(***************************************************************************)
(* The safety of procDetermineUniqueInputs for any encoders, any number of *)
(* bits and any cap on the bound.                                          *)
(***************************************************************************)
EXTENDS UniqueInputs, TLAPS

\* What the solver holds is what the program counter says.
Loaded ==
  /\ pc = "nonloop" => models = NonloopInputs(enc, bnd)
  /\ pc = "loop" => models \subseteq NonloopInputs(enc, bnd)
  /\ pc \in {"nonloop", "loop"} => bnd > Bnd0
  /\ models \subseteq IF bnd = Bnd0 THEN {} ELSE NonloopInputs(enc, bnd)

\* A bit found unique stays unconfused at the bound the search has reached.
UniqKept ==
  \A b \in Bit : res[b] = "UNIQ" => /\ win[b] \in Bnd0 + 1 .. bnd
                                    /\ ~Confuses(NonloopInputs(enc, bnd), b)
                                    /\ ~Confuses(NonloopInputs(enc, win[b]), b)

\* Only unique bits have a window.
OtherwiseZero == \A b \in Bit : res[b] # "UNIQ" => win[b] = 0

\* A bit still unknown was confused at every bound it was tested at.
UnknownConfused ==
  \A b \in Bit : res[b] = "UNK" =>
    \A c \in Bnd0 + 1 .. bnd :
      c < bnd \/ pc # "nonloop" \/ b < idx => Confuses(NonloopInputs(enc, c), b)

Types ==
  /\ enc \in Encoder
  /\ res \in [Bit -> Result]
  /\ win \in [Bit -> Nat]
  /\ bnd \in Nat /\ Bnd0 <= bnd /\ (bnd <= MaxBnd \/ bnd = Bnd0)
  /\ idx \in 1 .. NumBits + 1
  /\ pc \in {"while", "nonloop", "loop", "done"}

Final == pc = "done" => Unknown = {}

IInv == Types /\ Loaded /\ UniqKept /\ OtherwiseZero /\ UnknownConfused /\ UniqLeast /\ Final

USE DEF Bit, Result, Bnd0

\* Asking about one polarity is enough: the two copies may be exchanged.
LEMMA OnePolarity ==
  ASSUME NEW e \in Encoder, NEW n \in Bnd0 + 1 .. MaxBnd, NEW b \in Bit,
         \A m \in NonloopInputs(e, n) : ~(~m[1][b] /\ m[2][b])
  PROVE  ~Confuses(NonloopInputs(e, n), b)
<1> SUFFICES ASSUME NEW m \in NonloopInputs(e, n), m[1][b] # m[2][b]
             PROVE  FALSE
  BY DEF Confuses
<1>1. m[1][b] \in BOOLEAN /\ m[2][b] \in BOOLEAN /\ <<m[2], m[1]>> \in NonloopInputs(e, n)
  BY UnrollingAssumption
<1>2. ~(~m[2][b] /\ m[1][b])
  <2> DEFINE w == <<m[2], m[1]>>
  <2>1. ~(~w[1][b] /\ w[2][b])
    BY <1>1
  <2>2. QED
    BY <2>1
<1>3. QED
  BY <1>1, <1>2

\* A set of fewer models confuses no more bits.
LEMMA FewerModels ==
  ASSUME NEW M, NEW N, M \subseteq N, NEW b, ~Confuses(N, b)
  PROVE  ~Confuses(M, b)
  BY DEF Confuses

LEMMA InitIInv == Init => IInv
  BY SizeAssumption
     DEF Init, IInv, Types, Loaded, UniqKept, OtherwiseZero, UnknownConfused, UniqLeast, Final

LEMMA NextBoundIInv == IInv /\ NextBound => IInv'
<1> SUFFICES ASSUME IInv, NextBound
             PROVE  IInv'
  OBVIOUS
<1> USE DEF IInv, NextBound
<1>1. Types'
  BY SizeAssumption DEF Types
<1>2. Loaded'
  BY DEF Types, Loaded
<1>3. UniqKept'
  <2> SUFFICES ASSUME NEW b \in Bit, res[b] = "UNIQ"
               PROVE  /\ win[b] \in Bnd0 + 1 .. bnd + 1
                      /\ ~Confuses(NonloopInputs(enc, bnd + 1), b)
                      /\ ~Confuses(NonloopInputs(enc, win[b]), b)
    BY DEF UniqKept
  <2>1. /\ win[b] \in Bnd0 + 1 .. bnd
        /\ ~Confuses(NonloopInputs(enc, bnd), b)
        /\ ~Confuses(NonloopInputs(enc, win[b]), b)
    BY DEF UniqKept
  <2>2. bnd \in Bnd0 + 1 .. MaxBnd /\ bnd < MaxBnd /\ enc \in Encoder
    BY <2>1, SizeAssumption DEF Types
  <2>3. NonloopInputs(enc, bnd + 1) \subseteq NonloopInputs(enc, bnd)
    BY <2>2, UnrollingAssumption
  <2>4. ~Confuses(NonloopInputs(enc, bnd + 1), b)
    BY <2>1, <2>3, FewerModels
  <2>5. QED
    BY <2>1, <2>4 DEF Types
<1>4. OtherwiseZero'
  BY DEF OtherwiseZero
<1>5. UnknownConfused'
  BY DEF UnknownConfused, Types
<1>6. UniqLeast'
  BY DEF UniqLeast
<1>7. Final'
  BY DEF Final
<1>8. QED
  BY <1>1, <1>2, <1>3, <1>4, <1>5, <1>6, <1>7

LEMMA ProcBitNonloopIInv == IInv /\ ProcBitNonloop => IInv'
<1> SUFFICES ASSUME IInv, ProcBitNonloop
             PROVE  IInv'
  OBVIOUS
<1> USE DEF IInv, ProcBitNonloop
<1> DEFINE found == res[idx] = "UNK" /\ Confusing(idx) = {}
<1>1. /\ idx \in Bit /\ enc \in Encoder /\ bnd \in Nat /\ bnd > Bnd0
      /\ models = NonloopInputs(enc, bnd) /\ bnd \in Bnd0 + 1 .. MaxBnd
  BY SizeAssumption DEF Types, Loaded
<1>2. Types'
  BY <1>1, SizeAssumption DEF Types
<1>3. Loaded'
  BY DEF Loaded
<1>4. ASSUME found
      PROVE  ~Confuses(NonloopInputs(enc, bnd), idx)
  <2>1. \A m \in NonloopInputs(enc, bnd) : ~(~m[1][idx] /\ m[2][idx])
    BY <1>1, <1>4 DEF Confusing
  <2>2. QED
    BY <1>1, <2>1, OnePolarity
<1>5. ASSUME ~found, res[idx] = "UNK"
      PROVE  Confuses(NonloopInputs(enc, bnd), idx)
  <2>1. PICK m \in NonloopInputs(enc, bnd) : ~m[1][idx] /\ m[2][idx]
    BY <1>1, <1>5 DEF Confusing
  <2>2. QED
    BY <1>1, <2>1 DEF Confuses
<1>6. UniqKept'
  <2> SUFFICES ASSUME NEW b \in Bit, res'[b] = "UNIQ"
               PROVE  /\ win'[b] \in Bnd0 + 1 .. bnd
                      /\ ~Confuses(NonloopInputs(enc, bnd), b)
                      /\ ~Confuses(NonloopInputs(enc, win'[b]), b)
    BY DEF UniqKept
  <2>1. CASE found /\ b = idx
    <3>1. win'[b] = bnd
      BY <2>1, <1>1 DEF Types
    <3>2. ~Confuses(NonloopInputs(enc, bnd), b)
      BY <2>1, <1>4
    <3>3. QED
      BY <3>1, <3>2, <1>1
  <2>2. CASE ~(found /\ b = idx)
    <3>1. res'[b] = res[b] /\ win'[b] = win[b]
      BY <2>2, <1>1 DEF Types
    <3>2. QED
      BY <3>1 DEF UniqKept
  <2>3. QED
    BY <2>1, <2>2
<1>7. OtherwiseZero'
  BY <1>1 DEF OtherwiseZero, Types
<1>8. UnknownConfused'
  <2> SUFFICES ASSUME NEW b \in Bit, res'[b] = "UNK", NEW c \in Bnd0 + 1 .. bnd,
                      c < bnd \/ b < idx + 1
               PROVE  Confuses(NonloopInputs(enc, c), b)
    BY <1>1 DEF UnknownConfused
  <2>1. res[b] = "UNK"
    BY <1>1 DEF Types
  <2>2. CASE c < bnd \/ b < idx
    BY <2>1, <2>2 DEF UnknownConfused
  <2>3. CASE c = bnd /\ b = idx
    <3>1. ~found
      BY <2>3, <1>1 DEF Types
    <3>2. QED
      BY <3>1, <2>1, <2>3, <1>5
  <2>4. QED
    BY <2>2, <2>3, <1>1
<1>9. UniqLeast'
  <2> SUFFICES ASSUME NEW b \in Bit, res'[b] = "UNIQ", NEW c \in Bnd0 + 1 .. (win'[b] - 1)
               PROVE  Confuses(NonloopInputs(enc, c), b)
    BY <1>1 DEF UniqLeast
  <2>1. CASE found /\ b = idx
    <3>1. win'[b] = bnd /\ res[b] = "UNK"
      BY <2>1, <1>1 DEF Types
    <3>2. c < bnd /\ c \in Bnd0 + 1 .. bnd
      BY <3>1, <1>1
    <3>3. QED
      BY <3>1, <3>2 DEF UnknownConfused
  <2>2. CASE ~(found /\ b = idx)
    <3>1. res'[b] = res[b] /\ win'[b] = win[b]
      BY <2>2, <1>1 DEF Types
    <3>2. QED
      BY <3>1 DEF UniqLeast
  <2>3. QED
    BY <2>1, <2>2
<1>10. Final'
  BY DEF Final
<1>11. QED
  BY <1>2, <1>3, <1>6, <1>7, <1>8, <1>9, <1>10

LEMMA LoadLoopIInv == IInv /\ LoadLoop => IInv'
<1> SUFFICES ASSUME IInv, LoadLoop
             PROVE  IInv'
  OBVIOUS
<1> USE DEF IInv, LoadLoop
<1>1. bnd \in Bnd0 + 1 .. MaxBnd /\ enc \in Encoder /\ NumBits < idx
  BY SizeAssumption DEF Types, Loaded
<1>2. Types'
  BY SizeAssumption DEF Types
<1>3. Loaded'
  BY <1>1, UnrollingAssumption DEF Loaded, Types
<1>4. UniqKept' /\ OtherwiseZero' /\ UniqLeast'
  BY DEF UniqKept, OtherwiseZero, UniqLeast
<1>5. UnknownConfused'
  BY <1>1, SizeAssumption DEF UnknownConfused, Types
<1>6. Final'
  BY DEF Final
<1>7. QED
  BY <1>2, <1>3, <1>4, <1>5, <1>6

LEMMA ProcBitLoopUnsatIInv == IInv /\ ProcBitLoopUnsat => IInv'
<1> SUFFICES ASSUME IInv, ProcBitLoopUnsat
             PROVE  IInv'
  OBVIOUS
<1> USE DEF IInv, ProcBitLoopUnsat
<1>1. Types'
  BY SizeAssumption DEF Types
<1>2. Loaded' /\ Final'
  BY DEF Loaded, Final
<1>3. UniqKept' /\ OtherwiseZero' /\ UniqLeast'
  BY DEF UniqKept, OtherwiseZero, UniqLeast
<1>4. UnknownConfused'
  BY DEF UnknownConfused
<1>5. QED
  BY <1>1, <1>2, <1>3, <1>4

\* The heart of the matter: the assert of procdiffv cannot fail.
LEMMA ProcBitLoopSatIInv == IInv /\ ProcBitLoopSat => IInv'
<1> SUFFICES ASSUME IInv, ProcBitLoopSat
             PROVE  IInv'
  OBVIOUS
<1> USE DEF IInv, ProcBitLoopSat
<1>1. PICK m \in Confusing(idx) :
        LET refuted == {b \in Differing(m) : res[b] = "UNIQ"}
            visited == {b \in Bit : \A c \in refuted : b < c}
            nonu    == {b \in Unknown \cap Differing(m) : b \in visited}
        IN /\ res' = [b \in Bit |-> IF b \in nonu THEN "NONU" ELSE res[b]]
           /\ win' = [b \in Bit |-> IF b \in nonu THEN 0 ELSE win[b]]
           /\ IF refuted = {} THEN idx' = idx + 1 /\ pc' = pc
                              ELSE idx' = idx /\ pc' = "assert"
  OBVIOUS
<1> DEFINE refuted == {b \in Differing(m) : res[b] = "UNIQ"}
           nonu == {b \in Unknown \cap Differing(m) :
                      b \in {d \in Bit : \A c \in refuted : d < c}}
<1>2. m \in NonloopInputs(enc, bnd)
  BY DEF Confusing, Loaded
<1>3. refuted = {}
  BY <1>2 DEF Differing, UniqKept, Confuses
<1>4. idx' = idx + 1 /\ pc' = pc
  BY <1>1, <1>3
<1>5. /\ res' = [b \in Bit |-> IF b \in nonu THEN "NONU" ELSE res[b]]
      /\ win' = [b \in Bit |-> IF b \in nonu THEN 0 ELSE win[b]]
  BY <1>1
<1> HIDE DEF refuted
<1>6. nonu \subseteq Unknown
  OBVIOUS
<1> HIDE DEF nonu
<1>7. \A b \in Bit : /\ res'[b] = "UNIQ" => res[b] = "UNIQ" /\ win'[b] = win[b]
                     /\ res'[b] = "UNK" => res[b] = "UNK"
                     /\ res'[b] # "UNIQ" => win'[b] = 0
  BY <1>5, <1>6 DEF Unknown, OtherwiseZero, Types
<1>8. Types'
  BY <1>4, <1>5, SizeAssumption DEF Types
<1>9. Loaded'
  BY <1>4 DEF Loaded
<1>10. UniqKept' /\ OtherwiseZero' /\ UniqLeast'
  BY <1>7 DEF UniqKept, OtherwiseZero, UniqLeast
<1>11. UnknownConfused'
  BY <1>4, <1>7 DEF UnknownConfused
<1>12. Final'
  BY <1>4 DEF Final
<1>13. QED
  BY <1>8, <1>9, <1>10, <1>11, <1>12

LEMMA EndLoopIInv == IInv /\ EndLoop => IInv'
<1> SUFFICES ASSUME IInv, EndLoop
             PROVE  IInv'
  OBVIOUS
<1> USE DEF IInv, EndLoop
<1>1. Types'
  BY SizeAssumption DEF Types
<1>2. Loaded' /\ Final'
  BY DEF Loaded, Final
<1>3. UniqKept' /\ OtherwiseZero' /\ UniqLeast'
  BY DEF UniqKept, OtherwiseZero, UniqLeast
<1>4. UnknownConfused'
  BY DEF UnknownConfused
<1>5. QED
  BY <1>1, <1>2, <1>3, <1>4

LEMMA FinishIInv == IInv /\ Finish => IInv'
<1> SUFFICES ASSUME IInv, Finish
             PROVE  IInv'
  OBVIOUS
<1> USE DEF IInv, Finish
<1>1. Types' /\ Loaded'
  BY DEF Types, Loaded
<1>2. Final'
  BY DEF Final, Unknown
<1>3. UniqKept' /\ OtherwiseZero' /\ UniqLeast'
  BY DEF UniqKept, OtherwiseZero, UniqLeast
<1>4. UnknownConfused'
  BY DEF UnknownConfused
<1>5. QED
  BY <1>1, <1>2, <1>3, <1>4

LEMMA StutterIInv == IInv /\ UNCHANGED vars => IInv'
  BY DEF vars, IInv, Types, Loaded, UniqKept, OtherwiseZero, UnknownConfused, UniqLeast,
         Final, Unknown

LEMMA SpecIInv == Spec => []IInv
<1>1. IInv /\ [Next]_vars => IInv'
  BY NextBoundIInv, ProcBitNonloopIInv, LoadLoopIInv, ProcBitLoopUnsatIInv,
     ProcBitLoopSatIInv, EndLoopIInv, FinishIInv, StutterIInv
     DEF Next
<1>2. QED
  BY InitIInv, <1>1, PTL DEF Spec

(***************************************************************************)
(* The state is well formed; in particular what the solver holds allows    *)
(* nothing that the windows of the present bound do not.                   *)
(***************************************************************************)
THEOREM SpecTypeOK == Spec => []TypeOK
<1>1. IInv => TypeOK
  BY DEF IInv, Types, Loaded, TypeOK
<1>2. QED
  BY <1>1, SpecIInv, PTL

(***************************************************************************)
(* The assert of procdiffv never fails: a model with loops never refutes a *)
(* bit that an earlier bound proved unique.                                *)
(***************************************************************************)
THEOREM SpecNoAssertFailure == Spec => []NoAssertFailure
<1>1. IInv => NoAssertFailure
  BY DEF IInv, Types, NoAssertFailure
<1>2. QED
  BY <1>1, SpecIInv, PTL

(***************************************************************************)
(* The final assert of the method holds of the finished array.             *)
(***************************************************************************)
THEOREM SpecFinalAssert == Spec => []FinalAssert
<1>1. IInv => FinalAssert
  BY DEF IInv, Types, Final, UniqKept, OtherwiseZero, FinalAssert
<1>2. QED
  BY <1>1, SpecIInv, PTL

(***************************************************************************)
(* A bit recorded as unique is confused by no window of its bound.         *)
(***************************************************************************)
THEOREM SpecUniqSound == Spec => []UniqSound
<1>1. IInv => UniqSound
  BY DEF IInv, UniqKept, UniqSound
<1>2. QED
  BY <1>1, SpecIInv, PTL

(***************************************************************************)
(* The bound recorded for a unique bit is the least that was tried.        *)
(***************************************************************************)
THEOREM SpecUniqLeast == Spec => []UniqLeast
<1>1. IInv => UniqLeast
  BY DEF IInv
<1>2. QED
  BY <1>1, SpecIInv, PTL

-----------------------------------------------------------------------------
(***************************************************************************)
(* What a window with loops confuses, every bound confuses: true of        *)
(* encoders with registers of one bit (Encoder_proofs!GivenUpRightly), but *)
(* not of those that the run uniq_wide is about.                           *)
(***************************************************************************)
LoopsLast ==
  \A e \in Encoder : \A b, c \in Bnd0 + 1 .. MaxBnd : LoopInputs(e, b) \subseteq NonloopInputs(e, c)

\* In the pass with loops the solver holds the formula with loops.
LoopLoaded == pc = "loop" => models = LoopInputs(enc, bnd)

LEMMA SpecLoopLoaded == Spec => []LoopLoaded
<1>1. Init => LoopLoaded
  BY DEF Init, LoopLoaded
<1>2. LoopLoaded /\ [Next]_vars => LoopLoaded'
  <2> SUFFICES ASSUME LoopLoaded, [Next]_vars
               PROVE  LoopLoaded'
    OBVIOUS
  <2> USE DEF LoopLoaded
  <2>1. CASE NextBound
    BY <2>1 DEF NextBound
  <2>2. CASE ProcBitNonloop
    BY <2>2 DEF ProcBitNonloop
  <2>3. CASE LoadLoop
    BY <2>3 DEF LoadLoop
  <2>4. CASE ProcBitLoopUnsat
    BY <2>4 DEF ProcBitLoopUnsat
  <2>5. CASE ProcBitLoopSat
    BY <2>5 DEF ProcBitLoopSat
  <2>6. CASE EndLoop
    BY <2>6 DEF EndLoop
  <2>7. CASE Finish
    BY <2>7 DEF Finish
  <2>8. CASE UNCHANGED vars
    BY <2>8 DEF vars
  <2>9. QED
    BY <2>1, <2>2, <2>3, <2>4, <2>5, <2>6, <2>7, <2>8 DEF Next
<1>3. QED
  BY <1>1, <1>2, PTL DEF Spec

\* A bit that no window of the bound confuses is recoverable.
LEMMA FoundIsTrue ==
  ASSUME IInv, ProcBitNonloop, res[idx] = "UNK", Confusing(idx) = {}
  PROVE  Truth(enc, idx) = "UNIQ"
<1>1. /\ idx \in Bit /\ enc \in Encoder /\ bnd \in Bnd0 + 1 .. MaxBnd
      /\ models = NonloopInputs(enc, bnd)
  BY SizeAssumption DEF IInv, Types, Loaded, ProcBitNonloop
<1>2. \A m \in NonloopInputs(enc, bnd) : ~(~m[1][idx] /\ m[2][idx])
  BY <1>1 DEF Confusing
<1>3. ~Confuses(NonloopInputs(enc, bnd), idx)
  BY <1>1, <1>2, OnePolarity
<1>4. QED
  BY <1>1, <1>3 DEF Truth

\* A bit on which a model with loops differs is not.
LEMMA GivenUpIsTrue ==
  ASSUME LoopsLast, IInv, LoopLoaded, pc = "loop",
         NEW m \in models, NEW b \in Differing(m)
  PROVE  Truth(enc, b) = "NONU"
<1>1. enc \in Encoder /\ bnd \in Bnd0 + 1 .. MaxBnd /\ m \in LoopInputs(enc, bnd)
  BY SizeAssumption DEF IInv, Types, Loaded, LoopLoaded
<1>2. \A c \in Bnd0 + 1 .. MaxBnd : m \in NonloopInputs(enc, c)
  BY <1>1 DEF LoopsLast
<1>3. \A c \in Bnd0 + 1 .. MaxBnd : Confuses(NonloopInputs(enc, c), b)
  BY <1>2 DEF Confuses, Differing
<1>4. QED
  BY <1>3 DEF Truth

\* Every step decides bits that are unknown, and decides them rightly.
LEMMA StepDecides ==
  ASSUME LoopsLast, IInv, LoopLoaded, [Next]_vars
  PROVE  [Classes!Decide]_(Classes!vars)
<1> USE DEF Classes!vars
<1>1. CASE ProcBitNonloop
  <2>1. CASE res[idx] = "UNK" /\ Confusing(idx) = {}
    <3>1. Truth(enc, idx) = "UNIQ" /\ idx \in Bit /\ res \in [Bit -> Result] /\ enc' = enc
      BY <1>1, <2>1, FoundIsTrue DEF ProcBitNonloop, IInv, Types
    <3>2. res' = [b \in Bit |-> IF b \in {idx} THEN Truth(enc, b) ELSE res[b]]
      BY <1>1, <2>1, <3>1 DEF ProcBitNonloop
    <3>3. {idx} \in (SUBSET Classes!Unknown) \ {{}}
      BY <2>1, <3>1 DEF Classes!Unknown
    <3>4. QED
      BY <3>1, <3>2, <3>3 DEF Classes!Decide
  <2>2. CASE ~(res[idx] = "UNK" /\ Confusing(idx) = {})
    BY <1>1, <2>2 DEF ProcBitNonloop
  <2>3. QED
    BY <2>1, <2>2
<1>2. CASE ProcBitLoopSat
  <2>1. PICK m \in Confusing(idx) :
          \E visited \in SUBSET Bit :
            res' = [b \in Bit |-> IF b \in {d \in Unknown \cap Differing(m) : d \in visited}
                                  THEN "NONU" ELSE res[b]]
    BY <1>2 DEF ProcBitLoopSat
  <2>2. PICK visited \in SUBSET Bit :
          res' = [b \in Bit |-> IF b \in {d \in Unknown \cap Differing(m) : d \in visited}
                                THEN "NONU" ELSE res[b]]
    BY <2>1
  <2> DEFINE D == {d \in Unknown \cap Differing(m) : d \in visited}
  <2>3. m \in models /\ pc = "loop" /\ enc' = enc
    BY <1>2 DEF Confusing, ProcBitLoopSat
  <2>4. \A b \in D : Truth(enc, b) = "NONU"
    BY <2>3, GivenUpIsTrue
  <2>5. D \subseteq Classes!Unknown
    BY DEF Unknown, Classes!Unknown
  <2> HIDE DEF D
  <2>6. res' = [b \in Bit |-> IF b \in D THEN Truth(enc, b) ELSE res[b]]
    BY <2>2, <2>4 DEF D
  <2>7. CASE D = {}
    <3>1. res' = res
      BY <2>6, <2>7 DEF IInv, Types
    <3>2. QED
      BY <3>1, <2>3
  <2>8. CASE D # {}
    BY <2>3, <2>5, <2>6, <2>8 DEF Classes!Decide
  <2>9. QED
    BY <2>7, <2>8
<1>3. CASE NextBound \/ LoadLoop \/ ProcBitLoopUnsat \/ EndLoop \/ Finish \/ UNCHANGED vars
  BY <1>3 DEF NextBound, LoadLoop, ProcBitLoopUnsat, EndLoop, Finish, vars
<1>4. QED
  BY <1>1, <1>2, <1>3 DEF Next

(***************************************************************************)
(* Where loops last, procDetermineUniqueInputs implements InputClasses:    *)
(* whatever the solver answers, bits are decided once and rightly.         *)
(***************************************************************************)
THEOREM RefinesClasses ==
  ASSUME LoopsLast
  PROVE  Spec => Classes!Init /\ [][Classes!Decide]_(Classes!vars)
<1>1. Init => Classes!Init
  BY DEF Init, Classes!Init
<1>2. IInv /\ LoopLoaded /\ [Next]_vars => [Classes!Decide]_(Classes!vars)
  BY StepDecides
<1>3. QED
  BY <1>1, <1>2, SpecIInv, SpecLoopLoaded, PTL DEF Spec

(***************************************************************************)
(* So no bit that is given up could have been recovered at any bound: what *)
(* the run uniq_wide refutes is due to loops that do not last, and to      *)
(* nothing else.                                                           *)
(***************************************************************************)
THEOREM SpecNonuSound ==
  ASSUME LoopsLast
  PROVE  Spec => []NonuSound
<1> DEFINE Right == \A b \in Bit : res[b] \in {"UNK", Truth(enc, b)}
<1>1. Classes!Init => Right
  BY DEF Classes!Init
<1>2. Right /\ [Classes!Decide]_(Classes!vars) => Right'
  <2> SUFFICES ASSUME Right, [Classes!Decide]_(Classes!vars)
               PROVE  Right'
    OBVIOUS
  <2>1. CASE UNCHANGED Classes!vars
    BY <2>1 DEF Classes!vars
  <2>2. CASE Classes!Decide
    BY <2>2 DEF Classes!Decide
  <2>3. QED
    BY <2>1, <2>2
<1>3. Right => NonuSound
  BY DEF NonuSound, Truth
<1> HIDE DEF Right
<1>4. QED
  BY <1>1, <1>2, <1>3, RefinesClasses, PTL
=============================================================================
