------------------------ MODULE InferPredicate_proofs ------------------------
(***************************************************************************)
(* The predicate that inferPredicateUniq ends with excludes every          *)
(* valuation that the final window leaves open, whatever interpolants the  *)
(* solver hands out, for every encoder whose contexts satisfy the          *)
(* assumption of InferPredicate.                                           *)
(***************************************************************************)
EXTENDS InferPredicate, TLAPS

(***************************************************************************)
(* The inductive invariant.  The cover of a bound is complete only within  *)
(* the predicates that were forced, so it must be said what was forced:    *)
(* the nonloop list of the bound before, which covers what is open now     *)
(* because less is open now.                                               *)
(***************************************************************************)
Inv ==
  /\ TypeOK
  /\ pc # "while" => b \in MaxN(enc) .. MaxB
  /\ pc = "while" => \/ b = MaxN(enc) - 1 /\ nonloop = {}
                     \/ b \in MaxN(enc) .. MaxB /\ Open(b) \subseteq nonloop \cup loops
  /\ pc \in {"nonloop", "done"} =>
       /\ query = Restrict(NonloopContexts(enc, b), Forced(nonloop, loops))
       /\ Open(b) \subseteq Forced(nonloop, loops) \cup loops
  /\ pc = "loop" => Open(b) \subseteq nonloop \cup loops
  /\ pc = "done" => Targets(query) = {}

\* Forcing a predicate takes the other valuations out of the targets.
LEMMA RestrictTargets ==
  ASSUME NEW Q, NEW C PROVE Targets(Restrict(Q, C)) = Targets(Q) \cap C
<1>1. ASSUME NEW f \in Targets(Restrict(Q, C)) PROVE f \in Targets(Q) /\ f \in C
  <2>1. PICK d \in Restrict(Q, C) : f \in d.must
    BY DEF Targets
  <2>2. PICK c \in Q : d = [must |-> c.must \cap C, may |-> c.may \cup (Value(enc) \ C)]
    BY DEF Restrict
  <2>3. f \in c.must \cap C
    BY <2>1, <2>2
  <2>4. QED
    BY <2>3 DEF Targets
<1>2. ASSUME NEW f \in Targets(Q), f \in C PROVE f \in Targets(Restrict(Q, C))
  <2>1. PICK c \in Q : f \in c.must
    BY DEF Targets
  <2>2. PICK d : d = [must |-> c.must \cap C, may |-> c.may \cup (Value(enc) \ C)]
    OBVIOUS
  <2>3. d \in Restrict(Q, C) /\ f \in d.must
    BY <1>2, <2>1, <2>2 DEF Restrict
  <2>4. QED
    BY <2>3 DEF Targets
<1>3. QED
  BY <1>1, <1>2

\* Forcing one leaves contexts for which there are interpolants.
LEMMA RestrictContexts ==
  ASSUME NEW Q, NEW C,
         \A c \in Q : c.must \subseteq c.may /\ c.may \subseteq Value(enc)
  PROVE  \A c \in Restrict(Q, C) : c.must \subseteq c.may /\ c.may \subseteq Value(enc)
<1> TAKE c \in Restrict(Q, C)
<1>1. PICK d \in Q : c = [must |-> d.must \cap C, may |-> d.may \cup (Value(enc) \ C)]
  BY DEF Restrict
<1>2. c.must = d.must \cap C /\ c.may = d.may \cup (Value(enc) \ C)
  BY <1>1
<1>3. d.must \subseteq d.may /\ d.may \subseteq Value(enc)
  OBVIOUS
<1>4. QED
  BY <1>2, <1>3

\* What is open is a set of valuations of the unique bits.
LEMMA OpenValues ==
  ASSUME enc \in Encoder, NEW n \in MaxN(enc) .. MaxB
  PROVE  Open(n) \subseteq Value(enc)
<1>1. \A c \in NonloopContexts(enc, n) : c.must \subseteq Value(enc)
  BY ContextAssumption
<1>2. QED
  BY <1>1 DEF Open, Targets

\* What is forced is one, too.
LEMMA ForcedValues ==
  ASSUME NEW keep \in SUBSET Value(enc), NEW drop
  PROVE  Forced(keep, drop) \subseteq Value(enc)
  BY DEF Forced

\* The search starts before the first bound, with nothing forced.
LEMMA InvInit == Init => Inv
  BY BoundAssumption DEF Init, Inv, TypeOK

(***************************************************************************)
(* The next bound: what is open was open, hence is forced or excluded.     *)
(***************************************************************************)
LEMMA InvNextBound == Inv /\ NextBound => Inv'
<1> SUFFICES ASSUME Inv, NextBound PROVE Inv'
  OBVIOUS
<1> DEFINE Q == NonloopContexts(enc, b')
           C == Forced(nonloop, loops)
<1>1. /\ enc \in Encoder /\ MaxN(enc) \in Nat /\ MaxN(enc) >= 2 /\ MaxB \in Nat
      /\ b \in Nat /\ pc = "while" /\ b < MaxB /\ b' = b + 1
      /\ enc' = enc /\ nonloop' = nonloop /\ loops' = loops
      /\ query' = Restrict(Q, C) /\ found' = {} /\ pc' = "nonloop"
  BY BoundAssumption DEF Inv, TypeOK, NextBound
<1>2. b' \in MaxN(enc) .. MaxB
  BY <1>1 DEF Inv
<1>3. \A c \in Q : c.must \subseteq c.may /\ c.may \subseteq Value(enc)
  BY <1>1, <1>2, ContextAssumption
<1>4. TypeOK'
  <2>1. \A c \in query' : c.must \subseteq c.may /\ c.may \subseteq Value(enc)
    BY <1>1, <1>3, RestrictContexts
  <2>2. QED
    BY <1>1, <2>1 DEF Inv, TypeOK
<1>5. Open(b') \subseteq C \cup loops
  <2>1. CASE b = MaxN(enc) - 1 /\ nonloop = {}
    <3>1. C = Value(enc) \ loops
      BY <2>1 DEF Forced
    <3>2. QED
      BY <1>1, <1>2, <3>1, OpenValues
  <2>2. CASE b \in MaxN(enc) .. MaxB /\ Open(b) \subseteq nonloop \cup loops
    <3>1. Open(b + 1) \subseteq Open(b)
      BY <1>1, <2>2, ContextAssumption DEF Open
    <3>2. nonloop # {} => C = nonloop \ loops
      BY DEF Forced
    <3>3. QED
      BY <1>1, <2>2, <3>1, <3>2
  <2>3. QED
    BY <1>1, <2>1, <2>2 DEF Inv
<1>6. C' = C /\ Open(b)' = Open(b')
  BY <1>1 DEF Forced, Open
<1>7. query' = Restrict(NonloopContexts(enc, b), Forced(nonloop, loops))'
  BY <1>1 DEF Restrict, Forced
<1>8. QED
  BY <1>1, <1>2, <1>4, <1>5, <1>6, <1>7 DEF Inv

\* An interpolant adds valuations to the cover, and nothing else changes.
LEMMA InvEnlarge == Inv /\ Enlarge => Inv'
<1> SUFFICES ASSUME Inv, Enlarge PROVE Inv'
  OBVIOUS
<1>1. PICK c \in query : \E more \in SUBSET (c.may \ c.must) :
                            found' = found \cup c.must \cup more
  BY DEF Enlarge
<1>2. c.must \subseteq c.may /\ c.may \subseteq Value(enc)
  BY DEF Inv, TypeOK
<1>3. found' \subseteq Value(enc)
  BY <1>1, <1>2 DEF Inv, TypeOK
<1>4. UNCHANGED <<enc, b, nonloop, loops, query, pc>>
  BY DEF Enlarge
<1>5. QED
  BY <1>3, <1>4 DEF Inv, TypeOK, Open, Forced, Restrict, Targets

(***************************************************************************)
(* The cover replaces the list: it holds everything open that was forced.  *)
(***************************************************************************)
LEMMA InvEndNonloop == Inv /\ EndNonloop => Inv'
<1> SUFFICES ASSUME Inv, EndNonloop PROVE Inv'
  OBVIOUS
<1> DEFINE C == Forced(nonloop, loops)
<1>1. /\ pc = "nonloop" /\ Targets(query) \subseteq found
      /\ enc' = enc /\ b' = b /\ nonloop' = found /\ loops' = loops
      /\ query' = Restrict(LoopContexts(enc, b), Forced(found, loops))
      /\ found' = {} /\ pc' = "loop"
  BY DEF EndNonloop
<1>2. enc \in Encoder /\ b \in MaxN(enc) .. MaxB /\ found \subseteq Value(enc)
  BY <1>1 DEF Inv, TypeOK
<1>3. Open(b) \cap C \subseteq found
  <2>1. Targets(query) = Open(b) \cap C
    BY <1>1, RestrictTargets DEF Inv, Open
  <2>2. QED
    BY <1>1, <2>1
<1>4. Open(b) \subseteq found \cup loops
  BY <1>1, <1>3 DEF Inv
<1>5. Open(b)' = Open(b)
  BY <1>1 DEF Open
<1>6. TypeOK'
  <2>1. \A c \in LoopContexts(enc, b) : c.must \subseteq c.may /\ c.may \subseteq Value(enc)
    BY <1>2, ContextAssumption
  <2>2. \A c \in query' : c.must \subseteq c.may /\ c.may \subseteq Value(enc)
    BY <1>1, <2>1, RestrictContexts
  <2>3. QED
    BY <1>1, <1>2, <2>2 DEF Inv, TypeOK
<1>7. QED
  BY <1>1, <1>2, <1>4, <1>5, <1>6 DEF Inv

\* Excluding more leaves nothing open that is neither listed nor excluded.
LEMMA InvEndLoop == Inv /\ EndLoop => Inv'
<1> SUFFICES ASSUME Inv, EndLoop PROVE Inv'
  OBVIOUS
<1>1. /\ pc = "loop" /\ enc' = enc /\ b' = b /\ nonloop' = nonloop
      /\ loops' = loops \cup found /\ query' = {} /\ found' = {} /\ pc' = "while"
  BY DEF EndLoop
<1>2. Open(b)' = Open(b)
  BY <1>1 DEF Open
<1>3. QED
  BY <1>1, <1>2 DEF Inv, TypeOK

\* Every step of the inference preserves the invariant.
LEMMA InvNext == Inv /\ [Next]_vars => Inv'
<1> SUFFICES ASSUME Inv, [Next]_vars PROVE Inv'
  OBVIOUS
<1>1. CASE NextBound
  BY <1>1, InvNextBound
<1>2. CASE Unique
  BY <1>2 DEF Unique, Inv, TypeOK, Open, Forced, Restrict, Targets
<1>3. CASE Enlarge
  BY <1>3, InvEnlarge
<1>4. CASE EndNonloop
  BY <1>4, InvEndNonloop
<1>5. CASE EndLoop
  BY <1>5, InvEndLoop
<1>6. CASE UNCHANGED vars
  BY <1>6 DEF vars, Inv, TypeOK, Open, Forced, Restrict, Targets
<1>7. QED
  BY <1>1, <1>2, <1>3, <1>4, <1>5, <1>6 DEF Next

\* The invariant holds throughout.
THEOREM SpecInv == Spec => []Inv
  BY InvInit, InvNext, PTL DEF Spec

(***************************************************************************)
(* The lists hold valuations of the unique bits, and there always is an    *)
(* interpolant for allsat_interp to take.                                  *)
(***************************************************************************)
THEOREM SpecTypeOK == Spec => []TypeOK
<1>1. Inv => TypeOK
  BY DEF Inv
<1>2. QED
  BY <1>1, SpecInv, PTL

(***************************************************************************)
(* Every valuation the final window leaves open is excluded.               *)
(***************************************************************************)
THEOREM SpecCovered == Spec => []Covered
<1>1. Inv => Covered
  <2> SUFFICES ASSUME Inv, pc = "done" PROVE Open(b) \subseteq loops
    BY DEF Covered
  <2>1. Targets(query) = Open(b) \cap Forced(nonloop, loops)
    BY RestrictTargets DEF Inv, Open
  <2>2. QED
    BY <2>1 DEF Inv
<1>2. QED
  BY <1>1, SpecInv, PTL

(***************************************************************************)
(* Nothing open is forgotten from one bound to the next.                   *)
(***************************************************************************)
THEOREM SpecNothingForgotten == Spec => []NothingForgotten
<1>1. Inv => NothingForgotten
  <2> SUFFICES ASSUME Inv, pc = "while", b >= MaxN(enc)
               PROVE  Open(b) \subseteq nonloop \cup loops
    BY DEF NothingForgotten
  <2>1. MaxN(enc) \in Nat /\ b \in Nat
    BY BoundAssumption DEF Inv, TypeOK
  <2>2. b # MaxN(enc) - 1
    BY <2>1
  <2>3. QED
    BY <2>2 DEF Inv
<1>2. QED
  BY <1>1, SpecInv, PTL
=============================================================================
