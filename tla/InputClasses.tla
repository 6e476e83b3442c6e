---------------------------- MODULE InputClasses ----------------------------
(***************************************************************************)
(* What the classification of the input bits promises, without formulas,   *)
(* bounds or models: every bit is decided once, for good, and rightly.     *)
(***************************************************************************)
CONSTANTS
  Bit,          \* the input bits
  Encoder,      \* the encoders
  Truth(_, _)   \* "UNIQ" or "NONU" for an encoder and a bit

VARIABLES enc, res

vars == <<enc, res>>

Unknown == {b \in Bit : res[b] = "UNK"}

Init ==
  /\ enc \in Encoder
  /\ res = [b \in Bit |-> "UNK"]

\* One model may decide several bits at once.
Decide ==
  /\ Unknown # {}
  /\ \E D \in (SUBSET Unknown) \ {{}} :
       res' = [b \in Bit |-> IF b \in D THEN Truth(enc, b) ELSE res[b]]
  /\ UNCHANGED enc

Spec == Init /\ [][Decide]_vars /\ WF_vars(Decide)
=============================================================================
