------------------------------- MODULE Unroll -------------------------------
(***************************************************************************)
(* How vp/compsyn_pred/elabmod.ml writes the clauses of a query, variable  *)
(* by variable: construct_nonloop copies the clauses of one instance of    *)
(* the encoder into two times p+l+1+r frames, connects the frames of each  *)
(* copy and compares the outputs of the copies; construct_nonloop_bitIs    *)
(* compares the current inputs as well; construct_loop (and                *)
(* construct_instance_loop, which is the same) compares the states of the  *)
(* frames.  No assertion has been inferred yet.                            *)
(*                                                                         *)
(* Variable x of frame k is x + k * final_index_oneinst.                   *)
(***************************************************************************)
EXTENDS Gates, FiniteSets

CONSTANTS
  Instances, \* the encoders: see InstanceAssumption
  Bounds(_), \* the windows <<p, l, r>> an encoder is unrolled in, a few for model checking
  Splits(_)  \* and the partitions <<listUniqBitI, listNonuniqBitI>> of its inputs

(***************************************************************************)
(* What encode_oneInstance2SAT_step1 leaves behind: the clauses of one     *)
(* instance, the registers (the first variable of the current state, and   *)
(* the width; the next state follows), the bits of the protocol inputs and *)
(* outputs, and the bit of the assertion, if there is one.                 *)
(***************************************************************************)
IsVector(s, n) == s \in Seq(1 .. n)

ASSUME InstanceAssumption ==
  \A e \in Instances :
    /\ e.final_index_oneinst \in Nat /\ e.final_index_oneinst > 3
    /\ \A c \in e.clause_list : IsClause(c, e.final_index_oneinst - 2)
    /\ e.dffs \in Seq([current : Nat \ {0}, width : Nat \ {0}])
    /\ \A k \in DOMAIN e.dffs :
         e.dffs[k].current + 2 * e.dffs[k].width <= e.final_index_oneinst - 1
    /\ IsVector(e.instr, e.final_index_oneinst - 2)
    /\ IsVector(e.outstr, e.final_index_oneinst - 2)
    /\ IsVector(e.assertion, e.final_index_oneinst - 2)

\* connect_multiple_instance_step3 asserts that it is given two frames at least.
ASSUME BoundsAssumption ==
  \A e \in Instances : \A w \in Bounds(e) : w \in Nat \X Nat \X Nat /\ w[1] + w[2] + w[3] > 0

ASSUME SplitAssumption ==
  \A e \in Instances : \A s \in Splits(e) :
    s \in Seq(1 .. (e.final_index_oneinst - 2)) \X Seq(1 .. (e.final_index_oneinst - 2))

VARIABLES
  inst,                  \* the encoder
  window,                \* the window of the query at hand
  split,                 \* the split of its current inputs, <<>> if they are not compared
  clause_list_multiple,
  last_index,            \* the first variable not in use
  lock_multiple,
  target,                \* the variable that is true if the outputs agree
  region,                \* the loop that is looked for: 1, 2 or 3
  li, ri,                \* the frames whose states are compared next
  equ,                   \* the variables of the comparisons of this region
  loops,                 \* the results of the regions
  pc

vars == <<inst, window, split, clause_list_multiple, last_index, lock_multiple,
          target, region, li, ri, equ, loops, pc>>

loopVars == <<region, li, ri, equ, loops>>

F == inst.final_index_oneinst
p == window[1]
l == window[2]
r == window[3]

\* The frames of one copy, and their last.
size == p + l + 1 + r
last == p + l + r

-----------------------------------------------------------------------------
\* encode_instance: the clauses of frame k.
ShiftClause(c, off) == {IF x > 0 THEN x + off ELSE x - off : x \in c}
encode_instance(e, k) == {ShiftClause(c, k * e.final_index_oneinst) : c \in e.clause_list}

gen_multiple_instance(e, num) == UNION {encode_instance(e, k) : k \in 0 .. (num - 1)}

\* The current state of frame k+1 is the next state of frame k, width variables further on.
connect_dffpair(e, k, d) ==
  UNION {encode_EQU(x + (k + 1) * e.final_index_oneinst, x + k * e.final_index_oneinst + d.width) :
           x \in d.current .. (d.current + d.width - 1)}

connect_multiple_instance(e, start_bound, end_bound) ==
  UNION {connect_dffpair(e, k, e.dffs[n]) : k \in start_bound .. (end_bound - 1), n \in DOMAIN e.dffs}

try_assertion(e, num) ==
  {{e.assertion[n] + k * e.final_index_oneinst} : k \in 0 .. (num - 1), n \in DOMAIN e.assertion}

\* A vector in frame k.
AtFrame(e, s, k) == [n \in DOMAIN s |-> s[n] + k * e.final_index_oneinst]

\* A vector in the frames first..last, one after the other.
AtFrames(e, s, first, end) ==
  [n \in 1 .. (end - first + 1) * Len(s) |->
     s[((n - 1) % Len(s)) + 1] + (first + (n - 1) \div Len(s)) * e.final_index_oneinst]

-----------------------------------------------------------------------------
\* The program between the encoding of the module and the first query.
Init ==
  /\ inst \in Instances
  /\ window = <<0, 0, 0>>
  /\ split = <<>>
  /\ clause_list_multiple = {}
  /\ last_index = inst.final_index_oneinst - 1
  /\ lock_multiple = TRUE
  /\ target = 0
  /\ region = 0 /\ li = 0 /\ ri = 0 /\ equ = {} /\ loops = <<>>
  /\ pc = "start"

\* construct_nonloop and construct_nonloop_uniq_nonuniq, from set_unlock_multiple on.
Begin ==
  /\ pc \in {"start", "nonloop", "bitIs", "loop"}
  /\ \E w \in Bounds(inst) : window' = w
  /\ lock_multiple' = FALSE
  /\ clause_list_multiple' = {}
  /\ last_index' = F + 1
  /\ pc' = "instances"
  /\ split' = <<>> /\ target' = 0
  /\ region' = 0 /\ li' = 0 /\ ri' = 0 /\ equ' = {} /\ loops' = <<>>
  /\ UNCHANGED inst

\* gen_multiple_instance_step2, set_clause_list_multiple, set_last_index
Instantiate ==
  /\ pc = "instances"
  /\ clause_list_multiple' = gen_multiple_instance(inst, 2 * size)
  /\ last_index' = 2 * size * F + 1
  /\ pc' = "connect"
  /\ UNCHANGED <<inst, window, split, lock_multiple, target, loopVars>>

\* try_assertion, and connect_multiple_instance_step3 for either copy.
Connect ==
  /\ pc = "connect"
  /\ clause_list_multiple' = clause_list_multiple
       \cup try_assertion(inst, 2 * size)
       \cup connect_multiple_instance(inst, 0, last)
       \cup connect_multiple_instance(inst, size, size + last)
  /\ pc' = "outputs"
  /\ UNCHANGED <<inst, window, split, last_index, lock_multiple, target, loopVars>>

Outputs(e, first, end, copy) == AtFrame(e, AtFrames(e, e.outstr, first, end), copy)

\* Mutant: the variable of the target is not counted.
CompareOutputsUnallocated ==
  /\ pc = "outputs"
  /\ LET o1 == Outputs(inst, p, last, 0)
         o2 == Outputs(inst, p, last, size)
     IN /\ clause_list_multiple' = clause_list_multiple \cup encode_EQUV_res(last_index, o1, o2)
        /\ target' = last_index + Len(o1)
        /\ last_index' = last_index + Len(o1)
  /\ lock_multiple' = TRUE
  /\ pc' = "nonloop"
  /\ UNCHANGED <<inst, window, split, loopVars>>

\* The outputs of the frames p..p+l+r are compared, and the list is locked.
CompareOutputs ==
  /\ pc = "outputs"
  /\ LET o1 == Outputs(inst, p, last, 0)
         o2 == Outputs(inst, p, last, size)
     IN /\ clause_list_multiple' = clause_list_multiple \cup encode_EQUV_res(last_index, o1, o2)
        /\ target' = last_index + Len(o1)
        /\ last_index' = last_index + Len(o1) + 1
  /\ lock_multiple' = TRUE
  /\ pc' = "nonloop"
  /\ UNCHANGED <<inst, window, split, loopVars>>

(***************************************************************************)
(* construct_nonloop_bitIs: the current inputs agree on the bits of the    *)
(* first list and differ on those of the second.                           *)
(***************************************************************************)
BitIs ==
  /\ pc = "nonloop"
  /\ \E s \in Splits(inst) :
       LET uniq(copy) == AtFrame(inst, s[1], copy + p + l)
           nonuniq(copy) == AtFrame(inst, s[2], copy + p + l)
       IN /\ split' = s
          /\ clause_list_multiple' = clause_list_multiple
               \cup encode_EQUV(uniq(0), uniq(size))
               \cup encode_INEV(last_index, nonuniq(0), nonuniq(size))
          /\ last_index' = last_index + Len(s[2]) + 1
  /\ lock_multiple' = TRUE
  /\ pc' = "bitIs"
  /\ UNCHANGED <<inst, window, target, loopVars>>

-----------------------------------------------------------------------------
\* The frames between which region n looks for a loop: p, l and r.
Starti(n) == CASE n = 1 -> 0 [] n = 2 -> p [] n = 3 -> p + l + 1
Endi(n) == CASE n = 1 -> p [] n = 2 -> p + l [] n = 3 -> last

EnterRegion(n) == region' = n /\ li' = Starti(n) /\ ri' = Starti(n) + 1 /\ equ' = {}

\* construct_loop or construct_instance_loop; the callers see to p, l, r > 1.
BeginLoop ==
  /\ pc \in {"nonloop", "bitIs"}
  /\ p > 0 /\ l > 0 /\ r > 1
  /\ lock_multiple' = FALSE
  /\ EnterRegion(1)
  /\ pc' = "pairs"
  /\ UNCHANGED <<inst, window, split, clause_list_multiple, last_index, target, loops>>

\* dff_curlst: the first variable of each register.
dff_curlst(e) == [n \in DOMAIN e.dffs |-> e.dffs[n].current]

\* Mutant: only the states of the first copy are compared.
ComparedOneCopy(e, i, j, m) ==
  <<AtFrame(e, dff_curlst(e), i), AtFrame(e, dff_curlst(e), j)>>

\* The states of frames i and j, of the first copy and of the second.
Compared(e, i, j, m) ==
  <<AtFrame(e, dff_curlst(e), i) \o AtFrame(e, dff_curlst(e), i + m),
    AtFrame(e, dff_curlst(e), j) \o AtFrame(e, dff_curlst(e), j + m)>>

\* proc_riequ: a variable for each bit that is compared, and rii behind them.
ComparePair ==
  /\ pc = "pairs"
  /\ LET s == Compared(inst, li, ri, size)
     IN /\ clause_list_multiple' = clause_list_multiple \cup encode_EQUV_res(last_index, s[1], s[2])
        /\ equ' = equ \cup {last_index + Len(s[1])}
        /\ last_index' = last_index + Len(s[1]) + 1
  /\ IF ri < Endi(region) THEN /\ ri' = ri + 1
                               /\ UNCHANGED <<li, pc>>
     ELSE IF li < Endi(region) - 1 THEN /\ li' = li + 1
                                        /\ ri' = li + 2
                                        /\ UNCHANGED pc
     ELSE pc' = "region" /\ UNCHANGED <<li, ri>>
  /\ UNCHANGED <<inst, window, split, lock_multiple, target, region, loops>>

\* The end of double_loop: one of the comparisons holds (riii).
EndRegion ==
  /\ pc = "region"
  /\ clause_list_multiple' = clause_list_multiple
       \cup {equ \cup {-last_index}} \cup {{-x, last_index} : x \in equ}
  /\ loops' = Append(loops, last_index)
  /\ last_index' = last_index + 1
  /\ IF region < 3 THEN EnterRegion(region + 1) /\ pc' = "pairs"
     ELSE pc' = "red_and" /\ UNCHANGED <<region, li, ri, equ>>
  /\ UNCHANGED <<inst, window, split, lock_multiple, target>>

\* The end of construct_loop: the outputs agree and there are loops in all regions.
EndLoop ==
  /\ pc = "red_and"
  /\ clause_list_multiple' = clause_list_multiple
       \cup encode_Red_AND(last_index, <<target>> \o loops)
  /\ target' = last_index
  /\ last_index' = last_index + 1
  /\ lock_multiple' = TRUE
  /\ pc' = "loop"
  /\ UNCHANGED <<inst, window, split, loopVars>>

Next ==
  \/ Begin \/ Instantiate \/ Connect \/ CompareOutputs \/ BitIs
  \/ BeginLoop \/ ComparePair \/ EndRegion \/ EndLoop

Spec == Init /\ [][Next]_vars

-----------------------------------------------------------------------------
AtRest == pc \in {"start", "nonloop", "bitIs", "loop"}

(***************************************************************************)
(* What the code asserts of its variables and its lock: the clauses are    *)
(* about variables that were handed out (check_clslst_maxidx, and          *)
(* set_last_index when it is given a new bound), the target is one of      *)
(* them, and the list is unlocked exactly while it is written.             *)
(***************************************************************************)
TypeOK ==
  /\ inst \in Instances
  /\ window \in Nat \X Nat \X Nat
  /\ last_index \in Nat
  /\ \A c \in clause_list_multiple : IsClause(c, last_index - 1)
  /\ target \in 0 .. (last_index - 1)
  /\ equ \cup {loops[n] : n \in DOMAIN loops} \subseteq 1 .. (last_index - 1)
  /\ lock_multiple \in BOOLEAN
  /\ lock_multiple <=> AtRest

=============================================================================
