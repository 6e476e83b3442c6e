------------------------------ MODULE GenDecoder ------------------------------
(***************************************************************************)
(* The end of relational_code: RelationalCode, then a predicate for each   *)
(* stage of the pipeline (inferPredicateUniq_Pipe), and at last the        *)
(* decoder (genDecoderVerilog): a function for each input bit and for each *)
(* bit of a stage, by interpolation, from the registers of the stage       *)
(* before it in the decoder.                                               *)
(*                                                                         *)
(* The interpolation stops the program where there is no function.  What   *)
(* it asks differs from what the search asked: flow control bits are told  *)
(* from registers without the predicate, and the others under the          *)
(* predicate in both copies, where the search had it in one of them.       *)
(***************************************************************************)
EXTENDS RelationalCode

CONSTANTS
  FlowIns(_),  \* listUniqBitI of an encoder
  \* Decides, where the inputs of both copies are valid
  Determines(_, _, _, _, _, _, _)

\* Fewer pairs of runs are compared.
ASSUME BothAssumption ==
  \A e \in Encoder : \A b \in Start(e) : \A k \in 0 .. b : Shortest(e, b, k) =>
    \A U \in {Outs(e)} \cup SUBSET Dffs(e) : \A d \in Dffs(e) \cup Ins(e) :
      \A i, j \in b + b .. b + b + k :
        Decides(e, b + b, k, U, i, d, j, TRUE) => Determines(e, b + b, k, U, i, d, j)

VARIABLES
  part,  \* what of the decoder is being made, or where the program stopped
  layer  \* the layer of the decoder that is next: 0 for the input

genVars == <<part, layer>>
decoderVars == <<allVars, genVars>>

Stopped == {"no_flow", "no_function"}

\* pipeCFList: the stages from the one closest to the input.
NumStages == Len(flow)
PipeStage(k) == flow[NumStages + 1 - k]

\* f and d of a layer, and its frame: the input, or a stage.
Layer(k) ==
  IF k = 0 THEN [pos |-> p, known |-> FlowIns(enc), other |-> Ins(enc) \ FlowIns(enc)]
           ELSE PipeStage(k)

(***************************************************************************)
(* No stage before the search found its pipeline; then the layer that is   *)
(* worked on is one of it.                                                 *)
(***************************************************************************)
GenTypeOK ==
  /\ RelationalTypeOK
  /\ part \in {"search", "predicates", "functions", "written"} \cup Stopped
  /\ part # "search" => phase = "pipeline" /\ NumStages > 0
  /\ layer \in 0 .. NumStages + 1
  /\ part \in {"predicates", "no_flow"} => layer > 0
  /\ part \in Stopped => layer <= NumStages

GenInit ==
  /\ RelationalInit
  /\ part = "search"
  /\ layer = 0

-----------------------------------------------------------------------------
Search == RelationalNext /\ UNCHANGED genVars

\* inputCFPredList, from the first stage on.
StartPredicates ==
  /\ phase = "pipeline"
  /\ part = "search"
  /\ part' = "predicates"
  /\ layer' = 1
  /\ UNCHANGED allVars

(***************************************************************************)
(* construct_nonloop_bitIs_Pipe is satisfiable: with the same output in    *)
(* frame p+r, some d of the stage differs.  That the f are forced to be    *)
(* the same adds nothing, as the output told them.                         *)
(***************************************************************************)
Open(s) == \E d \in s.other : ~Decides(enc, p, r, Outs(enc), p + r, d, s.pos, FALSE)

(***************************************************************************)
(* inferPredicateUniq_Pipe: a predicate over f that excludes what is open; *)
(* characterization_interp_AB asserts that there are f.  Nothing reads the *)
(* predicates but a listing.                                               *)
(***************************************************************************)
inferPredicateUniq_Pipe ==
  /\ part = "predicates"
  /\ layer <= NumStages
  /\ IF Open(PipeStage(layer)) /\ PipeStage(layer).known = {}
     THEN part' = "no_flow" /\ UNCHANGED layer
     ELSE layer' = layer + 1 /\ UNCHANGED part
  /\ UNCHANGED allVars

\* genDecoderVerilog: the input first, then the stages in the same order.
StartFunctions ==
  /\ part = "predicates"
  /\ layer = NumStages + 1
  /\ part' = "functions"
  /\ layer' = 0
  /\ UNCHANGED allVars

\* Mutant: the last stage is told from the output at the frame of the input.
SourceAtInput(k) ==
  CASE k = 0 -> stages[head]
    [] k = NumStages -> Stage(p, Outs(enc))
    [] OTHER -> Stage(PipeStage(k + 1).pos, PipeStage(k + 1).known \cup PipeStage(k + 1).other)

\* What a layer is told from: the stage that the search found for the input,
\* f2@d2 of the next stage, the output at p1+r1.
Source(k) ==
  CASE k = 0 -> stages[head]
    [] k = NumStages -> Stage(p + r, Outs(enc))
    [] OTHER -> Stage(PipeStage(k + 1).pos, PipeStage(k + 1).known \cup PipeStage(k + 1).other)

(***************************************************************************)
(* genDecoderFunction over instCNF_4f and over instCNF_4d: there is a      *)
(* function for a bit iff the two copies of the clauses, with the bits of  *)
(* the source in common, do not let it be true in one, false in the other. *)
(***************************************************************************)
FlowTold(k) ==
  \A f \in Layer(k).known :
    Decides(enc, p, r, Source(k).bits, Source(k).pos, f, Layer(k).pos, FALSE)
DataTold(k) ==
  \A d \in Layer(k).other :
    Determines(enc, p, r, Source(k).bits, Source(k).pos, d, Layer(k).pos)

\* A function is over some variable: an assert of characterization_interp_AB.
HasFunctions(k) ==
  /\ Layer(k).known \cup Layer(k).other # {} => Source(k).bits # {}
  /\ FlowTold(k)
  /\ DataTold(k)

genDecoderFunction ==
  /\ part = "functions"
  /\ layer <= NumStages
  /\ IF HasFunctions(layer)
     THEN layer' = layer + 1 /\ UNCHANGED part
     ELSE part' = "no_function" /\ UNCHANGED layer
  /\ UNCHANGED allVars

\* printdecfunction, and the end of the program.
Write ==
  /\ part = "functions"
  /\ layer = NumStages + 1
  /\ part' = "written"
  /\ UNCHANGED <<allVars, layer>>

GenNext ==
  \/ Search
  \/ StartPredicates
  \/ inferPredicateUniq_Pipe
  \/ StartFunctions
  \/ genDecoderFunction
  \/ Write

GenSpec == GenInit /\ [][GenNext]_decoderVars

\* The program is sequential: it keeps running while it can.
FairGenSpec == GenSpec /\ WF_decoderVars(GenNext)

-----------------------------------------------------------------------------
(***************************************************************************)
(* When genDecoderFunction finds no function, it is for flow control bits, *)
(* asked for without the predicate, and not for those of the last stage.   *)
(* Every other function exists, over the very bits and frames it is asked  *)
(* of: the searches before asked other questions, in another order, of     *)
(* lists that were reversed, cut and split into f and d since.             *)
(***************************************************************************)
FlowOnly == part = "no_function" => DataTold(layer) /\ layer # NumStages

(***************************************************************************)
(* characterization_interp_AB finds variables to interpolate over and the  *)
(* two copies unsatisfiable together, as it asserts: every pipeline of the *)
(* search becomes a decoder.                                               *)
(***************************************************************************)
Written == part \notin Stopped

\* The program ends: with a decoder, or at an assert.
Finishes ==
  <>(pc \in Failed \/ phase \in {"no_pipeline", "no_input_stage"} \/ part \in Stopped \cup {"written"})
=============================================================================
