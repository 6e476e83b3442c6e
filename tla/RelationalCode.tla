--------------------------- MODULE RelationalCode ---------------------------
(***************************************************************************)
(* relational_code of vp/compsyn_pred/elabmod.ml from the minimisation of  *)
(* the window on: MinimizeWindow, then the search for the pipeline stages  *)
(* of the encoder.                                                         *)
(*                                                                         *)
(* The outputs of the last frame determine some registers of that frame,   *)
(* those determine others one frame earlier, and so on back to the frame   *)
(* of the input.  The stage closest to the input that determines it is the *)
(* first of the pipeline.  Every arrow is a query of findUniqDecidedList.  *)
(***************************************************************************)
EXTENDS MinimizeWindow, Sequences

CONSTANTS
  Outs(_),  \* bv_outstrlist of an encoder
  Dffs(_),  \* dff_curlst, the first bit of each of its registers
  Ins(_),   \* bv_instrlist
  \* procDiff of findUniqDecidedList: in the window p, r of an encoder, with
  \* the bits of U the same in both copies at frame posU, the formula that
  \* some bit differs at frame posDiff is unsatisfiable
  Decides(_, _, _, _, _, _, _, _)

\* The frames after p that minimizeLR leaves a window started from bound b:
\* k of them determine the valid inputs, one fewer does not.
Shortest(e, b, k) == ~Lost(e, b + b, 0, k) /\ (k = 0 \/ Lost(e, b + b, 0, k - 1))

(***************************************************************************)
(* What the queries have to do with each other: in the windows the search  *)
(* works in, what follows from registers that the outputs determine, the   *)
(* outputs determine; and what minimizeL2Right found out of all bits of    *)
(* the input holds of each.                                                *)
(***************************************************************************)
ASSUME ChainAssumption ==
  \A e \in Encoder : \A b \in Start(e) : \A k \in 0 .. b : Shortest(e, b, k) =>
    \A j \in b + b .. b + b + k - 1 : \A V \in SUBSET Dffs(e) :
      (\A v \in V : Decides(e, b + b, k, Outs(e), b + b + k, v, j + 1, TRUE)) =>
        \A d \in Dffs(e) :
          Decides(e, b + b, k, V, j + 1, d, j, TRUE) =>
            Decides(e, b + b, k, Outs(e), b + b + k, d, j, TRUE)

ASSUME OutputAssumption ==
  \A e \in Encoder : Outs(e) # {} /\ \A b \in Start(e) : \A k \in 0 .. b :
    ~LostLate(e, b + b, k, k) =>
      \A i \in Ins(e) : Decides(e, b + b, k, Outs(e), b + b + k, i, b + b, TRUE)

VARIABLES
  stages,  \* realList: the outputs, the last stage, ..., the first stage
  rest,    \* the registers that are in no stage yet
  head,    \* the stage that is tried next for the input, from the first on
  flow,    \* pipeCFList: of each stage, what the outputs determine by themselves
  phase    \* where in the search, or the assert it stopped at

stageVars == <<stages, rest, head, flow, phase>>
allVars == <<vars, stageVars>>

\* p+l1, the frame of the last output, where l1 is l2right.
LastFrame == p + l2right

(***************************************************************************)
(* findUniqDecidedList: the bits of diff at posDiff that U at posU         *)
(* determines in the window p, r; if forced, where the input of one of the *)
(* two copies is valid.                                                    *)
(***************************************************************************)
findUniqDecidedList(U, posU, diff, posDiff, forced) ==
  {d \in diff : Decides(enc, p, r, U, posU, d, posDiff, forced)}

Stage(pos, bits) == [pos |-> pos, bits |-> bits]

RelationalInit ==
  /\ Init
  /\ stages = <<>>
  /\ rest = {}
  /\ head = 0
  /\ flow = <<>>
  /\ phase = "minimize"

Searching == {"minimize", "stages", "input"}
Ended == {"pipeline", "no_pipeline", "no_input_stage"}

(***************************************************************************)
(* The stages go back frame by frame from the outputs, over registers that *)
(* are not left over; and head is one of them.                             *)
(***************************************************************************)
RelationalTypeOK ==
  /\ TypeOK
  /\ phase \in Searching \cup Ended
  /\ phase # "minimize" => pc = "done" /\ stages # <<>> /\ stages[1] = Stage(LastFrame, Outs(enc))
  /\ stages \in Seq([pos : Int, bits : SUBSET (Outs(enc) \cup Dffs(enc))])
  /\ \A n \in 2 .. Len(stages) : /\ stages[n].pos = LastFrame + 2 - n
                                 /\ stages[n].bits \subseteq Dffs(enc) \ rest
  /\ rest \subseteq Dffs(enc)
  /\ head \in 0 .. Len(stages)
  /\ flow \in Seq([pos : Int, known : SUBSET Dffs(enc), other : SUBSET Dffs(enc)])

-----------------------------------------------------------------------------
Minimize == Next /\ UNCHANGED stageVars

\* p+l1 output -> p+l1 state
LastStage ==
  /\ pc = "done"
  /\ phase = "minimize"
  /\ LET bits == findUniqDecidedList(Outs(enc), LastFrame, Dffs(enc), LastFrame, TRUE)
     IN  /\ stages' = <<Stage(LastFrame, Outs(enc)), Stage(LastFrame, bits)>>
         /\ rest' = Dffs(enc) \ bits
  /\ phase' = "stages"
  /\ UNCHANGED <<vars, head, flow>>

Latest == stages[Len(stages)]

\* Mutant: a stage is listed at the frame of the bits that determine it.
EarlierStageLate ==
  /\ phase = "stages"
  /\ Latest.pos > p
  /\ LET hd   == Latest.pos - 1
         bits == findUniqDecidedList(Latest.bits, hd + 1, rest, hd, TRUE)
     IN  /\ stages' = Append(stages, Stage(hd + 1, bits))
         /\ rest' = rest \ bits
  /\ UNCHANGED <<vars, head, flow, phase>>

\* doproc: hd+1 state -> hd state, for the registers left.
EarlierStage ==
  /\ phase = "stages"
  /\ Latest.pos > p
  /\ LET hd   == Latest.pos - 1
         bits == findUniqDecidedList(Latest.bits, hd + 1, rest, hd, TRUE)
     IN  /\ stages' = Append(stages, Stage(hd, bits))
         /\ rest' = rest \ bits
  /\ UNCHANGED <<vars, head, flow, phase>>

(***************************************************************************)
(* getHeadListTail splits off the registers that are in no stage, which    *)
(* doproc put last; if there was no earlier frame and doproc did not run,  *)
(* that takes the only stage there is.                                     *)
(***************************************************************************)
EndStages ==
  /\ phase = "stages"
  /\ Latest.pos = p
  /\ stages' = IF l2right = 0 THEN <<stages[1]>> ELSE stages
  /\ head' = Len(stages')
  /\ phase' = "input"
  /\ UNCHANGED <<vars, rest, flow>>

\* The stage at head determines every bit of the input.
DeterminesInput ==
  /\ stages[head].bits # {}
  /\ findUniqDecidedList(stages[head].bits, stages[head].pos, Ins(enc), p, TRUE) = Ins(enc)

\* Mutant: the outputs are not tried.
NextCandidateRegisters ==
  /\ phase = "input"
  /\ ~DeterminesInput
  /\ IF head > 2 THEN head' = head - 1 /\ UNCHANGED phase
                 ELSE phase' = "no_input_stage" /\ UNCHANGED head
  /\ UNCHANGED <<vars, stages, rest, flow>>

\* checkRevRealList: the next stage, the outputs at last, or its assert.
NextCandidate ==
  /\ phase = "input"
  /\ ~DeterminesInput
  /\ IF head > 1 THEN head' = head - 1 /\ UNCHANGED phase
                 ELSE phase' = "no_input_stage" /\ UNCHANGED head
  /\ UNCHANGED <<vars, stages, rest, flow>>

\* Mutant: the list from the element that was found.
PipelineFromHead == SubSeq(stages, 1, head)

\* getPosList: the list from the first element at the position of the head.
Pipeline ==
  LET here == {k \in DOMAIN stages : stages[k].pos = stages[head].pos}
  IN  SubSeq(stages, 1, CHOOSE n \in here : \A k \in here : k <= n)

\* computeCF: what the outputs say of a stage without the predicate.
FlowOf(s) ==
  LET known == findUniqDecidedList(Outs(enc), LastFrame, s.bits, s.pos, FALSE)
  IN  [pos |-> s.pos, known |-> known, other |-> s.bits \ known]

\* computeCF asserts that the list has a stage besides the outputs.
Candidate ==
  /\ phase = "input"
  /\ DeterminesInput
  /\ IF Len(Pipeline) > 1
     THEN /\ flow' = [k \in 1 .. Len(Pipeline) - 1 |-> FlowOf(Pipeline[k + 1])]
          /\ phase' = "pipeline"
     ELSE /\ phase' = "no_pipeline"
          /\ UNCHANGED flow
  /\ UNCHANGED <<vars, stages, rest, head>>

RelationalNext ==
  \/ Minimize
  \/ LastStage
  \/ EarlierStage
  \/ EndStages
  \/ NextCandidate
  \/ Candidate

RelationalSpec == RelationalInit /\ [][RelationalNext]_allVars

-----------------------------------------------------------------------------
\* The outputs determine every register of the stage.
Follows(s) ==
  /\ s.pos \in p .. LastFrame
  /\ findUniqDecidedList(Outs(enc), LastFrame, s.bits, s.pos, TRUE) = s.bits

(***************************************************************************)
(* The decoder can be built from the outputs back: each stage follows from *)
(* the one after it, and so, over several queries with other bits, frames  *)
(* and registers left, every register of a stage from the outputs alone.   *)
(***************************************************************************)
StagesFollow == \A n \in 2 .. Len(stages) : Follows(stages[n])

(***************************************************************************)
(* checkRevRealList never runs off its list: when no stage determines the  *)
(* input the outputs of the last frame do, by what minimizeL2Right found   *)
(* out with a formula of its own.                                          *)
(***************************************************************************)
InputStageFound == phase # "no_input_stage"

(***************************************************************************)
(* The assert of computeCF fails for windows of a single frame only, where *)
(* there is no register between the output and the input; whichever stage  *)
(* the input was found at, and though two of them are at one position.     *)
(***************************************************************************)
PipelineUnlessAlone == phase = "no_pipeline" => r = 0
=============================================================================
